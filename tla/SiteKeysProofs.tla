---------------------------- MODULE SiteKeysProofs ----------------------------
(***************************************************************************)
(* Proofs about SiteKeys, for any number of browsers, requests, uploads    *)
(* and keypairs.                                                           *)
(***************************************************************************)
EXTENDS SiteKeys, TLAPS

\* Every step keeps the columns, cookies and request slots well typed.
LEMMA TypeOKStep ==
    ASSUME IInv, [Next]_vars
    PROVE  TypeOK'
<1>0. TypeOK /\ \A r \in Requests : pc[r] # "idle" => key[r] \in Keys
  BY DEF IInv, KnownToMinter
<1> USE SiteKeysAssumption, <1>0 DEF TypeOK, NoKey, Steps
<1>1. ASSUME NEW r \in Requests, NEW b \in Browsers, Rotate(r, b)
      PROVE  TypeOK'
  <2>1. issued' \in 0 .. MaxKeys /\ issued + 1 \in Keys
    BY <1>1 DEF Rotate, Keys
  <2> QED
    BY <1>1, <2>1 DEF Rotate, Arrive, Goto, database, uploads
<1>2. ASSUME NEW r \in Requests, NEW b \in Browsers, View(r, b)
      PROVE  TypeOK'
  BY <1>2 DEF View, Arrive, Goto, database, uploads, history
<1>3. ASSUME NEW r \in Requests, CommitRotation(r)
      PROVE  TypeOK'
  BY <1>3 DEF CommitRotation, Goto, uploads, history
<1>4. ASSUME NEW r \in Requests, Stash(r)
      PROVE  TypeOK'
  BY <1>4 DEF Stash, Goto, uploads, history
<1>5. ASSUME NEW r \in Requests, Redirect(r)
      PROVE  TypeOK'
  BY <1>5 DEF Redirect, Finish, Goto, database, uploads, history
<1>6. ASSUME NEW r \in Requests, PopRead(r)
      PROVE  TypeOK'
  BY <1>6 DEF PopRead, Goto, database, uploads, history
<1>7. ASSUME NEW r \in Requests, PopNothing(r)
      PROVE  TypeOK'
  BY <1>7 DEF PopNothing, Finish, Goto, database, uploads, history
<1>8. ASSUME NEW r \in Requests, PopCommit(r)
      PROVE  TypeOK'
  BY <1>8 DEF PopCommit, Goto, uploads, history
<1>9. ASSUME NEW r \in Requests, Show(r)
      PROVE  TypeOK'
  <2>1. shown' \in [Keys -> Nat]
    BY <1>9 DEF Show
  <2>2. saved' \in [Browsers -> SUBSET Keys]
    <3>1. key[r] \in Keys
      BY <1>9 DEF Show
    <3> QED
      BY <1>9, <3>1 DEF Show
  <2>3. cookie' \in [Browsers -> Keys \cup {NoKey}]
    BY <1>9 DEF Show
  <2> QED
    BY <1>9, <2>1, <2>2, <2>3 DEF Show, Finish, Goto, database, uploads
<1>10. ASSUME NEW r \in Requests, Die(r)
      PROVE  TypeOK'
  <2>1. lost' \in SUBSET Keys
    BY <1>10 DEF Die
  <2>2. writer' \in Requests \cup {None}
    BY <1>10 DEF Die
  <2> QED
    BY <1>10, <2>1, <2>2 DEF Die, Finish, Goto, database, uploads
<1>11. ASSUME NEW u \in Uploads, Ping(u)
      PROVE  TypeOK'
  BY <1>11 DEF Ping, database, console, history
<1>16. ASSUME NEW u \in Uploads, Refuse(u)
      PROVE  TypeOK'
  BY <1>16 DEF Refuse, database, console, history
<1>12. ASSUME NEW u \in Uploads, Label(u)
      PROVE  TypeOK'
  BY <1>12 DEF Label, database, console, history
<1>13. ASSUME NEW u \in Uploads, Ingest(u)
      PROVE  TypeOK'
  <2>1. [to |-> to[u], label |-> label[u]]
            \in [to : Keys \cup {NoKey}, label : Keys \cup {NoKey}]
    BY <1>13 DEF Ingest
  <2>2. backups' \in SUBSET [to : Keys \cup {NoKey}, label : Keys \cup {NoKey}]
    BY <1>13, <2>1 DEF Ingest
  <2>3. at' \in [Uploads -> {"waiting", "encrypting", "refused", "ingesting", "stored"}]
    BY <1>13 DEF Ingest
  <2> QED
    BY <1>13, <2>2, <2>3 DEF Ingest, console, history
<1>14. ASSUME NEW k \in Keys, Expire(k)
      PROVE  TypeOK'
  BY <1>14 DEF Expire, console, uploads, history
<1>15. CASE UNCHANGED vars
  BY <1>15 DEF vars, database, console, uploads, history
<1> QED
  BY <1>1, <1>2, <1>3, <1>4, <1>5, <1>6, <1>7, <1>8, <1>9, <1>10, <1>11, <1>12, <1>13,
     <1>14, <1>15, <1>16 DEF Next, Handle

\* No step uses a keypair before it is issued.
LEMMA OnlyIssuedStep ==
    ASSUME IInv, [Next]_vars
    PROVE  OnlyIssued'
<1> USE SiteKeysAssumption DEF IInv, TypeOK, Keys, NoKey, OnlyIssued
<1>1. ASSUME NEW r \in Requests, NEW b \in Browsers, Rotate(r, b)
      PROVE  OnlyIssued'
  <2>1. TypeOK /\ OnlyIssued /\ issued' = issued + 1 /\ issued \in Nat /\ issued' \in Nat
    BY <1>1 DEF Rotate
  <2> HIDE DEF IInv, Keys, NoKey
  <2>2. \A q \in Requests : key'[q] <= issued'
    <3>1. \A q \in Requests : key[q] \in Int /\ key[q] <= issued
      BY <2>1 DEF Keys, NoKey
    <3>2. \A q \in Requests : key'[q] = IF q = r THEN issued + 1 ELSE key[q]
      BY <1>1, <2>1 DEF Rotate, Arrive
    <3> QED
      BY <2>1, <3>1, <3>2
  <2>3. public' <= issued' /\ stash' \subseteq 1 .. issued'
    <3>1. public \in Int /\ \A k \in stash : k \in Int /\ 1 <= k /\ k <= issued
      BY <2>1 DEF Keys, NoKey
    <3> QED
      BY <1>1, <2>1, <3>1 DEF Rotate, database
  <2>4. \A c \in Browsers : cookie'[c] <= issued'
    <3>1. \A c \in Browsers : cookie[c] \in Int /\ cookie[c] <= issued
      BY <2>1 DEF Keys, NoKey
    <3> QED
      BY <1>1, <2>1, <3>1 DEF Rotate
  <2>5. \A k \in Keys : shown'[k] > 0 => k <= issued'
    <3>1. \A k \in Keys : k \in Int /\ shown'[k] = shown[k]
      BY <1>1 DEF Rotate, Keys
    <3> QED
      BY <2>1, <3>1
  <2> QED
    BY <2>2, <2>3, <2>4, <2>5
<1>2. ASSUME NEW r \in Requests, NEW b \in Browsers, View(r, b)
      PROVE  OnlyIssued'
  BY <1>2 DEF View, Arrive, Goto, database, uploads, history
<1>3. ASSUME NEW r \in Requests, CommitRotation(r)
      PROVE  OnlyIssued'
  BY <1>3 DEF CommitRotation, Goto, uploads, history
<1>4. ASSUME NEW r \in Requests, Stash(r)
      PROVE  OnlyIssued'
  <2>1. key[r] \in 1 .. issued
    BY <1>4 DEF Stash, FreshIsPrivate
  <2> QED
    BY <1>4, <2>1 DEF Stash, Goto, uploads, history
<1>5. ASSUME NEW r \in Requests, Redirect(r)
      PROVE  OnlyIssued'
  BY <1>5 DEF Redirect, Finish, Goto, database, uploads, history
<1>6. ASSUME NEW r \in Requests, PopRead(r)
      PROVE  OnlyIssued'
  BY <1>6 DEF PopRead, Goto, database, uploads, history
<1>7. ASSUME NEW r \in Requests, PopNothing(r)
      PROVE  OnlyIssued'
  BY <1>7 DEF PopNothing, Finish, Goto, database, uploads, history
<1>8. ASSUME NEW r \in Requests, PopCommit(r)
      PROVE  OnlyIssued'
  BY <1>8 DEF PopCommit, Goto, uploads, history
<1>9. ASSUME NEW r \in Requests, Show(r)
      PROVE  OnlyIssued'
  BY <1>9 DEF Show, Finish, Goto, database, uploads
<1>10. ASSUME NEW r \in Requests, Die(r)
      PROVE  OnlyIssued'
  BY <1>10 DEF Die, Finish, Goto, database, uploads, history
<1>11. ASSUME NEW u \in Uploads, Ping(u)
      PROVE  OnlyIssued'
  BY <1>11 DEF Ping, database, console, history
<1>16. ASSUME NEW u \in Uploads, Refuse(u)
      PROVE  OnlyIssued'
  BY <1>16 DEF Refuse, database, console, history
<1>12. ASSUME NEW u \in Uploads, Label(u)
      PROVE  OnlyIssued'
  BY <1>12 DEF Label, database, console, history
<1>13. ASSUME NEW u \in Uploads, Ingest(u)
      PROVE  OnlyIssued'
  BY <1>13 DEF Ingest, console, history
<1>14. ASSUME NEW k \in Keys, Expire(k)
      PROVE  OnlyIssued'
  BY <1>14 DEF Expire, console, uploads, history
<1>15. CASE UNCHANGED vars
  BY <1>15 DEF vars, database, console, uploads, history
<1> QED
  BY <1>1, <1>2, <1>3, <1>4, <1>5, <1>6, <1>7, <1>8, <1>9, <1>10, <1>11, <1>12, <1>13,
     <1>14, <1>15, <1>16 DEF Next, Handle

\* Until it is stashed a new keypair stays with the request that made it.
LEMMA FreshIsPrivateStep ==
    ASSUME IInv, [Next]_vars
    PROVE  FreshIsPrivate'
<1> USE SiteKeysAssumption
    DEF IInv, TypeOK, Keys, NoKey, OnlyIssued, FreshIsPrivate, PopIsExclusive
<1>1. ASSUME NEW r \in Requests, NEW b \in Browsers, Rotate(r, b)
      PROVE  FreshIsPrivate'
  BY <1>1 DEF Rotate, Arrive, Goto, database, uploads
<1>2. ASSUME NEW r \in Requests, NEW b \in Browsers, View(r, b)
      PROVE  FreshIsPrivate'
  BY <1>2 DEF View, Arrive, Goto, database, uploads, history
<1>3. ASSUME NEW r \in Requests, CommitRotation(r)
      PROVE  FreshIsPrivate'
  BY <1>3 DEF CommitRotation, Goto, uploads, history
<1>4. ASSUME NEW r \in Requests, Stash(r)
      PROVE  FreshIsPrivate'
  BY <1>4 DEF Stash, Goto, uploads, history
<1>5. ASSUME NEW r \in Requests, Redirect(r)
      PROVE  FreshIsPrivate'
  BY <1>5 DEF Redirect, Finish, Goto, database, uploads, history
<1>6. ASSUME NEW r \in Requests, PopRead(r)
      PROVE  FreshIsPrivate'
  BY <1>6 DEF PopRead, Goto, database, uploads, history
<1>7. ASSUME NEW r \in Requests, PopNothing(r)
      PROVE  FreshIsPrivate'
  BY <1>7 DEF PopNothing, Finish, Goto, database, uploads, history
<1>8. ASSUME NEW r \in Requests, PopCommit(r)
      PROVE  FreshIsPrivate'
  BY <1>8 DEF PopCommit, Goto, uploads, history
<1>9. ASSUME NEW r \in Requests, Show(r)
      PROVE  FreshIsPrivate'
  BY <1>9 DEF Show, Finish, Goto, database, uploads
<1>10. ASSUME NEW r \in Requests, Die(r)
      PROVE  FreshIsPrivate'
  BY <1>10 DEF Die, Finish, Goto, database, uploads, history
<1>11. ASSUME NEW u \in Uploads, Ping(u)
      PROVE  FreshIsPrivate'
  BY <1>11 DEF Ping, database, console, history
<1>16. ASSUME NEW u \in Uploads, Refuse(u)
      PROVE  FreshIsPrivate'
  BY <1>16 DEF Refuse, database, console, history
<1>12. ASSUME NEW u \in Uploads, Label(u)
      PROVE  FreshIsPrivate'
  BY <1>12 DEF Label, database, console, history
<1>13. ASSUME NEW u \in Uploads, Ingest(u)
      PROVE  FreshIsPrivate'
  BY <1>13 DEF Ingest, console, history
<1>14. ASSUME NEW k \in Keys, Expire(k)
      PROVE  FreshIsPrivate'
  BY <1>14 DEF Expire, console, uploads, history
<1>15. CASE UNCHANGED vars
  BY <1>15 DEF vars, database, console, uploads, history
<1> QED
  BY <1>1, <1>2, <1>3, <1>4, <1>5, <1>6, <1>7, <1>8, <1>9, <1>10, <1>11, <1>12, <1>13,
     <1>14, <1>15, <1>16 DEF Next, Handle

\* The write lock is not lost between the read of a row and its deletion.
LEMMA PopIsExclusiveStep ==
    ASSUME IInv, [Next]_vars
    PROVE  PopIsExclusive'
<1> USE SiteKeysAssumption DEF IInv, TypeOK, Keys, NoKey, PopIsExclusive, Steps
<1>1. ASSUME NEW r \in Requests, NEW b \in Browsers, Rotate(r, b)
      PROVE  PopIsExclusive'
  BY <1>1 DEF Rotate, Arrive, Goto, database, uploads
<1>2. ASSUME NEW r \in Requests, NEW b \in Browsers, View(r, b)
      PROVE  PopIsExclusive'
  BY <1>2 DEF View, Arrive, Goto, database, uploads, history
<1>3. ASSUME NEW r \in Requests, CommitRotation(r)
      PROVE  PopIsExclusive'
  BY <1>3 DEF CommitRotation, Goto, uploads, history
<1>4. ASSUME NEW r \in Requests, Stash(r)
      PROVE  PopIsExclusive'
  BY <1>4 DEF Stash, Goto, uploads, history
<1>5. ASSUME NEW r \in Requests, Redirect(r)
      PROVE  PopIsExclusive'
  BY <1>5 DEF Redirect, Finish, Goto, database, uploads, history
<1>6. ASSUME NEW r \in Requests, PopRead(r)
      PROVE  PopIsExclusive'
  BY <1>6 DEF PopRead, Goto, database, uploads, history
<1>7. ASSUME NEW r \in Requests, PopNothing(r)
      PROVE  PopIsExclusive'
  BY <1>7 DEF PopNothing, Finish, Goto, database, uploads, history
<1>8. ASSUME NEW r \in Requests, PopCommit(r)
      PROVE  PopIsExclusive'
  BY <1>8 DEF PopCommit, Goto, uploads, history
<1>9. ASSUME NEW r \in Requests, Show(r)
      PROVE  PopIsExclusive'
  BY <1>9 DEF Show, Finish, Goto, database, uploads
<1>10. ASSUME NEW r \in Requests, Die(r)
      PROVE  PopIsExclusive'
  BY <1>10 DEF Die, Finish, Goto, database, uploads, history
<1>11. ASSUME NEW u \in Uploads, Ping(u)
      PROVE  PopIsExclusive'
  BY <1>11 DEF Ping, database, console, history
<1>16. ASSUME NEW u \in Uploads, Refuse(u)
      PROVE  PopIsExclusive'
  BY <1>16 DEF Refuse, database, console, history
<1>12. ASSUME NEW u \in Uploads, Label(u)
      PROVE  PopIsExclusive'
  BY <1>12 DEF Label, database, console, history
<1>13. ASSUME NEW u \in Uploads, Ingest(u)
      PROVE  PopIsExclusive'
  BY <1>13 DEF Ingest, console, history
<1>14. ASSUME NEW k \in Keys, Expire(k)
      PROVE  PopIsExclusive'
  BY <1>14 DEF Expire, console, uploads, history
<1>15. CASE UNCHANGED vars
  BY <1>15 DEF vars, database, console, uploads, history
<1> QED
  BY <1>1, <1>2, <1>3, <1>4, <1>5, <1>6, <1>7, <1>8, <1>9, <1>10, <1>11, <1>12, <1>13,
     <1>14, <1>15, <1>16 DEF Next, Handle

\* Only one request shows a secret, and only one that is off the server.
LEMMA ShowIsExclusiveStep ==
    ASSUME IInv, [Next]_vars
    PROVE  ShowIsExclusive'
<1> USE SiteKeysAssumption
    DEF IInv, TypeOK, Keys, NoKey, FreshIsPrivate, PopIsExclusive, ShowIsExclusive,
        ShownIsDestroyed
<1>1. ASSUME NEW r \in Requests, NEW b \in Browsers, Rotate(r, b)
      PROVE  ShowIsExclusive'
  BY <1>1 DEF Rotate, Arrive, Goto, database, uploads
<1>2. ASSUME NEW r \in Requests, NEW b \in Browsers, View(r, b)
      PROVE  ShowIsExclusive'
  BY <1>2 DEF View, Arrive, Goto, database, uploads, history
<1>3. ASSUME NEW r \in Requests, CommitRotation(r)
      PROVE  ShowIsExclusive'
  BY <1>3 DEF CommitRotation, Goto, uploads, history
<1>4. ASSUME NEW r \in Requests, Stash(r)
      PROVE  ShowIsExclusive'
  BY <1>4 DEF Stash, Goto, uploads, history
<1>5. ASSUME NEW r \in Requests, Redirect(r)
      PROVE  ShowIsExclusive'
  BY <1>5 DEF Redirect, Finish, Goto, database, uploads, history
<1>6. ASSUME NEW r \in Requests, PopRead(r)
      PROVE  ShowIsExclusive'
  BY <1>6 DEF PopRead, Goto, database, uploads, history
<1>7. ASSUME NEW r \in Requests, PopNothing(r)
      PROVE  ShowIsExclusive'
  BY <1>7 DEF PopNothing, Finish, Goto, database, uploads, history
<1>8. ASSUME NEW r \in Requests, PopCommit(r)
      PROVE  ShowIsExclusive'
  BY <1>8 DEF PopCommit, Goto, uploads, history
<1>9. ASSUME NEW r \in Requests, Show(r)
      PROVE  ShowIsExclusive'
  BY <1>9 DEF Show, Finish, Goto, database, uploads
<1>10. ASSUME NEW r \in Requests, Die(r)
      PROVE  ShowIsExclusive'
  BY <1>10 DEF Die, Finish, Goto, database, uploads, history
<1>11. ASSUME NEW u \in Uploads, Ping(u)
      PROVE  ShowIsExclusive'
  BY <1>11 DEF Ping, database, console, history
<1>16. ASSUME NEW u \in Uploads, Refuse(u)
      PROVE  ShowIsExclusive'
  BY <1>16 DEF Refuse, database, console, history
<1>12. ASSUME NEW u \in Uploads, Label(u)
      PROVE  ShowIsExclusive'
  BY <1>12 DEF Label, database, console, history
<1>13. ASSUME NEW u \in Uploads, Ingest(u)
      PROVE  ShowIsExclusive'
  BY <1>13 DEF Ingest, console, history
<1>14. ASSUME NEW k \in Keys, Expire(k)
      PROVE  ShowIsExclusive'
  BY <1>14 DEF Expire, console, uploads, history
<1>15. CASE UNCHANGED vars
  BY <1>15 DEF vars, database, console, uploads, history
<1> QED
  BY <1>1, <1>2, <1>3, <1>4, <1>5, <1>6, <1>7, <1>8, <1>9, <1>10, <1>11, <1>12, <1>13,
     <1>14, <1>15, <1>16 DEF Next, Handle

\* A request that is done leaves the others, and the cookies of their browsers, as they were.
LEMMA FinishKeepsOneByOne ==
    ASSUME IInv, NEW r \in Requests, pc[r] # "idle", Finish(r),
           UNCHANGED <<public, minter, crossed>>,
           \A b \in Browsers \ {browser[r]} : cookie'[b] = cookie[b]
    PROVE  OneByOne'
<1>1. /\ pc \in [Requests -> Steps]
      /\ browser \in [Requests -> Browsers \cup {None}]
      /\ key \in [Requests -> Keys \cup {NoKey}]
      /\ KnownToMinter /\ OneByOne
  BY DEF IInv, TypeOK
<1> SUFFICES ASSUME NEW q \in Requests, pc'[q] # "idle", browser'[q] \notin crossed'
             PROVE  /\ \A p \in Requests \ {q} : browser'[p] # browser'[q]
                    /\ pc'[q] \in {"viewing", "popping", "showing"} =>
                          cookie'[browser'[q]] = key'[q]
                    /\ pc'[q] \in {"stashing", "redirecting"} /\ public' # NoKey
                          /\ minter'[public'] = browser'[q] => public' = key'[q]
  BY DEF OneByOne
<1>2. /\ q # r
      /\ pc'[q] = pc[q] /\ browser'[q] = browser[q] /\ key'[q] = key[q]
      /\ \A p \in Requests \ {r} : browser'[p] = browser[p]
      /\ browser'[r] = None
  BY <1>1 DEF Finish, Goto
<1>3. /\ browser[q] \in Browsers \ {None, browser[r]}
      /\ \A p \in Requests \ {q} : browser[p] # browser[q]
  BY <1>1, <1>2, SiteKeysAssumption DEF KnownToMinter, OneByOne
<1>4. cookie'[browser[q]] = cookie[browser[q]]
  BY <1>3
<1> QED
  BY <1>1, <1>2, <1>3, <1>4 DEF OneByOne

\* A browser whose requests do not overlap keeps the nonce its request came with.
LEMMA OneByOneStep ==
    ASSUME IInv, [Next]_vars
    PROVE  OneByOne'
<1>0. /\ pc \in [Requests -> Steps]
      /\ browser \in [Requests -> Browsers \cup {None}]
      /\ key \in [Requests -> Keys \cup {NoKey}]
      /\ cookie \in [Browsers -> Keys \cup {NoKey}]
      /\ minter \in [Keys -> Browsers \cup {None}]
      /\ crossed \in SUBSET Browsers
      /\ public \in Keys \cup {NoKey} /\ public <= issued
      /\ issued \in 0 .. MaxKeys
      /\ KnownToMinter /\ OneByOne
  BY DEF IInv, TypeOK, OnlyIssued
<1> USE SiteKeysAssumption, <1>0 DEF KnownToMinter, OneByOne
<1>1. ASSUME NEW r \in Requests, NEW b \in Browsers, Rotate(r, b)
      PROVE  OneByOne'
  BY <1>1 DEF Rotate, Arrive, Goto, database, uploads
<1>2. ASSUME NEW r \in Requests, NEW b \in Browsers, View(r, b)
      PROVE  OneByOne'
  BY <1>2 DEF View, Arrive, Goto, database, uploads, history
<1>3. ASSUME NEW r \in Requests, CommitRotation(r)
      PROVE  OneByOne'
  BY <1>3 DEF CommitRotation, Goto, uploads, history
<1>4. ASSUME NEW r \in Requests, Stash(r)
      PROVE  OneByOne'
  BY <1>4 DEF Stash, Goto, uploads, history
<1>5. ASSUME NEW r \in Requests, Redirect(r)
      PROVE  OneByOne'
  <2>1. Finish(r) /\ pc[r] # "idle"
    BY <1>5 DEF Redirect
  <2>2. UNCHANGED <<public, minter, crossed>>
    BY <1>5 DEF Redirect, database, history
  <2>3. \A b \in Browsers \ {browser[r]} : cookie'[b] = cookie[b]
    BY <1>5 DEF Redirect
  <2> QED
    BY <2>1, <2>2, <2>3, FinishKeepsOneByOne
<1>6. ASSUME NEW r \in Requests, PopRead(r)
      PROVE  OneByOne'
  BY <1>6 DEF PopRead, Goto, database, uploads, history
<1>7. ASSUME NEW r \in Requests, PopNothing(r)
      PROVE  OneByOne'
  <2>1. Finish(r) /\ pc[r] # "idle"
    BY <1>7 DEF PopNothing
  <2>2. UNCHANGED <<public, minter, crossed>>
    BY <1>7 DEF PopNothing, database, history
  <2>3. \A b \in Browsers \ {browser[r]} : cookie'[b] = cookie[b]
    BY <1>7 DEF PopNothing
  <2> QED
    BY <2>1, <2>2, <2>3, FinishKeepsOneByOne
<1>8. ASSUME NEW r \in Requests, PopCommit(r)
      PROVE  OneByOne'
  BY <1>8 DEF PopCommit, Goto, uploads, history
<1>9. ASSUME NEW r \in Requests, Show(r)
      PROVE  OneByOne'
  <2>1. Finish(r) /\ pc[r] # "idle"
    BY <1>9 DEF Show
  <2>2. UNCHANGED <<public, minter, crossed>>
    BY <1>9 DEF Show, database
  <2>3. \A b \in Browsers \ {browser[r]} : cookie'[b] = cookie[b]
    BY <1>9 DEF Show
  <2> QED
    BY <2>1, <2>2, <2>3, FinishKeepsOneByOne
<1>10. ASSUME NEW r \in Requests, Die(r)
      PROVE  OneByOne'
  <2>1. Finish(r) /\ pc[r] # "idle"
    BY <1>10 DEF Die
  <2>2. UNCHANGED <<public, minter, crossed>>
    BY <1>10 DEF Die, database, history
  <2>3. \A b \in Browsers \ {browser[r]} : cookie'[b] = cookie[b]
    BY <1>10 DEF Die
  <2> QED
    BY <2>1, <2>2, <2>3, FinishKeepsOneByOne
<1>11. ASSUME NEW u \in Uploads, Ping(u)
      PROVE  OneByOne'
  BY <1>11 DEF Ping, database, console, history
<1>16. ASSUME NEW u \in Uploads, Refuse(u)
      PROVE  OneByOne'
  BY <1>16 DEF Refuse, database, console, history
<1>12. ASSUME NEW u \in Uploads, Label(u)
      PROVE  OneByOne'
  BY <1>12 DEF Label, database, console, history
<1>13. ASSUME NEW u \in Uploads, Ingest(u)
      PROVE  OneByOne'
  BY <1>13 DEF Ingest, console, history
<1>14. ASSUME NEW k \in Keys, Expire(k)
      PROVE  OneByOne'
  BY <1>14 DEF Expire, console, uploads, history
<1>15. CASE UNCHANGED vars
  BY <1>15 DEF vars, database, console, uploads, history
<1> QED
  BY <1>1, <1>2, <1>3, <1>4, <1>5, <1>6, <1>7, <1>8, <1>9, <1>10, <1>11, <1>12, <1>13,
     <1>14, <1>15, <1>16 DEF Next, Handle

\* The current private key stays within reach of the browser that asked for it.
LEMMA CurrentKeyIsHeldStep ==
    ASSUME IInv, [Next]_vars
    PROVE  CurrentKeyIsHeld'
<1> USE SiteKeysAssumption DEF IInv, TypeOK, Keys, NoKey, OnlyIssued, KnownToMinter, OneByOne,
        PopIsExclusive, CurrentKeyIsHeld
<1>1. ASSUME NEW r \in Requests, NEW b \in Browsers, Rotate(r, b)
      PROVE  CurrentKeyIsHeld'
  BY <1>1 DEF Rotate, Arrive, Goto, database, uploads
<1>2. ASSUME NEW r \in Requests, NEW b \in Browsers, View(r, b)
      PROVE  CurrentKeyIsHeld'
  BY <1>2 DEF View, Arrive, Goto, database, uploads, history
<1>3. ASSUME NEW r \in Requests, CommitRotation(r)
      PROVE  CurrentKeyIsHeld'
  BY <1>3 DEF CommitRotation, Goto, uploads, history
<1>4. ASSUME NEW r \in Requests, Stash(r)
      PROVE  CurrentKeyIsHeld'
  BY <1>4 DEF Stash, Goto, uploads, history
<1>5. ASSUME NEW r \in Requests, Redirect(r)
      PROVE  CurrentKeyIsHeld'
  BY <1>5 DEF Redirect, Finish, Goto, database, uploads, history
<1>6. ASSUME NEW r \in Requests, PopRead(r)
      PROVE  CurrentKeyIsHeld'
  BY <1>6 DEF PopRead, Goto, database, uploads, history
<1>7. ASSUME NEW r \in Requests, PopNothing(r)
      PROVE  CurrentKeyIsHeld'
  BY <1>7 DEF PopNothing, Finish, Goto, database, uploads, history
<1>8. ASSUME NEW r \in Requests, PopCommit(r)
      PROVE  CurrentKeyIsHeld'
  BY <1>8 DEF PopCommit, Goto, uploads, history
<1>9. ASSUME NEW r \in Requests, Show(r)
      PROVE  CurrentKeyIsHeld'
  BY <1>9 DEF Show, Finish, Goto, database, uploads
<1>10. ASSUME NEW r \in Requests, Die(r)
      PROVE  CurrentKeyIsHeld'
  BY <1>10 DEF Die, Finish, Goto, database, uploads, history
<1>11. ASSUME NEW u \in Uploads, Ping(u)
      PROVE  CurrentKeyIsHeld'
  BY <1>11 DEF Ping, database, console, history
<1>16. ASSUME NEW u \in Uploads, Refuse(u)
      PROVE  CurrentKeyIsHeld'
  BY <1>16 DEF Refuse, database, console, history
<1>12. ASSUME NEW u \in Uploads, Label(u)
      PROVE  CurrentKeyIsHeld'
  BY <1>12 DEF Label, database, console, history
<1>13. ASSUME NEW u \in Uploads, Ingest(u)
      PROVE  CurrentKeyIsHeld'
  BY <1>13 DEF Ingest, console, history
<1>14. ASSUME NEW k \in Keys, Expire(k)
      PROVE  CurrentKeyIsHeld'
  BY <1>14 DEF Expire, console, uploads, history
<1>15. CASE UNCHANGED vars
  BY <1>15 DEF vars, database, console, uploads, history
<1> QED
  BY <1>1, <1>2, <1>3, <1>4, <1>5, <1>6, <1>7, <1>8, <1>9, <1>10, <1>11, <1>12, <1>13,
     <1>14, <1>15, <1>16 DEF Next, Handle

\* A secret that has been shown does not come back to the stash.
LEMMA ShownIsDestroyedStep ==
    ASSUME IInv, [Next]_vars
    PROVE  ShownIsDestroyed'
<1> USE SiteKeysAssumption
    DEF IInv, TypeOK, Keys, NoKey, FreshIsPrivate, PopIsExclusive, ShowIsExclusive,
        ShownIsDestroyed
<1>1. ASSUME NEW r \in Requests, NEW b \in Browsers, Rotate(r, b)
      PROVE  ShownIsDestroyed'
  BY <1>1 DEF Rotate, Arrive, Goto, database, uploads
<1>2. ASSUME NEW r \in Requests, NEW b \in Browsers, View(r, b)
      PROVE  ShownIsDestroyed'
  BY <1>2 DEF View, Arrive, Goto, database, uploads, history
<1>3. ASSUME NEW r \in Requests, CommitRotation(r)
      PROVE  ShownIsDestroyed'
  BY <1>3 DEF CommitRotation, Goto, uploads, history
<1>4. ASSUME NEW r \in Requests, Stash(r)
      PROVE  ShownIsDestroyed'
  BY <1>4 DEF Stash, Goto, uploads, history
<1>5. ASSUME NEW r \in Requests, Redirect(r)
      PROVE  ShownIsDestroyed'
  BY <1>5 DEF Redirect, Finish, Goto, database, uploads, history
<1>6. ASSUME NEW r \in Requests, PopRead(r)
      PROVE  ShownIsDestroyed'
  BY <1>6 DEF PopRead, Goto, database, uploads, history
<1>7. ASSUME NEW r \in Requests, PopNothing(r)
      PROVE  ShownIsDestroyed'
  BY <1>7 DEF PopNothing, Finish, Goto, database, uploads, history
<1>8. ASSUME NEW r \in Requests, PopCommit(r)
      PROVE  ShownIsDestroyed'
  BY <1>8 DEF PopCommit, Goto, uploads, history
<1>9. ASSUME NEW r \in Requests, Show(r)
      PROVE  ShownIsDestroyed'
  BY <1>9 DEF Show, Finish, Goto, database, uploads
<1>10. ASSUME NEW r \in Requests, Die(r)
      PROVE  ShownIsDestroyed'
  BY <1>10 DEF Die, Finish, Goto, database, uploads, history
<1>11. ASSUME NEW u \in Uploads, Ping(u)
      PROVE  ShownIsDestroyed'
  BY <1>11 DEF Ping, database, console, history
<1>16. ASSUME NEW u \in Uploads, Refuse(u)
      PROVE  ShownIsDestroyed'
  BY <1>16 DEF Refuse, database, console, history
<1>12. ASSUME NEW u \in Uploads, Label(u)
      PROVE  ShownIsDestroyed'
  BY <1>12 DEF Label, database, console, history
<1>13. ASSUME NEW u \in Uploads, Ingest(u)
      PROVE  ShownIsDestroyed'
  BY <1>13 DEF Ingest, console, history
<1>14. ASSUME NEW k \in Keys, Expire(k)
      PROVE  ShownIsDestroyed'
  BY <1>14 DEF Expire, console, uploads, history
<1>15. CASE UNCHANGED vars
  BY <1>15 DEF vars, database, console, uploads, history
<1> QED
  BY <1>1, <1>2, <1>3, <1>4, <1>5, <1>6, <1>7, <1>8, <1>9, <1>10, <1>11, <1>12, <1>13,
     <1>14, <1>15, <1>16 DEF Next, Handle

\* Nothing is shown a second time.
LEMMA ShownOnceStep ==
    ASSUME IInv, [Next]_vars
    PROVE  ShownOnce'
<1> USE SiteKeysAssumption DEF IInv, TypeOK, Keys, NoKey, ShowIsExclusive, ShownOnce
<1>1. ASSUME NEW r \in Requests, NEW b \in Browsers, Rotate(r, b)
      PROVE  ShownOnce'
  BY <1>1 DEF Rotate, Arrive, Goto, database, uploads
<1>2. ASSUME NEW r \in Requests, NEW b \in Browsers, View(r, b)
      PROVE  ShownOnce'
  BY <1>2 DEF View, Arrive, Goto, database, uploads, history
<1>3. ASSUME NEW r \in Requests, CommitRotation(r)
      PROVE  ShownOnce'
  BY <1>3 DEF CommitRotation, Goto, uploads, history
<1>4. ASSUME NEW r \in Requests, Stash(r)
      PROVE  ShownOnce'
  BY <1>4 DEF Stash, Goto, uploads, history
<1>5. ASSUME NEW r \in Requests, Redirect(r)
      PROVE  ShownOnce'
  BY <1>5 DEF Redirect, Finish, Goto, database, uploads, history
<1>6. ASSUME NEW r \in Requests, PopRead(r)
      PROVE  ShownOnce'
  BY <1>6 DEF PopRead, Goto, database, uploads, history
<1>7. ASSUME NEW r \in Requests, PopNothing(r)
      PROVE  ShownOnce'
  BY <1>7 DEF PopNothing, Finish, Goto, database, uploads, history
<1>8. ASSUME NEW r \in Requests, PopCommit(r)
      PROVE  ShownOnce'
  BY <1>8 DEF PopCommit, Goto, uploads, history
<1>9. ASSUME NEW r \in Requests, Show(r)
      PROVE  ShownOnce'
  BY <1>9 DEF Show, Finish, Goto, database, uploads
<1>10. ASSUME NEW r \in Requests, Die(r)
      PROVE  ShownOnce'
  BY <1>10 DEF Die, Finish, Goto, database, uploads, history
<1>11. ASSUME NEW u \in Uploads, Ping(u)
      PROVE  ShownOnce'
  BY <1>11 DEF Ping, database, console, history
<1>16. ASSUME NEW u \in Uploads, Refuse(u)
      PROVE  ShownOnce'
  BY <1>16 DEF Refuse, database, console, history
<1>12. ASSUME NEW u \in Uploads, Label(u)
      PROVE  ShownOnce'
  BY <1>12 DEF Label, database, console, history
<1>13. ASSUME NEW u \in Uploads, Ingest(u)
      PROVE  ShownOnce'
  BY <1>13 DEF Ingest, console, history
<1>14. ASSUME NEW k \in Keys, Expire(k)
      PROVE  ShownOnce'
  BY <1>14 DEF Expire, console, uploads, history
<1>15. CASE UNCHANGED vars
  BY <1>15 DEF vars, database, console, uploads, history
<1> QED
  BY <1>1, <1>2, <1>3, <1>4, <1>5, <1>6, <1>7, <1>8, <1>9, <1>10, <1>11, <1>12, <1>13,
     <1>14, <1>15, <1>16 DEF Next, Handle

\* A rotation marks the uploads that it overtakes.
LEMMA UploadsFollowKeyStep ==
    ASSUME IInv, [Next]_vars
    PROVE  UploadsFollowKey'
<1> USE SiteKeysAssumption DEF IInv, TypeOK, Keys, NoKey, UploadsFollowKey
<1>1. ASSUME NEW r \in Requests, NEW b \in Browsers, Rotate(r, b)
      PROVE  UploadsFollowKey'
  BY <1>1 DEF Rotate, Arrive, Goto, database, uploads
<1>2. ASSUME NEW r \in Requests, NEW b \in Browsers, View(r, b)
      PROVE  UploadsFollowKey'
  BY <1>2 DEF View, Arrive, Goto, database, uploads, history
<1>3. ASSUME NEW r \in Requests, CommitRotation(r)
      PROVE  UploadsFollowKey'
  BY <1>3 DEF CommitRotation, Goto, uploads, history
<1>4. ASSUME NEW r \in Requests, Stash(r)
      PROVE  UploadsFollowKey'
  BY <1>4 DEF Stash, Goto, uploads, history
<1>5. ASSUME NEW r \in Requests, Redirect(r)
      PROVE  UploadsFollowKey'
  BY <1>5 DEF Redirect, Finish, Goto, database, uploads, history
<1>6. ASSUME NEW r \in Requests, PopRead(r)
      PROVE  UploadsFollowKey'
  BY <1>6 DEF PopRead, Goto, database, uploads, history
<1>7. ASSUME NEW r \in Requests, PopNothing(r)
      PROVE  UploadsFollowKey'
  BY <1>7 DEF PopNothing, Finish, Goto, database, uploads, history
<1>8. ASSUME NEW r \in Requests, PopCommit(r)
      PROVE  UploadsFollowKey'
  BY <1>8 DEF PopCommit, Goto, uploads, history
<1>9. ASSUME NEW r \in Requests, Show(r)
      PROVE  UploadsFollowKey'
  BY <1>9 DEF Show, Finish, Goto, database, uploads
<1>10. ASSUME NEW r \in Requests, Die(r)
      PROVE  UploadsFollowKey'
  BY <1>10 DEF Die, Finish, Goto, database, uploads, history
<1>11. ASSUME NEW u \in Uploads, Ping(u)
      PROVE  UploadsFollowKey'
  BY <1>11 DEF Ping, database, console, history
<1>16. ASSUME NEW u \in Uploads, Refuse(u)
      PROVE  UploadsFollowKey'
  BY <1>16 DEF Refuse, database, console, history
<1>12. ASSUME NEW u \in Uploads, Label(u)
      PROVE  UploadsFollowKey'
  BY <1>12 DEF Label, database, console, history
<1>13. ASSUME NEW u \in Uploads, Ingest(u)
      PROVE  UploadsFollowKey'
  BY <1>13 DEF Ingest, console, history
<1>14. ASSUME NEW k \in Keys, Expire(k)
      PROVE  UploadsFollowKey'
  BY <1>14 DEF Expire, console, uploads, history
<1>15. CASE UNCHANGED vars
  BY <1>15 DEF vars, database, console, uploads, history
<1> QED
  BY <1>1, <1>2, <1>3, <1>4, <1>5, <1>6, <1>7, <1>8, <1>9, <1>10, <1>11, <1>12, <1>13,
     <1>14, <1>15, <1>16 DEF Next, Handle

\* Keypairs reach only the browser that asked for them.
LEMMA KnownToMinterStep ==
    ASSUME IInv, [Next]_vars
    PROVE  KnownToMinter'
<1> USE SiteKeysAssumption DEF IInv, TypeOK, Keys, NoKey, OnlyIssued, KnownToMinter
<1>1. ASSUME NEW r \in Requests, NEW b \in Browsers, Rotate(r, b)
      PROVE  KnownToMinter'
  BY <1>1 DEF Rotate, Arrive, Goto, database, uploads
<1>2. ASSUME NEW r \in Requests, NEW b \in Browsers, View(r, b)
      PROVE  KnownToMinter'
  BY <1>2 DEF View, Arrive, Goto, database, uploads, history
<1>3. ASSUME NEW r \in Requests, CommitRotation(r)
      PROVE  KnownToMinter'
  BY <1>3 DEF CommitRotation, Goto, uploads, history
<1>4. ASSUME NEW r \in Requests, Stash(r)
      PROVE  KnownToMinter'
  BY <1>4 DEF Stash, Goto, uploads, history
<1>5. ASSUME NEW r \in Requests, Redirect(r)
      PROVE  KnownToMinter'
  BY <1>5 DEF Redirect, Finish, Goto, database, uploads, history
<1>6. ASSUME NEW r \in Requests, PopRead(r)
      PROVE  KnownToMinter'
  BY <1>6 DEF PopRead, Goto, database, uploads, history
<1>7. ASSUME NEW r \in Requests, PopNothing(r)
      PROVE  KnownToMinter'
  BY <1>7 DEF PopNothing, Finish, Goto, database, uploads, history
<1>8. ASSUME NEW r \in Requests, PopCommit(r)
      PROVE  KnownToMinter'
  BY <1>8 DEF PopCommit, Goto, uploads, history
<1>9. ASSUME NEW r \in Requests, Show(r)
      PROVE  KnownToMinter'
  BY <1>9 DEF Show, Finish, Goto, database, uploads
<1>10. ASSUME NEW r \in Requests, Die(r)
      PROVE  KnownToMinter'
  BY <1>10 DEF Die, Finish, Goto, database, uploads, history
<1>11. ASSUME NEW u \in Uploads, Ping(u)
      PROVE  KnownToMinter'
  BY <1>11 DEF Ping, database, console, history
<1>16. ASSUME NEW u \in Uploads, Refuse(u)
      PROVE  KnownToMinter'
  BY <1>16 DEF Refuse, database, console, history
<1>12. ASSUME NEW u \in Uploads, Label(u)
      PROVE  KnownToMinter'
  BY <1>12 DEF Label, database, console, history
<1>13. ASSUME NEW u \in Uploads, Ingest(u)
      PROVE  KnownToMinter'
  BY <1>13 DEF Ingest, console, history
<1>14. ASSUME NEW k \in Keys, Expire(k)
      PROVE  KnownToMinter'
  BY <1>14 DEF Expire, console, uploads, history
<1>15. CASE UNCHANGED vars
  BY <1>15 DEF vars, database, console, uploads, history
<1> QED
  BY <1>1, <1>2, <1>3, <1>4, <1>5, <1>6, <1>7, <1>8, <1>9, <1>10, <1>11, <1>12, <1>13,
     <1>14, <1>15, <1>16 DEF Next, Handle

\* The invariant holds of every reachable state of the key rotation protocol.
THEOREM Invariance == Spec => []IInv
<1>1. Init => IInv
  <2> SUFFICES ASSUME Init
               PROVE  IInv
    OBVIOUS
  <2>1. TypeOK
    <3>1. /\ public \in Keys \cup {NoKey}
          /\ stash \in SUBSET Keys /\ expired \in SUBSET stash
          /\ backups \in SUBSET [to : Keys \cup {NoKey}, label : Keys \cup {NoKey}]
      <4>1. {} \in SUBSET [to : Keys \cup {NoKey}, label : Keys \cup {NoKey}]
        OBVIOUS
      <4> QED
        BY <4>1 DEF Init, NoKey
    <3>2. writer \in Requests \cup {None} /\ issued \in 0 .. MaxKeys
      BY SiteKeysAssumption DEF Init, NoKey, SiteKeysAssumption
    <3>3. /\ cookie \in [Browsers -> Keys \cup {NoKey}]
          /\ pc \in [Requests -> Steps]
          /\ browser \in [Requests -> Browsers \cup {None}]
          /\ key \in [Requests -> Keys \cup {NoKey}]
      BY DEF Init, NoKey, Steps
    <3>4. /\ at \in [Uploads -> {"waiting", "encrypting", "refused", "ingesting", "stored"}]
          /\ to \in [Uploads -> Keys \cup {NoKey}]
          /\ label \in [Uploads -> Keys \cup {NoKey}]
      BY DEF Init, NoKey
    <3>5. /\ shown \in [Keys -> Nat] /\ minter \in [Keys -> Browsers \cup {None}]
          /\ saved \in [Browsers -> SUBSET Keys] /\ overtaken \in SUBSET Uploads
          /\ crossed \in SUBSET Browsers /\ lost \in SUBSET Keys
      BY DEF Init
    <3> QED
      BY <3>1, <3>2, <3>3, <3>4, <3>5 DEF TypeOK
  <2>2. OnlyIssued /\ ShownOnce
    BY DEF Init, OnlyIssued, ShownOnce, NoKey, Keys
  <2>3. FreshIsPrivate /\ PopIsExclusive /\ ShowIsExclusive
    BY DEF Init, FreshIsPrivate, PopIsExclusive, ShowIsExclusive
  <2>4. ShownIsDestroyed
    BY DEF Init, ShownIsDestroyed
  <2>5. UploadsFollowKey /\ KnownToMinter /\ OneByOne /\ CurrentKeyIsHeld
    BY DEF Init, UploadsFollowKey, KnownToMinter, OneByOne, CurrentKeyIsHeld
  <2> QED
    BY <2>1, <2>2, <2>3, <2>4, <2>5 DEF IInv
<1>2. IInv /\ [Next]_vars => IInv'
  BY TypeOKStep, OnlyIssuedStep, FreshIsPrivateStep, PopIsExclusiveStep, ShowIsExclusiveStep,
     UploadsFollowKeyStep, KnownToMinterStep, OneByOneStep, CurrentKeyIsHeldStep,
     ShownIsDestroyedStep, ShownOnceStep DEF IInv
<1> QED
  BY <1>1, <1>2, PTL DEF Spec

\* Every variable keeps to its type.
THEOREM TypeCorrect == Spec => []TypeOK
<1>1. IInv => TypeOK
  BY DEF IInv
<1> QED
  BY <1>1, Invariance, PTL

\* "each secret transits exactly one response": OneTimeSecret.pop() never hands a private
\* key to two responses, whatever page loads overlap and whichever worker dies.
THEOREM SecretsAreShownOnce == Spec => []ShownOnce
<1>1. IInv => ShownOnce
  BY DEF IInv
<1> QED
  BY <1>1, Invariance, PTL

\* A private key that a response has carried is not in the one_time_secret table.
THEOREM ShownSecretsAreDestroyed == Spec => []ShownIsDestroyed
<1>1. IInv => ShownIsDestroyed
  BY DEF IInv
<1> QED
  BY <1>1, Invariance, PTL

\* When operators rotate at the same time, each is shown the key it asked for.
THEOREM SecretsAreShownToTheirMinter == Spec => []ShownToItsMinter
<1>1. IInv => ShownToItsMinter
  BY DEF IInv, KnownToMinter, ShownToItsMinter
<1> QED
  BY <1>1, Invariance, PTL

\* The private half of the current keypair stays within reach of the browser that asked
\* for it, whatever other browsers rotate meanwhile, but for a kill, the TTL or requests
\* of that browser that overlap.
THEOREM CurrentKeysAreHeld == Spec => []CurrentKeyIsHeld
<1>1. IInv => CurrentKeyIsHeld
  BY DEF IInv
<1> QED
  BY <1>1, Invariance, PTL

\* The label of a backup names its key unless a rotation overtook the upload.
THEOREM LabelsNameTheirKey == Spec => []LabelNamesKey
<1>1. IInv => LabelNamesKey
  BY DEF IInv, UploadsFollowKey, LabelNamesKey
<1> QED
  BY <1>1, Invariance, PTL
=============================================================================
