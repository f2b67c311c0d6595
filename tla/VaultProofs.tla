----------------------------- MODULE VaultProofs -----------------------------
(***************************************************************************)
(* Proofs about Vault, for any number of sites, uploads, request threads,  *)
(* interruptions, and any policies and calendar: first what keeps rows and *)
(* blobs together and prunes settled, then that no site is emptied by its  *)
(* own retention, and that no blob is forgotten on the volume.             *)
(***************************************************************************)
EXTENDS Vault, FiniteSetTheorems, TLAPS

-----------------------------------------------------------------------------
(* The retention policy *)

\* The buckets above a backup are finitely many, and fewer when fewer backups
\* are considered.
LEMMA KeysAboveShrink ==
    ASSUME NEW tier, NEW b, NEW B, NEW C, C \subseteq B
    PROVE  /\ IsFiniteSet(KeysAbove(tier, b, B))
           /\ KeysAbove(tier, b, C) \subseteq KeysAbove(tier, b, B)
           /\ Cardinality(KeysAbove(tier, b, C)) <= Cardinality(KeysAbove(tier, b, B))
           /\ Cardinality(KeysAbove(tier, b, C)) \in Nat
           /\ Cardinality(KeysAbove(tier, b, B)) \in Nat
<1>1. KeysAbove(tier, b, B) \subseteq Buckets
  BY DEF KeysAbove
<1>2. IsFiniteSet(KeysAbove(tier, b, B))
  BY <1>1, FS_Subset, RetentionAssumption DEF RetentionAssumption
<1>3. KeysAbove(tier, b, C) \subseteq KeysAbove(tier, b, B)
  BY DEF KeysAbove
<1> QED
  BY <1>2, <1>3, FS_Subset, FS_CardinalityType

\* A backup that nothing newer stands above is never picked for deletion: a
\* prune keeps the newest backup under every policy.
LEMMA LoserHasNewer ==
    ASSUME NEW B, NEW counts \in [Tiers -> Int], NEW b \in Losers(B, counts)
    PROVE  \E x \in B : Newer(x, b)
<1> SUFFICES ASSUME \A x \in B : ~Newer(x, b)
             PROVE  FALSE
  OBVIOUS
<1>1. PICK tier \in Tiers : counts[tier] > 0
  BY DEF Losers, KeepsAll
<1>2. b \in B /\ b \notin Survivors(B, counts)
  BY DEF Losers
<1>3. KeysAbove(tier, b, B) = {}
  BY DEF KeysAbove
<1>4. Cardinality(KeysAbove(tier, b, B)) = 0
  BY <1>3, FS_EmptySet
<1>5. PickedBy(tier, counts[tier], b, B)
  BY <1>1, <1>3, <1>4 DEF PickedBy
<1> QED
  BY <1>1, <1>2, <1>5 DEF Survivors

\* A backup that survives among B survives among fewer backups.
LEMMA SurvivesAmongFewer ==
    ASSUME NEW B, NEW C, C \subseteq B, NEW counts \in [Tiers -> Int],
           NEW b \in C, b \in Survivors(B, counts)
    PROVE  b \in Survivors(C, counts)
<1>1. PICK tier \in Tiers : counts[tier] > 0 /\ PickedBy(tier, counts[tier], b, B)
  BY DEF Survivors
<1>2. BucketKey(tier, b) \notin KeysAbove(tier, b, C)
  BY <1>1, KeysAboveShrink DEF PickedBy
<1>3. Cardinality(KeysAbove(tier, b, C)) < counts[tier]
  BY <1>1, KeysAboveShrink DEF PickedBy
<1> QED
  BY <1>1, <1>2, <1>3 DEF Survivors, PickedBy

\* What a policy leaves alone it still leaves alone when backups disappear, in
\* whatever order and by whatever hand.
LEMMA NoLosersAmongFewer ==
    ASSUME NEW B, NEW C, C \subseteq B, NEW counts \in [Tiers -> Int],
           Losers(B, counts) = {}
    PROVE  Losers(C, counts) = {}
<1>1. CASE KeepsAll(counts)
  BY <1>1 DEF Losers
<1>2. CASE ~KeepsAll(counts)
  <2>1. B \subseteq Survivors(B, counts)
    BY <1>2 DEF Losers
  <2>2. C \subseteq Survivors(C, counts)
    BY <2>1, SurvivesAmongFewer
  <2> QED
    BY <2>2 DEF Losers
<1> QED
  BY <1>1, <1>2

\* Pruning twice is pruning once.
THEOREM PruneIsIdempotent ==
    ASSUME NEW B, NEW counts \in [Tiers -> Int]
    PROVE  Losers(B \ Losers(B, counts), counts) = {}
<1>1. CASE KeepsAll(counts)
  BY <1>1 DEF Losers
<1>2. CASE ~KeepsAll(counts)
  <2> DEFINE C == B \ Losers(B, counts)
  <2>1. C \subseteq B /\ C \subseteq Survivors(B, counts)
    BY <1>2 DEF Losers
  <2>2. C \subseteq Survivors(C, counts)
    BY <2>1, SurvivesAmongFewer
  <2> QED
    BY <2>2 DEF Losers
<1> QED
  BY <1>1, <1>2

-----------------------------------------------------------------------------
(* Type correctness *)

\* Every request leaves the two stores, its own slot and the history well typed.
LEMMA TypeOKStep ==
    ASSUME TypeOK, Slots, [Next]_vars
    PROVE  TypeOK'
<1> USE DEF TypeOK
<1>1. ASSUME NEW r \in Requests, NEW site \in Sites, NEW scope \in Scopes, NEW name \in Names,
             StartUpload(r, site, scope, name)
      PROVE  TypeOK'
  <2>1. [kind |-> "upload", name |-> name, site |-> site,
         scope |-> scope, at |-> Unstamped] \in Upload
    BY VaultAssumption DEF Upload, Unstamped, VaultAssumption
  <2> QED
    BY <1>1, <2>1 DEF StartUpload, history
<1>2. ASSUME NEW r \in Requests, FinishPart(r)
      PROVE  TypeOK'
  <2>1. job[r].name \in Names
    BY <1>2 DEF FinishPart, Slots, Storing, Upload
  <2> QED
    BY <1>2, <2>1 DEF FinishPart, Goto, history
<1>3. ASSUME NEW r \in Requests, WriteFails(r)
      PROVE  TypeOK'
  BY <1>3 DEF WriteFails, Finish, history
<1>4. ASSUME NEW r \in Requests, Place(r)
      PROVE  TypeOK'
  <2>1. job[r] \in Upload
    BY <1>4 DEF Place, Slots, Storing
  <2>2. Blob(job[r]) \in Sites \X Names
    BY <2>1 DEF Upload, Blob
  <2>3. [job[r] EXCEPT !.at = clock] \in Upload
    BY <2>1 DEF Upload
  <2> QED
    BY <1>4, <2>2, <2>3 DEF Place, history
<1>5. ASSUME NEW r \in Requests, CommitRow(r)
      PROVE  TypeOK'
  <2>1. PICK i \in FreshIds :
           rows' = rows \cup {[id |-> i, name |-> job[r].name, site |-> job[r].site,
                               scope |-> job[r].scope, at |-> job[r].at]}
           /\ ever' = ever \cup {[id |-> i, name |-> job[r].name, site |-> job[r].site,
                               scope |-> job[r].scope, at |-> job[r].at]}
    BY <1>5 DEF CommitRow
  <2>2. i \in Nat \ {0}
    BY <2>1 DEF FreshIds, Row
  <2>3. job[r] \in Upload
    BY <1>5 DEF CommitRow, Slots, Storing
  <2>4. [id |-> i, name |-> job[r].name, site |-> job[r].site,
         scope |-> job[r].scope, at |-> job[r].at] \in Row
    BY <2>2, <2>3 DEF Row, Upload
  <2> QED
    BY <1>5, <2>1, <2>4 DEF CommitRow, Goto
<1>6. ASSUME NEW r \in Requests, SiteGone(r)
      PROVE  TypeOK'
  BY <1>6 DEF SiteGone, Finish, store, history
<1>7. ASSUME NEW r \in Requests, Prune(r)
      PROVE  TypeOK'
  <2> DEFINE losers == Losers(RowsOf(job[r].site, job[r].scope), policy[job[r].site])
  <2>1. losers \subseteq Row
    BY DEF Losers, RowsOf
  <2>2. CASE losers = {}
    BY <1>7, <2>1, <2>2 DEF Prune, Finish, store
  <2>3. CASE losers # {}
    BY <1>7, <2>1, <2>3 DEF Prune, Finish, store
  <2> QED
    BY <2>2, <2>3
<1>8. ASSUME NEW r \in Requests, NEW x \in rows, StartDelete(r, x)
      PROVE  TypeOK'
  BY <1>8 DEF StartDelete, Delete, Row, store
<1>9. ASSUME NEW r \in Requests, NEW site \in Sites, StartSiteDelete(r, site)
      PROVE  TypeOK'
  BY <1>9 DEF StartSiteDelete, SiteDelete, store
<1>10. ASSUME NEW r \in Requests, NEW x \in pending[r], UnlinkBlob(r, x)
      PROVE  TypeOK'
  BY <1>10 DEF UnlinkBlob, history
<1>11. ASSUME NEW r \in Requests, CommitDeletes(r)
      PROVE  TypeOK'
  <2>1. Unlisted(r) \subseteq Names
    BY DEF Unlisted, Row
  <2> QED
    BY <1>11, <2>1 DEF CommitDeletes, Finish
<1>12. ASSUME NEW r \in Requests, CommitSiteDelete(r)
      PROVE  TypeOK'
  <2>1. Unlisted(r) \subseteq Names
    BY DEF Unlisted, Row
  <2>2. \A q \in Requests : Storing(q) => job[q].name \in Names
    BY DEF Slots, Upload
  <2>3. missed' \in SUBSET Names
    BY <1>12, <2>1, <2>2 DEF CommitSiteDelete
  <2> QED
    BY <1>12, <2>3 DEF CommitSiteDelete, Finish
<1>13. ASSUME NEW r \in Requests, Abort(r)
      PROVE  TypeOK'
  <2>1. aborts' \in Nat /\ aborts' + created' <= MaxUpsets
    BY <1>13, VaultAssumption DEF Abort, VaultAssumption
  <2>2. overdue' \in SUBSET (Sites \X Scopes)
    <3>1. job[r].kind = "upload" /\ pc[r] \in {"committed", "unlinking"} => job[r] \in Upload
      BY <1>13 DEF Abort, Slots, Upload, Delete, SiteDelete, Storing
    <3> QED
      BY <1>13, <3>1 DEF Abort, Upload
  <2>3. interrupted' \in SUBSET Row
    BY <1>13 DEF Abort
  <2> QED
    BY <1>13, <2>1, <2>2, <2>3 DEF Abort, Finish, store
<1>14. ASSUME NEW site \in Sites, NEW p \in Policies, ChangePolicy(site, p)
      PROVE  TypeOK'
  BY <1>14 DEF ChangePolicy, request
<1>15. ASSUME NEW site \in Sites, NEW p \in Policies, CreateSite(site, p)
      PROVE  TypeOK'
  <2>1. former' \in SUBSET Names
    BY <1>15 DEF CreateSite, Row
  <2>2. created' \in Nat /\ aborts' + created' <= MaxUpsets
    BY <1>15, VaultAssumption DEF CreateSite, VaultAssumption
  <2> QED
    BY <1>15, <2>1, <2>2 DEF CreateSite, request
<1>16. CASE Tick
  BY <1>16 DEF Tick, store, request, history
<1>17. CASE UNCHANGED vars
  BY <1>17 DEF vars, store, request, history
<1> QED
  BY <1>1, <1>2, <1>3, <1>4, <1>5, <1>6, <1>7, <1>8, <1>9,
     <1>10, <1>11, <1>12, <1>13, <1>14, <1>15, <1>16, <1>17 DEF Next, Step

\* A request slot stays coherent: a job while busy, condemned rows only while unlinking.
LEMMA SlotsStep ==
    ASSUME TypeOK, Slots, [Next]_vars
    PROVE  Slots'
<1> USE DEF TypeOK, Slots, Storing
<1>1. ASSUME NEW r \in Requests, NEW site \in Sites, NEW scope \in Scopes, NEW name \in Names,
             StartUpload(r, site, scope, name)
      PROVE  Slots'
  <2>1. [kind |-> "upload", name |-> name, site |-> site,
         scope |-> scope, at |-> Unstamped] \in Upload
    BY VaultAssumption DEF Upload, Unstamped, VaultAssumption
  <2> QED
    BY <1>1, <2>1, VaultAssumption DEF StartUpload, VaultAssumption, history
<1>2. ASSUME NEW r \in Requests, FinishPart(r)
      PROVE  Slots'
  BY <1>2 DEF FinishPart, Goto, history
<1>3. ASSUME NEW r \in Requests, WriteFails(r)
      PROVE  Slots'
  BY <1>3 DEF WriteFails, Finish, history
<1>4. ASSUME NEW r \in Requests, Place(r)
      PROVE  Slots'
  <2>1. [job[r] EXCEPT !.at = clock] \in Upload
    BY <1>4 DEF Place, Upload
  <2> QED
    BY <1>4, <2>1, VaultAssumption DEF Place, VaultAssumption, history
<1>5. ASSUME NEW r \in Requests, CommitRow(r)
      PROVE  Slots'
  BY <1>5 DEF CommitRow, Goto
<1>6. ASSUME NEW r \in Requests, SiteGone(r)
      PROVE  Slots'
  BY <1>6 DEF SiteGone, Finish, store, history
<1>7. ASSUME NEW r \in Requests, Prune(r)
      PROVE  Slots'
  BY <1>7 DEF Prune, Finish, store
<1>8. ASSUME NEW r \in Requests, NEW x \in rows, StartDelete(r, x)
      PROVE  Slots'
  BY <1>8, VaultAssumption DEF StartDelete, Delete, VaultAssumption, store
<1>9. ASSUME NEW r \in Requests, NEW site \in Sites, StartSiteDelete(r, site)
      PROVE  Slots'
  BY <1>9, VaultAssumption DEF StartSiteDelete, SiteDelete, VaultAssumption, store
<1>10. ASSUME NEW r \in Requests, NEW x \in pending[r], UnlinkBlob(r, x)
      PROVE  Slots'
  BY <1>10 DEF UnlinkBlob, history
<1>11. ASSUME NEW r \in Requests, CommitDeletes(r)
      PROVE  Slots'
  BY <1>11 DEF CommitDeletes, Finish, history
<1>12. ASSUME NEW r \in Requests, CommitSiteDelete(r)
      PROVE  Slots'
  BY <1>12 DEF CommitSiteDelete, Finish, history
<1>13. ASSUME NEW r \in Requests, Abort(r)
      PROVE  Slots'
  BY <1>13 DEF Abort, Finish, store
<1>14. ASSUME NEW site \in Sites, NEW p \in Policies, ChangePolicy(site, p)
      PROVE  Slots'
  BY <1>14 DEF ChangePolicy, request
<1>15. ASSUME NEW site \in Sites, NEW p \in Policies, CreateSite(site, p)
      PROVE  Slots'
  BY <1>15 DEF CreateSite, request
<1>16. CASE Tick
  BY <1>16 DEF Tick, store, request, history
<1>17. CASE UNCHANGED vars
  BY <1>17 DEF vars, store, request, history
<1> QED
  BY <1>1, <1>2, <1>3, <1>4, <1>5, <1>6, <1>7, <1>8, <1>9,
     <1>10, <1>11, <1>12, <1>13, <1>14, <1>15, <1>16, <1>17 DEF Next, Step

\* A stored_name stays with one upload, from its .part to its row (uuid4 in ingest).
LEMMA OneUploadPerNameStep ==
    ASSUME TypeOK, Slots, OneUploadPerName, [Next]_vars
    PROVE  OneUploadPerName'
<1> USE DEF TypeOK, OneUploadPerName, Storing
<1>1. ASSUME NEW r \in Requests, NEW site \in Sites, NEW scope \in Scopes, NEW name \in Names,
             StartUpload(r, site, scope, name)
      PROVE  OneUploadPerName'
  <2>1. /\ pc[r] = "idle" /\ name \notin used /\ used' = used \cup {name}
        /\ pc' = [pc EXCEPT ![r] = "writing"]
        /\ UNCHANGED <<rows, ever, doomed>>
        /\ \A q \in Requests \ {r} : job'[q] = job[q]
        /\ job'[r].name = name
    BY <1>1 DEF StartUpload, history
  <2>2. ASSUME NEW s \in Requests, Storing(s)'
        PROVE  /\ job'[s].name \in used'
               /\ \A x \in ever' : x.name # job'[s].name
               /\ \A q \in Requests : Storing(q)' /\ job'[q].name = job'[s].name => q = s
    BY <2>1, <2>2
  <2> QED
    BY <2>1, <2>2
<1>2. ASSUME NEW r \in Requests, FinishPart(r)
      PROVE  OneUploadPerName'
  BY <1>2 DEF FinishPart, Goto, history
<1>3. ASSUME NEW r \in Requests, WriteFails(r)
      PROVE  OneUploadPerName'
  BY <1>3 DEF WriteFails, Finish, history
<1>4. ASSUME NEW r \in Requests, Place(r)
      PROVE  OneUploadPerName'
  <2>1. \A q \in Requests : job'[q].name = job[q].name /\ (Storing(q)' <=> Storing(q))
    BY <1>4 DEF Place, Upload, Slots, history
  <2>2. UNCHANGED <<rows, ever, doomed, used>>
    BY <1>4 DEF Place, history
  <2> QED
    BY <2>1, <2>2
<1>5. ASSUME NEW r \in Requests, CommitRow(r)
      PROVE  OneUploadPerName'
  <2>1. PICK i \in FreshIds :
           rows' = rows \cup {[id |-> i, name |-> job[r].name, site |-> job[r].site,
                               scope |-> job[r].scope, at |-> job[r].at]}
           /\ ever' = ever \cup {[id |-> i, name |-> job[r].name, site |-> job[r].site,
                               scope |-> job[r].scope, at |-> job[r].at]}
    BY <1>5 DEF CommitRow
  <2> DEFINE z == [id |-> i, name |-> job[r].name, site |-> job[r].site,
                    scope |-> job[r].scope, at |-> job[r].at]
  <2>2. pc[r] = "placed" /\ pc' = [pc EXCEPT ![r] = "committed"]
        /\ UNCHANGED <<job, doomed, used>>
    BY <1>5 DEF CommitRow, Goto
  <2>3. z.name = job[r].name /\ ever' = ever \cup {z} /\ rows' = rows \cup {z}
    BY <2>1
  <2> HIDE DEF z
  <2>4. rows' \subseteq ever' /\ (\A q \in Requests : doomed'[q] \subseteq ever')
        /\ (\A x \in ever' : x.name \in used')
    BY <2>2, <2>3
  <2>5. \A x, y \in ever' : x.name = y.name => x = y
    BY <2>2, <2>3
  <2>6. ASSUME NEW s \in Requests, Storing(s)'
        PROVE  /\ job'[s].name \in used'
               /\ \A x \in ever' : x.name # job'[s].name
               /\ \A q \in Requests : Storing(q)' /\ job'[q].name = job'[s].name => q = s
    <3>1. s # r /\ Storing(s)
      BY <2>2, <2>6
    <3> QED
      BY <2>2, <2>3, <3>1
  <2> QED
    BY <2>4, <2>5, <2>6
<1>6. ASSUME NEW r \in Requests, SiteGone(r)
      PROVE  OneUploadPerName'
  BY <1>6 DEF SiteGone, Finish, store, history
<1>7. ASSUME NEW r \in Requests, Prune(r)
      PROVE  OneUploadPerName'
  <2>1. Losers(RowsOf(job[r].site, job[r].scope), policy[job[r].site]) \subseteq ever
    BY DEF Losers, RowsOf
  <2> QED
    BY <1>7, <2>1 DEF Prune, Finish, store
<1>8. ASSUME NEW r \in Requests, NEW x \in rows, StartDelete(r, x)
      PROVE  OneUploadPerName'
  BY <1>8 DEF StartDelete, store
<1>9. ASSUME NEW r \in Requests, NEW site \in Sites, StartSiteDelete(r, site)
      PROVE  OneUploadPerName'
  BY <1>9 DEF StartSiteDelete, store
<1>10. ASSUME NEW r \in Requests, NEW x \in pending[r], UnlinkBlob(r, x)
      PROVE  OneUploadPerName'
  BY <1>10 DEF UnlinkBlob, history
<1>11. ASSUME NEW r \in Requests, CommitDeletes(r)
      PROVE  OneUploadPerName'
  BY <1>11 DEF CommitDeletes, Finish, history
<1>12. ASSUME NEW r \in Requests, CommitSiteDelete(r)
      PROVE  OneUploadPerName'
  BY <1>12 DEF CommitSiteDelete, Finish, history
<1>13. ASSUME NEW r \in Requests, Abort(r)
      PROVE  OneUploadPerName'
  BY <1>13 DEF Abort, Finish, store
<1>14. ASSUME NEW site \in Sites, NEW p \in Policies, ChangePolicy(site, p)
      PROVE  OneUploadPerName'
  BY <1>14 DEF ChangePolicy, request
<1>15. ASSUME NEW site \in Sites, NEW p \in Policies, CreateSite(site, p)
      PROVE  OneUploadPerName'
  BY <1>15 DEF CreateSite, request
<1>16. CASE Tick
  BY <1>16 DEF Tick, store, request, history
<1>17. CASE UNCHANGED vars
  BY <1>17 DEF vars, store, request, history
<1> QED
  BY <1>1, <1>2, <1>3, <1>4, <1>5, <1>6, <1>7, <1>8, <1>9,
     <1>10, <1>11, <1>12, <1>13, <1>14, <1>15, <1>16, <1>17 DEF Next, Step

\* The blob is complete and in place before ingest commits the row.
LEMMA BlobBeforeRowStep ==
    ASSUME TypeOK, Slots, OneUploadPerName, BlobBeforeRow, [Next]_vars
    PROVE  BlobBeforeRow'
<1> USE DEF TypeOK, BlobBeforeRow, Blob
<1>1. ASSUME NEW r \in Requests, NEW site \in Sites, NEW scope \in Scopes, NEW name \in Names,
             StartUpload(r, site, scope, name)
      PROVE  BlobBeforeRow'
  <2>1. ASSUME NEW q \in Requests, pc'[q] \in {"written", "placed"}
        PROVE  job'[q] = job[q] /\ pc'[q] = pc[q]
    BY <1>1, <2>1 DEF StartUpload, history
  <2> QED
    BY <1>1, <2>1 DEF StartUpload, history
<1>2. ASSUME NEW r \in Requests, FinishPart(r)
      PROVE  BlobBeforeRow'
  BY <1>2 DEF FinishPart, Goto, history
<1>3. ASSUME NEW r \in Requests, WriteFails(r)
      PROVE  BlobBeforeRow'
  BY <1>3 DEF WriteFails, Finish, history
<1>4. ASSUME NEW r \in Requests, Place(r)
      PROVE  BlobBeforeRow'
  <2>1. /\ pc[r] = "written" /\ pc' = [pc EXCEPT ![r] = "placed"]
        /\ bins' = bins \cup {Blob(job[r])} /\ whole' = whole
        /\ \A q \in Requests \ {r} : job'[q] = job[q]
    BY <1>4 DEF Place, history
  <2>2. job[r] \in Upload
    BY <1>4 DEF Place, Slots, Storing
  <2>3. job'[r].name = job[r].name /\ job'[r].site = job[r].site
    BY <1>4, <2>2 DEF Place, Upload
  <2> QED
    BY <2>1, <2>3
<1>5. ASSUME NEW r \in Requests, CommitRow(r)
      PROVE  BlobBeforeRow'
  BY <1>5 DEF CommitRow, Goto
<1>6. ASSUME NEW r \in Requests, SiteGone(r)
      PROVE  BlobBeforeRow'
  BY <1>6 DEF SiteGone, Finish, store, history
<1>7. ASSUME NEW r \in Requests, Prune(r)
      PROVE  BlobBeforeRow'
  BY <1>7 DEF Prune, Finish, store
<1>8. ASSUME NEW r \in Requests, NEW x \in rows, StartDelete(r, x)
      PROVE  BlobBeforeRow'
  BY <1>8 DEF StartDelete, store
<1>9. ASSUME NEW r \in Requests, NEW site \in Sites, StartSiteDelete(r, site)
      PROVE  BlobBeforeRow'
  BY <1>9 DEF StartSiteDelete, store
<1>10. ASSUME NEW r \in Requests, NEW x \in pending[r], UnlinkBlob(r, x)
      PROVE  BlobBeforeRow'
  <2>1. ASSUME NEW q \in Requests, pc[q] = "placed"
        PROVE  Blob(job[q]) # Blob(x)
    BY <2>1 DEF Slots, OneUploadPerName, Storing
  <2> QED
    BY <1>10, <2>1 DEF UnlinkBlob, history
<1>11. ASSUME NEW r \in Requests, CommitDeletes(r)
      PROVE  BlobBeforeRow'
  BY <1>11 DEF CommitDeletes, Finish, history
<1>12. ASSUME NEW r \in Requests, CommitSiteDelete(r)
      PROVE  BlobBeforeRow'
  BY <1>12 DEF CommitSiteDelete, Finish, history
<1>13. ASSUME NEW r \in Requests, Abort(r)
      PROVE  BlobBeforeRow'
  BY <1>13 DEF Abort, Finish, store
<1>14. ASSUME NEW site \in Sites, NEW p \in Policies, ChangePolicy(site, p)
      PROVE  BlobBeforeRow'
  BY <1>14 DEF ChangePolicy, request
<1>15. ASSUME NEW site \in Sites, NEW p \in Policies, CreateSite(site, p)
      PROVE  BlobBeforeRow'
  BY <1>15 DEF CreateSite, request
<1>16. CASE Tick
  BY <1>16 DEF Tick, store, request, history
<1>17. CASE UNCHANGED vars
  BY <1>17 DEF vars, store, request, history
<1> QED
  BY <1>1, <1>2, <1>3, <1>4, <1>5, <1>6, <1>7, <1>8, <1>9,
     <1>10, <1>11, <1>12, <1>13, <1>14, <1>15, <1>16, <1>17 DEF Next, Step

\* No step takes the blob from under a row that nobody has condemned.
LEMMA RowHasBlobStep ==
    ASSUME TypeOK, Slots, OneUploadPerName, BlobBeforeRow, RowHasBlob, [Next]_vars
    PROVE  RowHasBlob'
<1> USE DEF TypeOK, RowHasBlob
<1>1. ASSUME NEW r \in Requests, NEW site \in Sites, NEW scope \in Scopes, NEW name \in Names,
             StartUpload(r, site, scope, name)
      PROVE  RowHasBlob'
  BY <1>1 DEF StartUpload, history
<1>2. ASSUME NEW r \in Requests, FinishPart(r)
      PROVE  RowHasBlob'
  BY <1>2 DEF FinishPart, Goto, history
<1>3. ASSUME NEW r \in Requests, WriteFails(r)
      PROVE  RowHasBlob'
  <2>1. doomed[r] = {}
    BY <1>3 DEF WriteFails, Slots
  <2> QED
    BY <1>3, <2>1 DEF WriteFails, Finish, history
<1>4. ASSUME NEW r \in Requests, Place(r)
      PROVE  RowHasBlob'
  BY <1>4 DEF Place, history
<1>5. ASSUME NEW r \in Requests, CommitRow(r)
      PROVE  RowHasBlob'
  <2>1. PICK i \in FreshIds :
           rows' = rows \cup {[id |-> i, name |-> job[r].name, site |-> job[r].site,
                               scope |-> job[r].scope, at |-> job[r].at]}
           /\ ever' = ever \cup {[id |-> i, name |-> job[r].name, site |-> job[r].site,
                               scope |-> job[r].scope, at |-> job[r].at]}
    BY <1>5 DEF CommitRow
  <2>2. Blob(job[r]) \in bins
    BY <1>5 DEF CommitRow, BlobBeforeRow
  <2>3. UNCHANGED <<bins, doomed, interrupted>>
    BY <1>5 DEF CommitRow, Goto
  <2>4. ASSUME NEW x \in rows'
        PROVE  Blob(x) \in bins \/ x \in interrupted \/ \E q \in Requests : x \in doomed[q]
    BY <2>1, <2>2 DEF Blob
  <2> QED
    BY <2>3, <2>4
<1>6. ASSUME NEW r \in Requests, SiteGone(r)
      PROVE  RowHasBlob'
  <2>1. doomed[r] = {}
    BY <1>6 DEF SiteGone, Slots
  <2> QED
    BY <1>6, <2>1 DEF SiteGone, Finish, store, history
<1>7. ASSUME NEW r \in Requests, Prune(r)
      PROVE  RowHasBlob'
  <2>1. doomed[r] = {}
    BY <1>7 DEF Prune, Slots
  <2> QED
    BY <1>7, <2>1 DEF Prune, Finish, store
<1>8. ASSUME NEW r \in Requests, NEW x \in rows, StartDelete(r, x)
      PROVE  RowHasBlob'
  <2>1. doomed[r] = {}
    BY <1>8 DEF StartDelete, Slots
  <2> QED
    BY <1>8, <2>1 DEF StartDelete, store
<1>9. ASSUME NEW r \in Requests, NEW site \in Sites, StartSiteDelete(r, site)
      PROVE  RowHasBlob'
  <2>1. doomed[r] = {}
    BY <1>9 DEF StartSiteDelete, Slots
  <2> QED
    BY <1>9, <2>1 DEF StartSiteDelete, store
<1>10. ASSUME NEW r \in Requests, NEW x \in pending[r], UnlinkBlob(r, x)
      PROVE  RowHasBlob'
  <2>1. x \in doomed[r] /\ x \in ever
    BY DEF Slots, OneUploadPerName
  <2>2. ASSUME NEW y \in rows, Blob(y) = Blob(x)
        PROVE  y = x
    BY <2>1, <2>2 DEF OneUploadPerName, Blob
  <2> QED
    BY <1>10, <2>1, <2>2 DEF UnlinkBlob, history
<1>11. ASSUME NEW r \in Requests, CommitDeletes(r)
      PROVE  RowHasBlob'
  <2>1. \A x \in rows' : x \in rows /\ x \notin doomed[r]
    BY <1>11 DEF CommitDeletes, Ids
  <2>2. \A q \in Requests \ {r} : doomed'[q] = doomed[q]
    BY <1>11 DEF CommitDeletes, Finish, history
  <2>3. UNCHANGED <<bins, interrupted>>
    BY <1>11 DEF CommitDeletes, Finish, history
  <2> QED
    BY <2>1, <2>2, <2>3
<1>12. ASSUME NEW r \in Requests, CommitSiteDelete(r)
      PROVE  RowHasBlob'
  <2>1. \A x \in rows' : x \in rows /\ x \notin doomed[r]
    BY <1>12 DEF CommitSiteDelete, Ids
  <2>2. \A q \in Requests \ {r} : doomed'[q] = doomed[q]
    BY <1>12 DEF CommitSiteDelete, Finish, history
  <2>3. UNCHANGED <<bins, interrupted>>
    BY <1>12 DEF CommitSiteDelete, Finish, history
  <2> QED
    BY <2>1, <2>2, <2>3
<1>13. ASSUME NEW r \in Requests, Abort(r)
      PROVE  RowHasBlob'
  BY <1>13 DEF Abort, Finish, store
<1>14. ASSUME NEW site \in Sites, NEW p \in Policies, ChangePolicy(site, p)
      PROVE  RowHasBlob'
  BY <1>14 DEF ChangePolicy, request
<1>15. ASSUME NEW site \in Sites, NEW p \in Policies, CreateSite(site, p)
      PROVE  RowHasBlob'
  BY <1>15 DEF CreateSite, request
<1>16. CASE Tick
  BY <1>16 DEF Tick, store, request, history
<1>17. CASE UNCHANGED vars
  BY <1>17 DEF vars, store, request, history
<1> QED
  BY <1>1, <1>2, <1>3, <1>4, <1>5, <1>6, <1>7, <1>8, <1>9,
     <1>10, <1>11, <1>12, <1>13, <1>14, <1>15, <1>16, <1>17 DEF Next, Step

\* Only os.replace of a complete .part makes a .bin.
LEMMA BinIsWholeStep ==
    ASSUME TypeOK, BlobBeforeRow, BinIsWhole, [Next]_vars
    PROVE  BinIsWhole'
<1> USE DEF TypeOK, BinIsWhole
<1>1. ASSUME NEW r \in Requests, NEW site \in Sites, NEW scope \in Scopes, NEW name \in Names,
             StartUpload(r, site, scope, name)
      PROVE  BinIsWhole'
  BY <1>1 DEF StartUpload, history
<1>2. ASSUME NEW r \in Requests, FinishPart(r)
      PROVE  BinIsWhole'
  BY <1>2 DEF FinishPart, Goto, history
<1>3. ASSUME NEW r \in Requests, WriteFails(r)
      PROVE  BinIsWhole'
  BY <1>3 DEF WriteFails, Finish, history
<1>4. ASSUME NEW r \in Requests, Place(r)
      PROVE  BinIsWhole'
  BY <1>4 DEF Place, BlobBeforeRow, Blob, history
<1>5. ASSUME NEW r \in Requests, CommitRow(r)
      PROVE  BinIsWhole'
  BY <1>5 DEF CommitRow, Goto
<1>6. ASSUME NEW r \in Requests, SiteGone(r)
      PROVE  BinIsWhole'
  BY <1>6 DEF SiteGone, Finish, store, history
<1>7. ASSUME NEW r \in Requests, Prune(r)
      PROVE  BinIsWhole'
  BY <1>7 DEF Prune, Finish, store
<1>8. ASSUME NEW r \in Requests, NEW x \in rows, StartDelete(r, x)
      PROVE  BinIsWhole'
  BY <1>8 DEF StartDelete, store
<1>9. ASSUME NEW r \in Requests, NEW site \in Sites, StartSiteDelete(r, site)
      PROVE  BinIsWhole'
  BY <1>9 DEF StartSiteDelete, store
<1>10. ASSUME NEW r \in Requests, NEW x \in pending[r], UnlinkBlob(r, x)
      PROVE  BinIsWhole'
  BY <1>10 DEF UnlinkBlob, history
<1>11. ASSUME NEW r \in Requests, CommitDeletes(r)
      PROVE  BinIsWhole'
  BY <1>11 DEF CommitDeletes, Finish, history
<1>12. ASSUME NEW r \in Requests, CommitSiteDelete(r)
      PROVE  BinIsWhole'
  BY <1>12 DEF CommitSiteDelete, Finish, history
<1>13. ASSUME NEW r \in Requests, Abort(r)
      PROVE  BinIsWhole'
  BY <1>13 DEF Abort, Finish, store
<1>14. ASSUME NEW site \in Sites, NEW p \in Policies, ChangePolicy(site, p)
      PROVE  BinIsWhole'
  BY <1>14 DEF ChangePolicy, request
<1>15. ASSUME NEW site \in Sites, NEW p \in Policies, CreateSite(site, p)
      PROVE  BinIsWhole'
  BY <1>15 DEF CreateSite, request
<1>16. CASE Tick
  BY <1>16 DEF Tick, store, request, history
<1>17. CASE UNCHANGED vars
  BY <1>17 DEF vars, store, request, history
<1> QED
  BY <1>1, <1>2, <1>3, <1>4, <1>5, <1>6, <1>7, <1>8, <1>9,
     <1>10, <1>11, <1>12, <1>13, <1>14, <1>15, <1>16, <1>17 DEF Next, Step

\* A prune picks a backup only under a newer one of its site and scope.
LEMMA NewestKeptStep ==
    ASSUME TypeOK, OneUploadPerName, NewestKept, [Next]_vars
    PROVE  NewestKept'
<1> USE DEF TypeOK, NewestKept
<1>1. ASSUME NEW r \in Requests, NEW site \in Sites, NEW scope \in Scopes, NEW name \in Names,
             StartUpload(r, site, scope, name)
      PROVE  NewestKept'
  BY <1>1 DEF StartUpload, history
<1>2. ASSUME NEW r \in Requests, FinishPart(r)
      PROVE  NewestKept'
  BY <1>2 DEF FinishPart, Goto, history
<1>3. ASSUME NEW r \in Requests, WriteFails(r)
      PROVE  NewestKept'
  BY <1>3 DEF WriteFails, Finish, history
<1>4. ASSUME NEW r \in Requests, Place(r)
      PROVE  NewestKept'
  BY <1>4 DEF Place, history
<1>5. ASSUME NEW r \in Requests, CommitRow(r)
      PROVE  NewestKept'
  <2>1. ever \subseteq ever' /\ pruned' = pruned
    BY <1>5 DEF CommitRow
  <2> QED
    BY <2>1
<1>6. ASSUME NEW r \in Requests, SiteGone(r)
      PROVE  NewestKept'
  BY <1>6 DEF SiteGone, Finish, store, history
<1>7. ASSUME NEW r \in Requests, Prune(r)
      PROVE  NewestKept'
  <2> DEFINE B == RowsOf(job[r].site, job[r].scope)
  <2> DEFINE p == policy[job[r].site]
  <2>1. p \in [Tiers -> Int]
    BY <1>7, VaultAssumption DEF Prune, VaultAssumption
  <2>2. ASSUME NEW x \in Losers(B, p)
        PROVE  \E y \in ever : y.site = x.site /\ y.scope = x.scope /\ Newer(y, x)
    <3>1. x \in B
      BY DEF Losers
    <3>2. PICK y \in B : Newer(y, x)
      BY <2>1, LoserHasNewer
    <3>3. y \in ever
      BY <3>2 DEF RowsOf, OneUploadPerName
    <3> QED
      BY <3>1, <3>2, <3>3 DEF RowsOf
  <2>3. pruned' = pruned \cup Losers(B, p) /\ ever' = ever
    BY <1>7 DEF Prune
  <2> QED
    BY <2>2, <2>3
<1>8. ASSUME NEW r \in Requests, NEW x \in rows, StartDelete(r, x)
      PROVE  NewestKept'
  BY <1>8 DEF StartDelete, store
<1>9. ASSUME NEW r \in Requests, NEW site \in Sites, StartSiteDelete(r, site)
      PROVE  NewestKept'
  BY <1>9 DEF StartSiteDelete, store
<1>10. ASSUME NEW r \in Requests, NEW x \in pending[r], UnlinkBlob(r, x)
      PROVE  NewestKept'
  BY <1>10 DEF UnlinkBlob, history
<1>11. ASSUME NEW r \in Requests, CommitDeletes(r)
      PROVE  NewestKept'
  BY <1>11 DEF CommitDeletes, Finish, history
<1>12. ASSUME NEW r \in Requests, CommitSiteDelete(r)
      PROVE  NewestKept'
  BY <1>12 DEF CommitSiteDelete, Finish, history
<1>13. ASSUME NEW r \in Requests, Abort(r)
      PROVE  NewestKept'
  BY <1>13 DEF Abort, Finish, store
<1>14. ASSUME NEW site \in Sites, NEW p \in Policies, ChangePolicy(site, p)
      PROVE  NewestKept'
  BY <1>14 DEF ChangePolicy, request
<1>15. ASSUME NEW site \in Sites, NEW p \in Policies, CreateSite(site, p)
      PROVE  NewestKept'
  BY <1>15 DEF CreateSite, request
<1>16. CASE Tick
  BY <1>16 DEF Tick, store, request, history
<1>17. CASE UNCHANGED vars
  BY <1>17 DEF vars, store, request, history
<1> QED
  BY <1>1, <1>2, <1>3, <1>4, <1>5, <1>6, <1>7, <1>8, <1>9,
     <1>10, <1>11, <1>12, <1>13, <1>14, <1>15, <1>16, <1>17 DEF Next, Step

\* Fresh ids are above all others, and the cascade takes every row of a site.
LEMMA ReferentialStep ==
    ASSUME TypeOK, Referential, [Next]_vars
    PROVE  Referential'
<1> USE DEF TypeOK, Referential
<1>1. ASSUME NEW r \in Requests, NEW site \in Sites, NEW scope \in Scopes, NEW name \in Names,
             StartUpload(r, site, scope, name)
      PROVE  Referential'
  BY <1>1 DEF StartUpload, history
<1>2. ASSUME NEW r \in Requests, FinishPart(r)
      PROVE  Referential'
  BY <1>2 DEF FinishPart, Goto, history
<1>3. ASSUME NEW r \in Requests, WriteFails(r)
      PROVE  Referential'
  BY <1>3 DEF WriteFails, Finish, history
<1>4. ASSUME NEW r \in Requests, Place(r)
      PROVE  Referential'
  BY <1>4 DEF Place, history
<1>5. ASSUME NEW r \in Requests, CommitRow(r)
      PROVE  Referential'
  <2>1. PICK i \in FreshIds :
           rows' = rows \cup {[id |-> i, name |-> job[r].name, site |-> job[r].site,
                               scope |-> job[r].scope, at |-> job[r].at]}
           /\ ever' = ever \cup {[id |-> i, name |-> job[r].name, site |-> job[r].site,
                               scope |-> job[r].scope, at |-> job[r].at]}
    BY <1>5 DEF CommitRow
  <2>2. /\ job[r].site \in sites
        /\ sites' = sites
        /\ \A x \in rows : x.id \in Nat /\ x.id < i
    BY <1>5 DEF CommitRow, FreshIds, Row
  <2>3. i \in Nat
    BY DEF FreshIds, Row
  <2> QED
    BY <2>1, <2>2, <2>3
<1>6. ASSUME NEW r \in Requests, SiteGone(r)
      PROVE  Referential'
  BY <1>6 DEF SiteGone, Finish, store, history
<1>7. ASSUME NEW r \in Requests, Prune(r)
      PROVE  Referential'
  BY <1>7 DEF Prune, Finish, store
<1>8. ASSUME NEW r \in Requests, NEW x \in rows, StartDelete(r, x)
      PROVE  Referential'
  BY <1>8 DEF StartDelete, store
<1>9. ASSUME NEW r \in Requests, NEW site \in Sites, StartSiteDelete(r, site)
      PROVE  Referential'
  BY <1>9 DEF StartSiteDelete, store
<1>10. ASSUME NEW r \in Requests, NEW x \in pending[r], UnlinkBlob(r, x)
      PROVE  Referential'
  BY <1>10 DEF UnlinkBlob, history
<1>11. ASSUME NEW r \in Requests, CommitDeletes(r)
      PROVE  Referential'
  BY <1>11 DEF CommitDeletes, Finish, history
<1>12. ASSUME NEW r \in Requests, CommitSiteDelete(r)
      PROVE  Referential'
  BY <1>12 DEF CommitSiteDelete, Finish, history
<1>13. ASSUME NEW r \in Requests, Abort(r)
      PROVE  Referential'
  BY <1>13 DEF Abort, Finish, store
<1>14. ASSUME NEW site \in Sites, NEW p \in Policies, ChangePolicy(site, p)
      PROVE  Referential'
  BY <1>14 DEF ChangePolicy, request
<1>15. ASSUME NEW site \in Sites, NEW p \in Policies, CreateSite(site, p)
      PROVE  Referential'
  BY <1>15 DEF CreateSite, request
<1>16. CASE Tick
  BY <1>16 DEF Tick, store, request, history
<1>17. CASE UNCHANGED vars
  BY <1>17 DEF vars, store, request, history
<1> QED
  BY <1>1, <1>2, <1>3, <1>4, <1>5, <1>6, <1>7, <1>8, <1>9,
     <1>10, <1>11, <1>12, <1>13, <1>14, <1>15, <1>16, <1>17 DEF Next, Step

\* The losers of a prune are of the site and scope of its upload.
LEMMA PruneStaysInScopeStep ==
    ASSUME TypeOK, Slots, PruneStaysInScope, [Next]_vars
    PROVE  PruneStaysInScope'
<1> USE DEF TypeOK, PruneStaysInScope, Uploading
<1>1. ASSUME NEW r \in Requests, NEW site \in Sites, NEW scope \in Scopes, NEW name \in Names,
             StartUpload(r, site, scope, name)
      PROVE  PruneStaysInScope'
  <2>1. doomed[r] = {} /\ doomed' = doomed
    BY <1>1 DEF StartUpload, Slots
  <2>2. \A q \in Requests \ {r} : job'[q] = job[q]
    BY <1>1 DEF StartUpload
  <2> QED
    BY <2>1, <2>2
<1>2. ASSUME NEW r \in Requests, FinishPart(r)
      PROVE  PruneStaysInScope'
  BY <1>2 DEF FinishPart, Goto, history
<1>3. ASSUME NEW r \in Requests, WriteFails(r)
      PROVE  PruneStaysInScope'
  BY <1>3 DEF WriteFails, Finish, history
<1>4. ASSUME NEW r \in Requests, Place(r)
      PROVE  PruneStaysInScope'
  <2>1. doomed[r] = {} /\ doomed' = doomed
    BY <1>4 DEF Place, Slots
  <2>2. \A q \in Requests \ {r} : job'[q] = job[q]
    BY <1>4 DEF Place
  <2> QED
    BY <2>1, <2>2
<1>5. ASSUME NEW r \in Requests, CommitRow(r)
      PROVE  PruneStaysInScope'
  BY <1>5 DEF CommitRow, Goto
<1>6. ASSUME NEW r \in Requests, SiteGone(r)
      PROVE  PruneStaysInScope'
  BY <1>6 DEF SiteGone, Finish, store, history
<1>7. ASSUME NEW r \in Requests, Prune(r)
      PROVE  PruneStaysInScope'
  <2> DEFINE losers == Losers(RowsOf(job[r].site, job[r].scope), policy[job[r].site])
  <2>1. \A x \in losers : x.site = job[r].site /\ x.scope = job[r].scope
    BY DEF Losers, RowsOf
  <2>2. \A q \in Requests \ {r} : job'[q] = job[q] /\ doomed'[q] = doomed[q]
    BY <1>7 DEF Prune, Finish, store
  <2>3. doomed'[r] \subseteq losers /\ (doomed'[r] # {} => job'[r] = job[r])
    BY <1>7 DEF Prune, Finish, store
  <2> QED
    BY <2>1, <2>2, <2>3
<1>8. ASSUME NEW r \in Requests, NEW x \in rows, StartDelete(r, x)
      PROVE  PruneStaysInScope'
  <2>1. \A q \in Requests \ {r} : job'[q] = job[q] /\ doomed'[q] = doomed[q]
    BY <1>8 DEF StartDelete
  <2>2. job'[r].kind # "upload"
    BY <1>8 DEF StartDelete
  <2> QED
    BY <2>1, <2>2
<1>9. ASSUME NEW r \in Requests, NEW site \in Sites, StartSiteDelete(r, site)
      PROVE  PruneStaysInScope'
  <2>1. \A q \in Requests \ {r} : job'[q] = job[q] /\ doomed'[q] = doomed[q]
    BY <1>9 DEF StartSiteDelete
  <2>2. job'[r].kind # "upload"
    BY <1>9 DEF StartSiteDelete
  <2> QED
    BY <2>1, <2>2
<1>10. ASSUME NEW r \in Requests, NEW x \in pending[r], UnlinkBlob(r, x)
      PROVE  PruneStaysInScope'
  BY <1>10 DEF UnlinkBlob, history
<1>11. ASSUME NEW r \in Requests, CommitDeletes(r)
      PROVE  PruneStaysInScope'
  BY <1>11 DEF CommitDeletes, Finish, history
<1>12. ASSUME NEW r \in Requests, CommitSiteDelete(r)
      PROVE  PruneStaysInScope'
  BY <1>12 DEF CommitSiteDelete, Finish, history
<1>13. ASSUME NEW r \in Requests, Abort(r)
      PROVE  PruneStaysInScope'
  BY <1>13 DEF Abort, Finish, store
<1>14. ASSUME NEW site \in Sites, NEW p \in Policies, ChangePolicy(site, p)
      PROVE  PruneStaysInScope'
  BY <1>14 DEF ChangePolicy, request
<1>15. ASSUME NEW site \in Sites, NEW p \in Policies, CreateSite(site, p)
      PROVE  PruneStaysInScope'
  BY <1>15 DEF CreateSite, request
<1>16. CASE Tick
  BY <1>16 DEF Tick, store, request, history
<1>17. CASE UNCHANGED vars
  BY <1>17 DEF vars, store, request, history
<1> QED
  BY <1>1, <1>2, <1>3, <1>4, <1>5, <1>6, <1>7, <1>8, <1>9,
     <1>10, <1>11, <1>12, <1>13, <1>14, <1>15, <1>16, <1>17 DEF Next, Step

\* A step that keeps every claim to a prune, and adds no row that no prune has
\* picked, keeps a site and scope settled.
LEMMA StaysCovered ==
    ASSUME TypeOK, NEW s \in Sites, NEW c \in Scopes, Covered(s, c),
           policy[s]' = policy[s],
           <<s, c>> \in overdue => <<s, c>> \in overdue',
           \A r \in Requests :
               pc[r] = "committed" /\ job[r].site = s /\ job[r].scope = c
                   => pc[r]' = "committed" /\ job[r]' = job[r],
           Remaining(s, c)' \subseteq Remaining(s, c)
    PROVE  Covered(s, c)'
<1>1. CASE <<s, c>> \in overdue
  BY <1>1 DEF Covered
<1>2. CASE \E r \in Requests : pc[r] = "committed" /\ job[r].site = s /\ job[r].scope = c
  BY <1>2 DEF Covered
<1>3. CASE Losers(Remaining(s, c), policy[s]) = {}
  <2>1. policy[s] \in [Tiers -> Int]
    BY VaultAssumption DEF TypeOK, VaultAssumption
  <2>2. Losers(Remaining(s, c)', policy[s]) = {}
    BY <1>3, <2>1, NoLosersAmongFewer
  <2> QED
    BY <2>2 DEF Covered
<1> QED
  BY <1>1, <1>2, <1>3 DEF Covered

\* Overlapping prunes, deletions and interruptions keep every site and scope settled but for
\* the prunes in progress.
LEMMA SettledStep ==
    ASSUME TypeOK, Slots, Referential, PruneStaysInScope, SettledButForPrunes, [Next]_vars
    PROVE  SettledButForPrunes'
<1> USE DEF TypeOK
<1>a. /\ SettledButForPrunes <=> \A s \in Sites, c \in Scopes : Covered(s, c)
      /\ SettledButForPrunes' <=> \A s \in Sites, c \in Scopes : Covered(s, c)'
  BY DEF SettledButForPrunes
<1>b. \A s \in Sites, c \in Scopes : Covered(s, c)
  BY <1>a
<1> USE <1>b
<1>1. ASSUME NEW r \in Requests, NEW site \in Sites, NEW scope \in Scopes, NEW name \in Names,
             StartUpload(r, site, scope, name)
      PROVE  \A s \in Sites, c \in Scopes : Covered(s, c)'
  <2> SUFFICES ASSUME NEW s \in Sites, NEW c \in Scopes
               PROVE  Covered(s, c)'
    OBVIOUS
  <2>1. doomed[r] = {}
    BY <1>1 DEF StartUpload, Slots
  <2>8. Remaining(s, c)' \subseteq Remaining(s, c)
    BY <1>1, <2>1 DEF StartUpload, Remaining, RowsOf, Uploading, history
  <2>9. /\ policy[s]' = policy[s]
        /\ <<s, c>> \in overdue => <<s, c>> \in overdue'
        /\ \A q \in Requests :
               pc[q] = "committed" /\ job[q].site = s /\ job[q].scope = c
                   => pc[q]' = "committed" /\ job[q]' = job[q]
    BY <1>1, <2>1 DEF StartUpload, history
  <2> QED
    BY <2>8, <2>9, StaysCovered
<1>2. ASSUME NEW r \in Requests, FinishPart(r)
      PROVE  \A s \in Sites, c \in Scopes : Covered(s, c)'
  <2> SUFFICES ASSUME NEW s \in Sites, NEW c \in Scopes
               PROVE  Covered(s, c)'
    OBVIOUS
  <2>8. Remaining(s, c)' \subseteq Remaining(s, c)
    BY <1>2 DEF FinishPart, Remaining, RowsOf, Uploading, Goto, history
  <2>9. /\ policy[s]' = policy[s]
        /\ <<s, c>> \in overdue => <<s, c>> \in overdue'
        /\ \A q \in Requests :
               pc[q] = "committed" /\ job[q].site = s /\ job[q].scope = c
                   => pc[q]' = "committed" /\ job[q]' = job[q]
    BY <1>2 DEF FinishPart, Goto, history
  <2> QED
    BY <2>8, <2>9, StaysCovered
<1>3. ASSUME NEW r \in Requests, WriteFails(r)
      PROVE  \A s \in Sites, c \in Scopes : Covered(s, c)'
  <2> SUFFICES ASSUME NEW s \in Sites, NEW c \in Scopes
               PROVE  Covered(s, c)'
    OBVIOUS
  <2>1. doomed[r] = {}
    BY <1>3 DEF WriteFails, Slots
  <2>8. Remaining(s, c)' \subseteq Remaining(s, c)
    BY <1>3, <2>1 DEF WriteFails, Remaining, RowsOf, Uploading, Finish, history
  <2>9. /\ policy[s]' = policy[s]
        /\ <<s, c>> \in overdue => <<s, c>> \in overdue'
        /\ \A q \in Requests :
               pc[q] = "committed" /\ job[q].site = s /\ job[q].scope = c
                   => pc[q]' = "committed" /\ job[q]' = job[q]
    BY <1>3, <2>1 DEF WriteFails, Finish, history
  <2> QED
    BY <2>8, <2>9, StaysCovered
<1>4. ASSUME NEW r \in Requests, Place(r)
      PROVE  \A s \in Sites, c \in Scopes : Covered(s, c)'
  <2> SUFFICES ASSUME NEW s \in Sites, NEW c \in Scopes
               PROVE  Covered(s, c)'
    OBVIOUS
  <2>1. doomed[r] = {}
    BY <1>4 DEF Place, Slots
  <2>8. Remaining(s, c)' \subseteq Remaining(s, c)
    BY <1>4, <2>1 DEF Place, Remaining, RowsOf, Uploading, history
  <2>9. /\ policy[s]' = policy[s]
        /\ <<s, c>> \in overdue => <<s, c>> \in overdue'
        /\ \A q \in Requests :
               pc[q] = "committed" /\ job[q].site = s /\ job[q].scope = c
                   => pc[q]' = "committed" /\ job[q]' = job[q]
    BY <1>4, <2>1 DEF Place, history
  <2> QED
    BY <2>8, <2>9, StaysCovered
<1>5. ASSUME NEW r \in Requests, CommitRow(r)
      PROVE  \A s \in Sites, c \in Scopes : Covered(s, c)'
  <2>1. PICK i \in FreshIds :
           rows' = rows \cup {[id |-> i, name |-> job[r].name, site |-> job[r].site,
                               scope |-> job[r].scope, at |-> job[r].at]}
           /\ ever' = ever \cup {[id |-> i, name |-> job[r].name, site |-> job[r].site,
                               scope |-> job[r].scope, at |-> job[r].at]}
    BY <1>5 DEF CommitRow
  <2> SUFFICES ASSUME NEW s \in Sites, NEW c \in Scopes
               PROVE  Covered(s, c)'
    OBVIOUS
  <2>2. /\ pc' = [pc EXCEPT ![r] = "committed"] /\ pc[r] = "placed"
        /\ UNCHANGED <<job, doomed, policy, overdue>>
    BY <1>5 DEF CommitRow, Goto
  <2>3. CASE job[r].site = s /\ job[r].scope = c
    BY <2>2, <2>3 DEF Covered
  <2>4. CASE ~(job[r].site = s /\ job[r].scope = c)
    <3>1. Remaining(s, c)' \subseteq Remaining(s, c)
      BY <2>1, <2>2, <2>4 DEF Remaining, RowsOf, Uploading
    <3> QED
      BY <2>2, <3>1, StaysCovered
  <2> QED
    BY <2>3, <2>4
<1>6. ASSUME NEW r \in Requests, SiteGone(r)
      PROVE  \A s \in Sites, c \in Scopes : Covered(s, c)'
  <2> SUFFICES ASSUME NEW s \in Sites, NEW c \in Scopes
               PROVE  Covered(s, c)'
    OBVIOUS
  <2>1. doomed[r] = {} /\ job[r].site \notin sites
    BY <1>6 DEF SiteGone, Slots
  <2>2. UNCHANGED <<rows, policy, overdue>> /\ doomed' = doomed
        /\ \A q \in Requests \ {r} : job'[q] = job[q] /\ pc'[q] = pc[q]
    BY <1>6, <2>1 DEF SiteGone, Finish, store, history
  <2>3. Remaining(s, c)' \subseteq Remaining(s, c)
    BY <2>1, <2>2 DEF Remaining, RowsOf, Uploading
  <2>4. CASE job[r].site = s
    <3>1. RowsOf(s, c)' = {}
      BY <2>1, <2>2, <2>4 DEF RowsOf, Referential
    <3>2. Remaining(s, c)' = {}
      BY <3>1 DEF Remaining
    <3>3. Losers(Remaining(s, c)', policy[s]') = {}
      BY <3>2 DEF Losers, Survivors
    <3> QED
      BY <3>3 DEF Covered
  <2>5. CASE job[r].site # s
    BY <2>2, <2>3, <2>5, StaysCovered
  <2> QED
    BY <2>4, <2>5
<1>7. ASSUME NEW r \in Requests, Prune(r)
      PROVE  \A s \in Sites, c \in Scopes : Covered(s, c)'
  <2> SUFFICES ASSUME NEW s \in Sites, NEW c \in Scopes
               PROVE  Covered(s, c)'
    OBVIOUS
  <2> DEFINE B == RowsOf(job[r].site, job[r].scope)
  <2> DEFINE losers == Losers(B, policy[job[r].site])
  <2>1. /\ doomed[r] = {} /\ job[r] \in Upload
        /\ UNCHANGED <<rows, policy>>
        /\ overdue' = overdue \ {<<job[r].site, job[r].scope>>}
        /\ \A q \in Requests \ {r} : /\ job'[q] = job[q]
                                   /\ pc'[q] = pc[q]
                                   /\ doomed'[q] = doomed[q]
    BY <1>7 DEF Prune, Slots, Storing, Finish, store
  <2>2. losers # {} => Uploading(r)' /\ doomed'[r] = losers
    BY <1>7, <2>1, VaultAssumption DEF Prune, Uploading, Upload, VaultAssumption
  <2>3. doomed'[r] \subseteq losers
    BY <1>7, <2>1 DEF Prune, Finish, store
  <2>4. Remaining(s, c)' \subseteq Remaining(s, c)
    BY <2>1, <2>3 DEF Remaining, RowsOf, Uploading
  <2>5. CASE s = job[r].site /\ c = job[r].scope
    <3>1. \A x \in Remaining(s, c)' : x \in B /\ x \notin losers
      BY <2>1, <2>2, <2>5 DEF Remaining, RowsOf
    <3>2. Remaining(s, c)' \subseteq B \ losers
      BY <3>1
    <3>3. policy[s] \in [Tiers -> Int]
      BY VaultAssumption DEF TypeOK, VaultAssumption
    <3>4. Losers(B \ losers, policy[s]) = {}
      BY <2>5, <3>3, PruneIsIdempotent
    <3>5. Losers(Remaining(s, c)', policy[s]) = {}
      BY <3>2, <3>3, <3>4, NoLosersAmongFewer
    <3> QED
      BY <2>1, <3>5 DEF Covered
  <2>6. CASE ~(s = job[r].site /\ c = job[r].scope)
    <3>1. <<s, c>> \in overdue => <<s, c>> \in overdue'
      BY <2>1, <2>6
    <3> QED
      BY <2>1, <2>4, <2>6, <3>1, StaysCovered
  <2> QED
    BY <2>5, <2>6
<1>8. ASSUME NEW r \in Requests, NEW x \in rows, StartDelete(r, x)
      PROVE  \A s \in Sites, c \in Scopes : Covered(s, c)'
  <2> SUFFICES ASSUME NEW s \in Sites, NEW c \in Scopes
               PROVE  Covered(s, c)'
    OBVIOUS
  <2>1. doomed[r] = {}
    BY <1>8 DEF StartDelete, Slots
  <2>8. Remaining(s, c)' \subseteq Remaining(s, c)
    BY <1>8, <2>1 DEF StartDelete, Remaining, RowsOf, Uploading, store
  <2>9. /\ policy[s]' = policy[s]
        /\ <<s, c>> \in overdue => <<s, c>> \in overdue'
        /\ \A q \in Requests :
               pc[q] = "committed" /\ job[q].site = s /\ job[q].scope = c
                   => pc[q]' = "committed" /\ job[q]' = job[q]
    BY <1>8, <2>1 DEF StartDelete, store
  <2> QED
    BY <2>8, <2>9, StaysCovered
<1>9. ASSUME NEW r \in Requests, NEW site \in Sites, StartSiteDelete(r, site)
      PROVE  \A s \in Sites, c \in Scopes : Covered(s, c)'
  <2> SUFFICES ASSUME NEW s \in Sites, NEW c \in Scopes
               PROVE  Covered(s, c)'
    OBVIOUS
  <2>1. doomed[r] = {}
    BY <1>9 DEF StartSiteDelete, Slots
  <2>8. Remaining(s, c)' \subseteq Remaining(s, c)
    BY <1>9, <2>1 DEF StartSiteDelete, Remaining, RowsOf, Uploading, store
  <2>9. /\ policy[s]' = policy[s]
        /\ <<s, c>> \in overdue => <<s, c>> \in overdue'
        /\ \A q \in Requests :
               pc[q] = "committed" /\ job[q].site = s /\ job[q].scope = c
                   => pc[q]' = "committed" /\ job[q]' = job[q]
    BY <1>9, <2>1 DEF StartSiteDelete, store
  <2> QED
    BY <2>8, <2>9, StaysCovered
<1>10. ASSUME NEW r \in Requests, NEW x \in pending[r], UnlinkBlob(r, x)
      PROVE  \A s \in Sites, c \in Scopes : Covered(s, c)'
  <2> SUFFICES ASSUME NEW s \in Sites, NEW c \in Scopes
               PROVE  Covered(s, c)'
    OBVIOUS
  <2>8. Remaining(s, c)' \subseteq Remaining(s, c)
    BY <1>10 DEF UnlinkBlob, Remaining, RowsOf, Uploading, history
  <2>9. /\ policy[s]' = policy[s]
        /\ <<s, c>> \in overdue => <<s, c>> \in overdue'
        /\ \A q \in Requests :
               pc[q] = "committed" /\ job[q].site = s /\ job[q].scope = c
                   => pc[q]' = "committed" /\ job[q]' = job[q]
    BY <1>10 DEF UnlinkBlob, history
  <2> QED
    BY <2>8, <2>9, StaysCovered
<1>11. ASSUME NEW r \in Requests, CommitDeletes(r)
      PROVE  \A s \in Sites, c \in Scopes : Covered(s, c)'
  <2> SUFFICES ASSUME NEW s \in Sites, NEW c \in Scopes
               PROVE  Covered(s, c)'
    OBVIOUS
  <2>1. \A x \in rows' : x \in rows /\ x \notin doomed[r]
    BY <1>11 DEF CommitDeletes, Ids
  <2>2. \A q \in Requests \ {r} : doomed'[q] = doomed[q] /\ job'[q] = job[q] /\ pc'[q] = pc[q]
    BY <1>11 DEF CommitDeletes, Finish, history
  <2>3. Remaining(s, c)' \subseteq Remaining(s, c)
    BY <2>1, <2>2 DEF Remaining, RowsOf, Uploading
  <2>4. UNCHANGED <<policy, overdue>> /\ pc[r] # "committed"
    BY <1>11 DEF CommitDeletes, Finish, history
  <2> QED
    BY <2>2, <2>3, <2>4, StaysCovered
<1>12. ASSUME NEW r \in Requests, CommitSiteDelete(r)
      PROVE  \A s \in Sites, c \in Scopes : Covered(s, c)'
  <2> SUFFICES ASSUME NEW s \in Sites, NEW c \in Scopes
               PROVE  Covered(s, c)'
    OBVIOUS
  <2>1. \A x \in rows' : x \in rows /\ x \notin doomed[r]
    BY <1>12 DEF CommitSiteDelete, Ids
  <2>2. \A q \in Requests \ {r} : doomed'[q] = doomed[q] /\ job'[q] = job[q] /\ pc'[q] = pc[q]
    BY <1>12 DEF CommitSiteDelete, Finish, history
  <2>3. Remaining(s, c)' \subseteq Remaining(s, c)
    BY <2>1, <2>2 DEF Remaining, RowsOf, Uploading
  <2>4. UNCHANGED <<policy, overdue>> /\ pc[r] # "committed"
    BY <1>12 DEF CommitSiteDelete, Finish, history
  <2> QED
    BY <2>2, <2>3, <2>4, StaysCovered
<1>13. ASSUME NEW r \in Requests, Abort(r)
      PROVE  \A s \in Sites, c \in Scopes : Covered(s, c)'
  <2> SUFFICES ASSUME NEW s \in Sites, NEW c \in Scopes
               PROVE  Covered(s, c)'
    OBVIOUS
  <2>1. /\ UNCHANGED <<rows, policy>>
        /\ overdue \subseteq overdue'
        /\ doomed'[r] = {}
        /\ \A q \in Requests \ {r} : /\ job'[q] = job[q]
                                   /\ pc'[q] = pc[q]
                                   /\ doomed'[q] = doomed[q]
    BY <1>13 DEF Abort, Finish, store
  <2>2. CASE <<s, c>> \in overdue'
    BY <2>2 DEF Covered
  <2>3. CASE <<s, c>> \notin overdue'
    <3>1. ~(/\ job[r].kind = "upload"
            /\ pc[r] \in {"committed", "unlinking"}
            /\ job[r].site = s
            /\ job[r].scope = c)
      BY <1>13, <2>3 DEF Abort
    <3>2. ASSUME NEW x \in RowsOf(s, c), Uploading(r), x \in doomed[r]
          PROVE  FALSE
      <4>1. x.site = job[r].site /\ x.scope = job[r].scope
        BY <3>2 DEF PruneStaysInScope
      <4>2. pc[r] = "unlinking"
        BY <3>2 DEF Slots
      <4> QED
        BY <3>1, <3>2, <4>1, <4>2 DEF Uploading, RowsOf
    <3>3. Remaining(s, c)' \subseteq Remaining(s, c)
      BY <2>1, <3>2 DEF Remaining, RowsOf, Uploading
    <3>4. ~(pc[r] = "committed" /\ job[r].site = s /\ job[r].scope = c)
      BY <3>1 DEF Slots, Storing, Upload
    <3>5. /\ policy[s]' = policy[s]
          /\ <<s, c>> \in overdue => <<s, c>> \in overdue'
          /\ \A q \in Requests :
                 pc[q] = "committed" /\ job[q].site = s /\ job[q].scope = c
                     => pc[q]' = "committed" /\ job[q]' = job[q]
      BY <2>1, <3>4
    <3> QED
      BY <3>3, <3>5, StaysCovered
  <2> QED
    BY <2>2, <2>3
<1>14. ASSUME NEW site \in Sites, NEW p \in Policies, ChangePolicy(site, p)
      PROVE  \A s \in Sites, c \in Scopes : Covered(s, c)'
  <2> SUFFICES ASSUME NEW s \in Sites, NEW c \in Scopes
               PROVE  Covered(s, c)'
    OBVIOUS
  <2>1. CASE s = site
    BY <1>14, <2>1 DEF ChangePolicy, Covered
  <2>2. CASE s # site
    <3>1. Remaining(s, c)' \subseteq Remaining(s, c)
      BY <1>14 DEF ChangePolicy, Remaining, RowsOf, Uploading, request
    <3>2. policy[s]' = policy[s] /\ overdue \subseteq overdue' /\ UNCHANGED <<pc, job>>
      BY <1>14, <2>2 DEF ChangePolicy, request
    <3> QED
      BY <3>1, <3>2, StaysCovered
  <2> QED
    BY <2>1, <2>2
<1>15. ASSUME NEW site \in Sites, NEW p \in Policies, CreateSite(site, p)
      PROVE  \A s \in Sites, c \in Scopes : Covered(s, c)'
  <2> SUFFICES ASSUME NEW s \in Sites, NEW c \in Scopes
               PROVE  Covered(s, c)'
    OBVIOUS
  <2>1. CASE s = site
    <3>1. s \notin sites
      BY <1>15, <2>1, VaultAssumption DEF CreateSite, VaultAssumption
    <3>2. RowsOf(s, c)' = {}
      BY <1>15, <3>1 DEF CreateSite, RowsOf, Referential
    <3>3. Remaining(s, c)' = {}
      BY <3>2 DEF Remaining
    <3>4. Losers(Remaining(s, c)', policy[s]') = {}
      BY <3>3 DEF Losers, Survivors
    <3> QED
      BY <3>4 DEF Covered
  <2>2. CASE s # site
    <3>1. Remaining(s, c)' \subseteq Remaining(s, c)
      BY <1>15 DEF CreateSite, Remaining, RowsOf, Uploading, request
    <3>2. /\ policy[s]' = policy[s]
          /\ <<s, c>> \in overdue => <<s, c>> \in overdue'
          /\ UNCHANGED <<pc, job>>
      BY <1>15, <2>2 DEF CreateSite, request
    <3> QED
      BY <3>1, <3>2, StaysCovered
  <2> QED
    BY <2>1, <2>2
<1>16. ASSUME Tick PROVE \A s \in Sites, c \in Scopes : Covered(s, c)'
  <2> SUFFICES ASSUME NEW s \in Sites, NEW c \in Scopes
               PROVE  Covered(s, c)'
    OBVIOUS
  <2>8. Remaining(s, c)' \subseteq Remaining(s, c)
    BY <1>16 DEF Tick, Remaining, RowsOf, Uploading, store, request, history
  <2>9. /\ policy[s]' = policy[s]
        /\ <<s, c>> \in overdue => <<s, c>> \in overdue'
        /\ \A q \in Requests :
               pc[q] = "committed" /\ job[q].site = s /\ job[q].scope = c
                   => pc[q]' = "committed" /\ job[q]' = job[q]
    BY <1>16 DEF Tick, store, request, history
  <2> QED
    BY <2>8, <2>9, StaysCovered
<1>17. ASSUME UNCHANGED vars PROVE \A s \in Sites, c \in Scopes : Covered(s, c)'
  <2> SUFFICES ASSUME NEW s \in Sites, NEW c \in Scopes
               PROVE  Covered(s, c)'
    OBVIOUS
  <2>8. Remaining(s, c)' \subseteq Remaining(s, c)
    BY <1>17 DEF Goto, Finish, Remaining, RowsOf, Uploading, vars, store, request, history
  <2>9. /\ policy[s]' = policy[s]
        /\ <<s, c>> \in overdue => <<s, c>> \in overdue'
        /\ \A q \in Requests :
               pc[q] = "committed" /\ job[q].site = s /\ job[q].scope = c
                   => pc[q]' = "committed" /\ job[q]' = job[q]
    BY <1>17 DEF Goto, Finish, vars, store, request, history
  <2> QED
    BY <2>8, <2>9, StaysCovered
<1> QED
  BY <1>a, <1>1, <1>2, <1>3, <1>4, <1>5, <1>6, <1>7, <1>8, <1>9,
     <1>10, <1>11, <1>12, <1>13, <1>14, <1>15, <1>16, <1>17 DEF Next, Step

-----------------------------------------------------------------------------
\* The invariant holds initially.
LEMMA InitIInv ==
    ASSUME Init
    PROVE  IInv
<1>1. policy \in [Sites -> Policies] /\ policy \in [Sites -> [Tiers -> Int]]
  BY VaultAssumption DEF Init, VaultAssumption
<1>2. TypeOK
  BY <1>1, VaultAssumption DEF Init, TypeOK, VaultAssumption
<1>3. Slots /\ OneUploadPerName /\ BlobBeforeRow
  BY DEF Init, Slots, OneUploadPerName, BlobBeforeRow, Storing
<1>4. RowHasBlob /\ BinIsWhole /\ NewestKept /\ Referential
  BY DEF Init, RowHasBlob, BinIsWhole, NewestKept, Referential
<1>5. PruneStaysInScope
  BY DEF Init, PruneStaysInScope
<1>6. SettledButForPrunes
  <2>1. \A site \in Sites, scope \in Scopes : Remaining(site, scope) = {}
    BY DEF Init, Remaining, RowsOf
  <2>2. \A site \in Sites : Losers({}, policy[site]) = {}
    BY DEF Losers, Survivors
  <2> QED
    BY <2>1, <2>2 DEF SettledButForPrunes, Covered
<1> QED
  BY <1>2, <1>3, <1>4, <1>5, <1>6 DEF IInv

\* Every step keeps it.
LEMMA StepIInv ==
    ASSUME IInv, [Next]_vars
    PROVE  IInv'
<1>1. TypeOK' /\ Slots' /\ OneUploadPerName'
  BY TypeOKStep, SlotsStep, OneUploadPerNameStep DEF IInv
<1>2. BlobBeforeRow' /\ RowHasBlob' /\ BinIsWhole'
  BY BlobBeforeRowStep, RowHasBlobStep, BinIsWholeStep DEF IInv
<1>3. NewestKept' /\ Referential' /\ PruneStaysInScope'
  BY NewestKeptStep, ReferentialStep, PruneStaysInScopeStep DEF IInv
<1>4. SettledButForPrunes'
  BY SettledStep DEF IInv
<1> QED
  BY <1>1, <1>2, <1>3, <1>4 DEF IInv

\* The inductive invariant holds in every reachable state.
THEOREM Invariance == Spec => []IInv
<1>1. Init => IInv
  BY InitIInv
<1>2. IInv /\ [Next]_vars => IInv'
  BY StepIInv
<1> QED
  BY <1>1, <1>2, PTL DEF Spec

\* Type correctness of the two stores, the requests and the history.
THEOREM TypeCorrect == Spec => []TypeOK
<1>1. IInv => TypeOK
  BY DEF IInv
<1> QED
  BY <1>1, Invariance, PTL

\* A listed backup can be downloaded, whatever runs beside it and wherever
\* requests are cut short (storage.py ingest, delete_blob).
THEOREM RowsHaveBlobs == Spec => []RowHasBlob
<1>1. IInv => RowHasBlob
  BY DEF IInv
<1> QED
  BY <1>1, Invariance, PTL

\* A .bin file is always a complete archive (storage.py:88-114).
THEOREM BinsAreWhole == Spec => []BinIsWhole
<1>1. IInv => BinIsWhole
  BY DEF IInv
<1> QED
  BY <1>1, Invariance, PTL

\* Retention never picks the newest backup of a site and scope (retention.py).
THEOREM RetentionKeepsNewest == Spec => []NewestKept
<1>1. IInv => NewestKept
  BY DEF IInv
<1> QED
  BY <1>1, Invariance, PTL

\* When no request is in progress, every site and scope that is not overdue holds
\* exactly what its policy keeps (retention.py prune_site_scope after each ingest).
THEOREM PrunesSettle == Spec => []Settled
<1>1. ASSUME IInv, Quiet, NEW site \in Sites, NEW scope \in Scopes,
             <<site, scope>> \notin overdue
      PROVE  Losers(RowsOf(site, scope), policy[site]) = {}
  <2>1. \A r \in Requests : pc[r] # "committed" /\ doomed[r] = {}
    BY <1>1 DEF IInv, Slots, Quiet
  <2>2. Remaining(site, scope) = RowsOf(site, scope)
    BY <2>1 DEF Remaining
  <2> QED
    BY <1>1, <2>1, <2>2 DEF IInv, SettledButForPrunes, Covered
<1>2. IInv => Settled
  BY <1>1 DEF Settled
<1> QED
  BY <1>2, Invariance, PTL

\* Rows never outlive their site and never share an id (models.py, the foreign key
\* pragma and the primary key).
THEOREM RowsAreReferential == Spec => []Referential
<1>1. IInv => Referential
  BY DEF IInv
<1> QED
  BY <1>1, Invariance, PTL

-----------------------------------------------------------------------------
(* No site is emptied *)

\* The sort key of survivors() is a strict total preorder.
LEMMA NewerOrders ==
    ASSUME NEW a \in Row, NEW b \in Row, NEW c \in Row
    PROVE  /\ ~Newer(a, a)
           /\ Newer(a, b) => ~Newer(b, a)
           /\ Newer(a, b) /\ ~Newer(c, b) => ~Newer(c, a)
<1>1. /\ a.at \in Int /\ b.at \in Int /\ c.at \in Int
      /\ a.id \in Int /\ b.id \in Int /\ c.id \in Int
  <2>1. a.at \in Times /\ b.at \in Times /\ c.at \in Times
    BY DEF Row
  <2>2. a.id \in Nat /\ b.id \in Nat /\ c.id \in Nat
    BY DEF Row
  <2>3. \A t \in Times : t \in Int
    BY RetentionAssumption DEF RetentionAssumption
  <2> QED
    BY <2>1, <2>2, <2>3
<1>2. ~Newer(a, a) /\ (Newer(a, b) => ~Newer(b, a))
  BY <1>1 DEF Newer
<1>3. ASSUME Newer(a, b), Newer(c, a)
      PROVE  Newer(c, b)
  BY <1>1, <1>3 DEF Newer
<1> QED
  BY <1>2, <1>3

\* A step that stores, deletes and condemns nothing.
Frame ==
    /\ UNCHANGED <<rows, ever, asked, missed, former>>
    /\ \A q \in Requests :
           doomed'[q] # {} => doomed'[q] = doomed[q] /\ (Uploading(q)' <=> Uploading(q))

\* Most steps are such.
LEMMA WhatAStepDoes ==
    ASSUME TypeOK, Slots, [Next]_vars
    PROVE  \/ Frame
           \/ \E r \in Requests : CommitRow(r)
           \/ \E r \in Requests : Prune(r)
           \/ \E r \in Requests : \E x \in rows : StartDelete(r, x)
           \/ \E r \in Requests : \E site \in Sites : StartSiteDelete(r, site)
           \/ \E r \in Requests : CommitDeletes(r) \/ CommitSiteDelete(r)
           \/ \E site \in Sites, p \in Policies : CreateSite(site, p)
<1> USE DEF TypeOK, Frame, Uploading
<1>1. ASSUME NEW r \in Requests, NEW site \in Sites, NEW scope \in Scopes, NEW name \in Names,
             StartUpload(r, site, scope, name)
      PROVE  Frame
  <2>1. doomed[r] = {}
    BY <1>1 DEF StartUpload, Slots
  <2> QED
    BY <1>1, <2>1 DEF StartUpload, history
<1>2. ASSUME NEW r \in Requests, FinishPart(r)
      PROVE  Frame
  BY <1>2 DEF FinishPart, Goto, history
<1>3. ASSUME NEW r \in Requests, WriteFails(r)
      PROVE  Frame
  BY <1>3 DEF WriteFails, Finish, history
<1>4. ASSUME NEW r \in Requests, Place(r)
      PROVE  Frame
  <2>1. doomed[r] = {}
    BY <1>4 DEF Place, Slots
  <2> QED
    BY <1>4, <2>1 DEF Place, history
<1>5. ASSUME NEW r \in Requests, SiteGone(r)
      PROVE  Frame
  BY <1>5 DEF SiteGone, Finish, store, history
<1>6. ASSUME NEW r \in Requests, NEW x \in pending[r], UnlinkBlob(r, x)
      PROVE  Frame
  BY <1>6 DEF UnlinkBlob, history
<1>7. ASSUME NEW r \in Requests, Abort(r)
      PROVE  Frame
  BY <1>7 DEF Abort, Finish, store
<1>8. ASSUME NEW site \in Sites, NEW p \in Policies, ChangePolicy(site, p)
      PROVE  Frame
  BY <1>8 DEF ChangePolicy, request
<1>9. ASSUME Tick
      PROVE  Frame
  BY <1>9 DEF Tick, store, request, history
<1>10. ASSUME UNCHANGED vars
       PROVE  Frame
  BY <1>10 DEF vars, store, request, history
<1> QED
  BY <1>1, <1>2, <1>3, <1>4, <1>5, <1>6, <1>7, <1>8, <1>9, <1>10 DEF Next, Step

\* What a commit of ingest() adds to the table: a row of its upload, under a new name.
LEMMA CommitRowAdds ==
    ASSUME TypeOK, Slots, OneUploadPerName, NEW r \in Requests, CommitRow(r)
    PROVE  \E z \in Row :
               /\ rows' = rows \cup {z}
               /\ ever' = ever \cup {z}
               /\ \A x \in ever : x.name # z.name
               /\ UNCHANGED <<asked, missed, former, doomed, job>>
<1>1. PICK i \in FreshIds :
         rows' = rows \cup {[id |-> i, name |-> job[r].name, site |-> job[r].site,
                             scope |-> job[r].scope, at |-> job[r].at]}
         /\ ever' = ever \cup {[id |-> i, name |-> job[r].name, site |-> job[r].site,
                             scope |-> job[r].scope, at |-> job[r].at]}
  BY DEF CommitRow
<1> DEFINE z == [id |-> i, name |-> job[r].name, site |-> job[r].site,
                  scope |-> job[r].scope, at |-> job[r].at]
<1>2. i \in Nat \ {0}
  BY <1>1 DEF FreshIds, TypeOK, Row
<1>3. job[r] \in Upload /\ Storing(r)
  BY DEF CommitRow, Slots, Storing
<1>4. z \in Row
  BY <1>2, <1>3 DEF Row, Upload
<1>5. \A x \in ever : x.name # z.name
  BY <1>3 DEF OneUploadPerName
<1>6. UNCHANGED <<asked, missed, former, doomed, job>>
  BY DEF CommitRow, Goto
<1> QED
  BY <1>1, <1>4, <1>5, <1>6

\* What a prune condemns: losers, of its own site and scope.
LEMMA PruneCondemns ==
    ASSUME TypeOK, Slots, NEW r \in Requests, Prune(r)
    PROVE  /\ UNCHANGED <<rows, ever, asked, missed, former>>
           /\ \A q \in Requests \ {r} : doomed'[q] = doomed[q] /\ job'[q] = job[q]
           /\ doomed'[r] # {} => Uploading(r)'
           /\ \A x \in doomed'[r] : \E y \in rows :
                  y.site = x.site /\ y.scope = x.scope /\ Newer(y, x)
<1> DEFINE B == RowsOf(job[r].site, job[r].scope)
<1> DEFINE losers == Losers(B, policy[job[r].site])
<1>1. doomed[r] = {} /\ job[r] \in Upload
  BY DEF Prune, Slots
<1>2. doomed'[r] \subseteq losers /\ (doomed'[r] # {} => job'[r] = job[r])
  BY <1>1 DEF Prune, Finish, store, TypeOK
<1>3. doomed'[r] # {} => Uploading(r)'
  BY <1>1, <1>2, VaultAssumption DEF Uploading, Upload, VaultAssumption
<1>4. policy[job[r].site] \in [Tiers -> Int]
  BY VaultAssumption DEF Prune, TypeOK, VaultAssumption
<1>5. ASSUME NEW x \in losers
      PROVE  \E y \in rows : y.site = x.site /\ y.scope = x.scope /\ Newer(y, x)
  <2>1. x \in B
    BY DEF Losers
  <2>2. PICK y \in B : Newer(y, x)
    BY <1>4, LoserHasNewer
  <2> QED
    BY <2>1, <2>2 DEF RowsOf
<1>6. /\ UNCHANGED <<rows, ever, asked, missed, former>>
      /\ \A q \in Requests \ {r} : doomed'[q] = doomed[q] /\ job'[q] = job[q]
  BY DEF Prune, Finish, store, TypeOK
<1> QED
  BY <1>2, <1>3, <1>5, <1>6

\* What the commit of a deletion does to the table.
LEMMA CommitDrops ==
    ASSUME TypeOK, NEW r \in Requests, CommitDeletes(r) \/ CommitSiteDelete(r)
    PROVE  /\ rows' \subseteq rows
           /\ UNCHANGED <<ever, asked, former>>
           /\ missed \cup Unlisted(r) \subseteq missed'
           /\ doomed'[r] = {}
           /\ \A q \in Requests \ {r} : doomed'[q] = doomed[q] /\ job'[q] = job[q]
BY DEF CommitDeletes, CommitSiteDelete, Finish, TypeOK

\* Rows belong to the site that has their id now, and not to one before it.
LEMMA RowsAreCurrentStep ==
    ASSUME TypeOK, Slots, OneUploadPerName, Referential, RowsAreCurrent, [Next]_vars
    PROVE  RowsAreCurrent'
<1> USE DEF RowsAreCurrent
<1>1. CASE Frame
  BY <1>1 DEF Frame
<1>2. ASSUME NEW r \in Requests, CommitRow(r)
      PROVE  RowsAreCurrent'
  <2>1. PICK z \in Row : /\ rows' = rows \cup {z} /\ ever' = ever \cup {z}
                         /\ \A x \in ever : x.name # z.name
                         /\ former' = former
    BY <1>2, CommitRowAdds
  <2> QED
    BY <2>1
<1>3. ASSUME NEW r \in Requests, Prune(r)
      PROVE  RowsAreCurrent'
  BY <1>3, PruneCondemns
<1>4. ASSUME NEW r \in Requests, NEW x \in rows, StartDelete(r, x)
      PROVE  RowsAreCurrent'
  BY <1>4 DEF StartDelete, store
<1>5. ASSUME NEW r \in Requests, NEW site \in Sites, StartSiteDelete(r, site)
      PROVE  RowsAreCurrent'
  BY <1>5 DEF StartSiteDelete, store
<1>6. ASSUME NEW r \in Requests, CommitDeletes(r) \/ CommitSiteDelete(r)
      PROVE  RowsAreCurrent'
  BY <1>6, CommitDrops
<1>7. ASSUME NEW site \in Sites, NEW p \in Policies, CreateSite(site, p)
      PROVE  RowsAreCurrent'
  <2>1. site \notin sites
    BY <1>7, VaultAssumption DEF CreateSite, VaultAssumption
  <2>2. ASSUME NEW x \in rows, NEW e \in ever, e.site = site, x.name = e.name
        PROVE  FALSE
    <3>1. x = e
      BY <2>2 DEF OneUploadPerName
    <3> QED
      BY <2>1, <2>2, <3>1 DEF Referential
  <2> QED
    BY <1>7, <2>2 DEF CreateSite
<1> QED
  BY <1>1, <1>2, <1>3, <1>4, <1>5, <1>6, <1>7, WhatAStepDoes

\* A prune condemns a backup only under a newer one of the same site, the present one
\* or the one before.
LEMMA CondemnedHaveNewerStep ==
    ASSUME TypeOK, Slots, OneUploadPerName, RowsAreCurrent, CondemnedHaveNewer, [Next]_vars
    PROVE  CondemnedHaveNewer'
<1> USE DEF CondemnedHaveNewer
<1>1. CASE Frame
  BY <1>1 DEF Frame
<1>2. ASSUME NEW r \in Requests, CommitRow(r)
      PROVE  CondemnedHaveNewer'
  <2>1. ever \subseteq ever' /\ UNCHANGED <<former, doomed, job>>
    BY <1>2, CommitRowAdds
  <2> QED
    BY <2>1 DEF Uploading
<1>3. ASSUME NEW r \in Requests, Prune(r)
      PROVE  CondemnedHaveNewer'
  <2>1. ASSUME NEW x \in doomed'[r]
        PROVE  \E y \in ever : /\ y.site = x.site /\ y.scope = x.scope /\ Newer(y, x)
                               /\ y.name \notin former
    <3>1. PICK y \in rows : y.site = x.site /\ y.scope = x.scope /\ Newer(y, x)
      BY <1>3, PruneCondemns
    <3> QED
      BY <3>1 DEF RowsAreCurrent, OneUploadPerName
  <2>2. /\ UNCHANGED <<ever, former>>
        /\ \A q \in Requests \ {r} : doomed'[q] = doomed[q] /\ job'[q] = job[q]
    BY <1>3, PruneCondemns
  <2>3. ASSUME NEW q \in Requests, Uploading(q)', NEW x \in doomed'[q]
        PROVE  \E y \in ever : /\ y.site = x.site /\ y.scope = x.scope /\ Newer(y, x)
                               /\ y.name \in former => x.name \in former
    BY <2>1, <2>2, <2>3 DEF Uploading
  <2> QED
    BY <2>2, <2>3
<1>4. ASSUME NEW r \in Requests, NEW x \in rows, StartDelete(r, x)
      PROVE  CondemnedHaveNewer'
  <2>1. /\ UNCHANGED <<ever, former>>
        /\ \A q \in Requests \ {r} : doomed'[q] = doomed[q] /\ job'[q] = job[q]
        /\ ~Uploading(r)'
    BY <1>4 DEF StartDelete, Uploading, TypeOK
  <2> QED
    BY <2>1 DEF Uploading
<1>5. ASSUME NEW r \in Requests, NEW site \in Sites, StartSiteDelete(r, site)
      PROVE  CondemnedHaveNewer'
  <2>1. /\ UNCHANGED <<ever, former>>
        /\ \A q \in Requests \ {r} : doomed'[q] = doomed[q] /\ job'[q] = job[q]
        /\ ~Uploading(r)'
    BY <1>5 DEF StartSiteDelete, Uploading, TypeOK
  <2> QED
    BY <2>1 DEF Uploading
<1>6. ASSUME NEW r \in Requests, CommitDeletes(r) \/ CommitSiteDelete(r)
      PROVE  CondemnedHaveNewer'
  <2>1. /\ UNCHANGED <<ever, former>>
        /\ doomed'[r] = {}
        /\ \A q \in Requests \ {r} : doomed'[q] = doomed[q] /\ job'[q] = job[q]
    BY <1>6, CommitDrops
  <2> QED
    BY <2>1 DEF Uploading
<1>7. ASSUME NEW site \in Sites, NEW p \in Policies, CreateSite(site, p)
      PROVE  CondemnedHaveNewer'
  <2>1. /\ former' = former \cup {e.name : e \in {e \in ever : e.site = site}}
        /\ UNCHANGED <<ever, doomed, job>>
    BY <1>7 DEF CreateSite, request
  <2>2. ASSUME NEW q \in Requests, NEW x \in doomed[q], NEW y \in ever, y.site = x.site,
               y.name \in former => x.name \in former, y.name \in former'
        PROVE  x.name \in former'
    <3>1. CASE y.name \in former
      BY <2>1, <2>2, <3>1
    <3>2. CASE y.name \notin former
      <4>1. PICK e \in ever : e.site = site /\ e.name = y.name
        BY <2>1, <2>2, <3>2
      <4>2. x.site = site /\ x \in ever
        BY <2>2, <4>1 DEF OneUploadPerName
      <4> QED
        BY <2>1, <4>2
    <3> QED
      BY <3>1, <3>2
  <2>3. ASSUME NEW q \in Requests, Uploading(q), NEW x \in doomed[q]
        PROVE  \E y \in ever : /\ y.site = x.site /\ y.scope = x.scope /\ Newer(y, x)
                               /\ y.name \in former' => x.name \in former'
    BY <2>2, <2>3
  <2> QED
    BY <2>1, <2>3 DEF Uploading
<1> QED
  BY <1>1, <1>2, <1>3, <1>4, <1>5, <1>6, <1>7, WhatAStepDoes

\* A row that a deletion is about to take was asked for, by the operator or the client.
LEMMA CondemnedWereAskedStep ==
    ASSUME TypeOK, Slots, OneUploadPerName, Referential, CondemnedWereAsked, [Next]_vars
    PROVE  CondemnedWereAsked'
<1> USE DEF CondemnedWereAsked
<1>1. CASE Frame
  BY <1>1 DEF Frame
<1>2. ASSUME NEW r \in Requests, CommitRow(r)
      PROVE  CondemnedWereAsked'
  <2>1. PICK z \in Row : /\ rows' = rows \cup {z}
                         /\ \A x \in ever : x.name # z.name
                         /\ UNCHANGED <<asked, doomed, job>>
    BY <1>2, CommitRowAdds
  <2>2. \A q \in Requests : z \notin doomed[q]
    BY <2>1 DEF OneUploadPerName
  <2> QED
    BY <2>1, <2>2 DEF Uploading
<1>3. ASSUME NEW r \in Requests, Prune(r)
      PROVE  CondemnedWereAsked'
  <2>1. /\ UNCHANGED <<rows, asked>>
        /\ doomed'[r] # {} => Uploading(r)'
        /\ \A q \in Requests \ {r} : doomed'[q] = doomed[q] /\ job'[q] = job[q]
    BY <1>3, PruneCondemns
  <2> QED
    BY <2>1 DEF Uploading
<1>4. ASSUME NEW r \in Requests, NEW x \in rows, StartDelete(r, x)
      PROVE  CondemnedWereAsked'
  <2>1. /\ rows' = rows
        /\ asked' = asked \cup {<<x.site, x.scope>>}
        /\ doomed'[r] = {x}
        /\ \A q \in Requests \ {r} : doomed'[q] = doomed[q] /\ job'[q] = job[q]
    BY <1>4 DEF StartDelete, store, TypeOK
  <2> QED
    BY <2>1 DEF Uploading
<1>5. ASSUME NEW r \in Requests, NEW site \in Sites, StartSiteDelete(r, site)
      PROVE  CondemnedWereAsked'
  <2>1. /\ rows' = rows
        /\ asked' = asked \cup ({site} \X Scopes)
        /\ doomed'[r] = {x \in rows : x.site = site}
        /\ \A q \in Requests \ {r} : doomed'[q] = doomed[q] /\ job'[q] = job[q]
    BY <1>5 DEF StartSiteDelete, store, TypeOK
  <2>2. \A x \in rows : x.scope \in Scopes
    BY DEF TypeOK, Row
  <2> QED
    BY <2>1, <2>2 DEF Uploading
<1>6. ASSUME NEW r \in Requests, CommitDeletes(r) \/ CommitSiteDelete(r)
      PROVE  CondemnedWereAsked'
  <2>1. /\ rows' \subseteq rows /\ asked' = asked /\ doomed'[r] = {}
        /\ \A q \in Requests \ {r} : doomed'[q] = doomed[q] /\ job'[q] = job[q]
    BY <1>6, CommitDrops
  <2> QED
    BY <2>1 DEF Uploading
<1>7. ASSUME NEW site \in Sites, NEW p \in Policies, CreateSite(site, p)
      PROVE  CondemnedWereAsked'
  <2>1. site \notin sites
    BY <1>7, VaultAssumption DEF CreateSite, VaultAssumption
  <2>2. \A x \in rows : x.site # site
    BY <2>1 DEF Referential
  <2> QED
    BY <1>7, <2>2 DEF CreateSite, request, Uploading
<1> QED
  BY <1>1, <1>2, <1>3, <1>4, <1>5, <1>6, <1>7, WhatAStepDoes

\* Without a new row, with no new backup of the site and no fewer reasons to spare
\* nothing, the newest backup stays the newest if it stays at all.
LEMMA NewestStays ==
    ASSUME NewestIsThere, NEW site \in Sites, NEW scope \in Scopes,
           Spared(site, scope)' => Spared(site, scope),
           Current(site, scope)' \subseteq Current(site, scope),
           \A x \in RowsOf(site, scope) :
               Spared(site, scope)' /\ (\A y \in Current(site, scope) : ~Newer(y, x))
                   => x \in RowsOf(site, scope)',
           Spared(site, scope)', Current(site, scope)' # {}
    PROVE  \E x \in RowsOf(site, scope)' : \A y \in Current(site, scope)' : ~Newer(y, x)
<1>1. Spared(site, scope) /\ Current(site, scope) # {}
  OBVIOUS
<1>2. PICK x \in RowsOf(site, scope) : \A y \in Current(site, scope) : ~Newer(y, x)
  BY <1>1 DEF NewestIsThere
<1> QED
  BY <1>2

\* The newest backup stays: an upload can only be newer than it or leave it the newest,
\* and what deletes it was asked for, or has missed its target.
LEMMA NewestIsThereStep ==
    ASSUME TypeOK, Slots, OneUploadPerName, Referential, RowsAreCurrent,
           CondemnedHaveNewer, CondemnedWereAsked, NewestIsThere, [Next]_vars
    PROVE  NewestIsThere'
<1> SUFFICES ASSUME NEW site \in Sites, NEW scope \in Scopes,
                    Spared(site, scope)', Current(site, scope)' # {}
             PROVE  \E x \in RowsOf(site, scope)' :
                        \A y \in Current(site, scope)' : ~Newer(y, x)
  BY DEF NewestIsThere
<1> DEFINE Goal == \E x \in RowsOf(site, scope)' : \A y \in Current(site, scope)' : ~Newer(y, x)
<1>1. ASSUME UNCHANGED <<rows, ever, missed, former>>, asked \subseteq asked'
      PROVE  Goal
  <2>1. /\ Spared(site, scope)' => Spared(site, scope)
        /\ Current(site, scope)' = Current(site, scope)
        /\ RowsOf(site, scope)' = RowsOf(site, scope)
    BY <1>1 DEF Spared, Current, RowsOf
  <2> QED
    BY <2>1, NewestStays
<1>2. ASSUME NEW r \in Requests, CommitRow(r)
      PROVE  Goal
  <2>1. PICK z \in Row : /\ rows' = rows \cup {z}
                         /\ ever' = ever \cup {z}
                         /\ \A x \in ever : x.name # z.name
                         /\ UNCHANGED <<asked, missed, former>>
    BY <1>2, CommitRowAdds
  <2>2. Spared(site, scope)
    BY <2>1 DEF Spared
  <2>3. Current(site, scope) \subseteq Row /\ RowsOf(site, scope) \subseteq Row
    BY DEF Current, RowsOf, TypeOK
  <2>4. RowsOf(site, scope) \subseteq RowsOf(site, scope)'
    BY <2>1 DEF RowsOf
  <2>5. Current(site, scope)' \subseteq Current(site, scope) \cup {z}
    BY <2>1 DEF Current
  <2>6. CASE ~(z.site = site /\ z.scope = scope)
    <3>1. Current(site, scope)' = Current(site, scope)
      BY <2>1, <2>6 DEF Current
    <3> QED
      BY <2>2, <2>4, <3>1 DEF NewestIsThere
  <2>7. CASE z.site = site /\ z.scope = scope
    <3>1. z \in RowsOf(site, scope)'
      BY <2>1, <2>7 DEF RowsOf
    <3>2. ~Newer(z, z)
      BY NewerOrders
    <3>3. CASE Current(site, scope) = {}
      BY <2>5, <3>1, <3>2, <3>3
    <3>4. CASE Current(site, scope) # {}
      <4>1. PICK x \in RowsOf(site, scope) : \A y \in Current(site, scope) : ~Newer(y, x)
        BY <2>2, <3>4 DEF NewestIsThere
      <4>2. x \in Row
        BY <2>3
      <4>3. CASE Newer(z, x)
        <5>1. \A y \in Current(site, scope) : ~Newer(y, z)
          BY <2>3, <4>1, <4>2, <4>3, NewerOrders
        <5> QED
          BY <2>5, <3>1, <3>2, <5>1
      <4>4. CASE ~Newer(z, x)
        BY <2>4, <2>5, <4>1, <4>4
      <4> QED
        BY <4>3, <4>4
    <3> QED
      BY <3>3, <3>4
  <2> QED
    BY <2>6, <2>7
<1>3. ASSUME NEW r \in Requests, CommitDeletes(r) \/ CommitSiteDelete(r)
      PROVE  Goal
  <2>1. /\ rows' \subseteq rows
        /\ UNCHANGED <<ever, asked, former>>
        /\ missed \cup Unlisted(r) \subseteq missed'
    BY <1>3, CommitDrops
  <2>2. Spared(site, scope)' => Spared(site, scope)
    BY <2>1 DEF Spared
  <2>3. Current(site, scope)' = Current(site, scope)
    BY <2>1 DEF Current
  <2>4. ASSUME NEW x \in RowsOf(site, scope),
               \A y \in Current(site, scope) : ~Newer(y, x), x \notin rows'
        PROVE  FALSE
    <3>1. x \in rows /\ x \in ever /\ x.site = site /\ x.scope = scope
      BY DEF RowsOf, OneUploadPerName
    <3>2. CASE x \notin doomed[r]
      <4>1. x.name \in missed'
        BY <2>1, <2>4, <3>1, <3>2 DEF Unlisted
      <4> QED
        BY <2>1, <3>1, <4>1 DEF Spared
    <3>3. CASE x \in doomed[r] /\ Uploading(r)
      <4>1. PICK y \in ever : /\ y.site = x.site /\ y.scope = x.scope
                              /\ Newer(y, x)
                              /\ y.name \in former => x.name \in former
        BY <3>3 DEF CondemnedHaveNewer
      <4>2. y \in Current(site, scope)
        BY <3>1, <4>1 DEF Current, RowsAreCurrent
      <4> QED
        BY <2>4, <4>1, <4>2
    <3>4. CASE x \in doomed[r] /\ ~Uploading(r)
      <4>1. <<site, scope>> \in asked
        BY <3>1, <3>4 DEF CondemnedWereAsked
      <4> QED
        BY <2>1, <4>1 DEF Spared
    <3> QED
      BY <3>2, <3>3, <3>4
  <2>5. ASSUME NEW x \in RowsOf(site, scope), x \in rows'
        PROVE  x \in RowsOf(site, scope)'
    BY <2>5 DEF RowsOf
  <2> QED
    BY <2>2, <2>3, <2>4, <2>5, NewestStays
<1>4. ASSUME NEW s \in Sites, NEW p \in Policies, CreateSite(s, p)
      PROVE  Goal
  <2>1. /\ UNCHANGED <<rows, ever, missed>>
        /\ asked' = asked \ ({s} \X Scopes)
        /\ former' = former \cup {e.name : e \in {e \in ever : e.site = s}}
    BY <1>4 DEF CreateSite
  <2>2. site # s
    <3>1. CASE site = s
      <4>1. Current(site, scope)' = {}
        BY <2>1, <3>1 DEF Current
      <4> QED
        BY <4>1
    <3> QED
      BY <3>1
  <2>3. /\ Spared(site, scope)' => Spared(site, scope)
        /\ Current(site, scope)' \subseteq Current(site, scope)
        /\ RowsOf(site, scope)' = RowsOf(site, scope)
    BY <2>1, <2>2 DEF Spared, Current, RowsOf
  <2> QED
    BY <2>3, NewestStays
<1>5. CASE Frame
  BY <1>1, <1>5 DEF Frame
<1>6. ASSUME NEW r \in Requests, Prune(r)
      PROVE  Goal
  BY <1>1, <1>6, PruneCondemns
<1>7. ASSUME NEW r \in Requests, NEW x \in rows, StartDelete(r, x)
      PROVE  Goal
  BY <1>1, <1>7 DEF StartDelete, store
<1>8. ASSUME NEW r \in Requests, NEW s \in Sites, StartSiteDelete(r, s)
      PROVE  Goal
  BY <1>1, <1>8 DEF StartSiteDelete, store
<1> QED
  BY <1>2, <1>3, <1>4, <1>5, <1>6, <1>7, <1>8, WhatAStepDoes

-----------------------------------------------------------------------------
\* The strengthened invariant holds in every reachable state.
THEOREM KeepsInvariance == Spec => []KeepsInv
<1>1. Init => KeepsInv
  <2> SUFFICES ASSUME Init
               PROVE  KeepsInv
    OBVIOUS
  <2>1. IInv
    BY InitIInv
  <2>2. RowsAreCurrent /\ CondemnedHaveNewer /\ CondemnedWereAsked
    BY DEF Init, RowsAreCurrent, CondemnedHaveNewer, CondemnedWereAsked
  <2>3. NewestIsThere
    BY DEF Init, NewestIsThere, Current
  <2> QED
    BY <2>1, <2>2, <2>3 DEF KeepsInv
<1>2. KeepsInv /\ [Next]_vars => KeepsInv'
  <2> SUFFICES ASSUME KeepsInv, [Next]_vars
               PROVE  KeepsInv'
    OBVIOUS
  <2>1. TypeOK /\ Slots /\ OneUploadPerName /\ Referential
    BY DEF KeepsInv, IInv
  <2>2. IInv'
    BY StepIInv DEF KeepsInv
  <2>3. RowsAreCurrent' /\ CondemnedHaveNewer' /\ CondemnedWereAsked'
    BY <2>1, RowsAreCurrentStep, CondemnedHaveNewerStep, CondemnedWereAskedStep DEF KeepsInv
  <2>4. NewestIsThere'
    BY <2>1, NewestIsThereStep DEF KeepsInv
  <2> QED
    BY <2>2, <2>3, <2>4 DEF KeepsInv
<1> QED
  BY <1>1, <1>2, PTL DEF Spec

\* "never wipe a site to zero by accident" (retention.py:72-73): for any number of
\* uploads, prunes, policy changes and interruptions, a site that has stored a backup
\* has one, unless a deletion was asked for or took a row that it had not listed.
THEOREM SitesKeepABackup == Spec => []NeverEmptied
<1>1. KeepsInv => NeverEmptied
  BY DEF KeepsInv, NewestIsThere, NeverEmptied
<1> QED
  BY <1>1, KeepsInvariance, PTL

-----------------------------------------------------------------------------
(* No blob is forgotten *)

\* Only os.replace puts a blob in place, under a name that no row has had.
LEMMA UnlinkedStayGoneStep ==
    ASSUME TypeOK, Slots, OneUploadPerName, UnlinkedStayGone,
           [Next]_vars
    PROVE  UnlinkedStayGone'
<1> USE DEF TypeOK, UnlinkedStayGone
<1>1. ASSUME NEW r \in Requests, NEW site \in Sites, NEW scope \in Scopes, NEW name \in Names,
             StartUpload(r, site, scope, name)
      PROVE  UnlinkedStayGone'
  BY <1>1 DEF StartUpload, history
<1>2. ASSUME NEW r \in Requests, FinishPart(r)
      PROVE  UnlinkedStayGone'
  BY <1>2 DEF FinishPart, Goto, history
<1>3. ASSUME NEW r \in Requests, WriteFails(r)
      PROVE  UnlinkedStayGone'
  BY <1>3 DEF WriteFails, Finish, history
<1>4. ASSUME NEW r \in Requests, Place(r)
      PROVE  UnlinkedStayGone'
  <2>1. \A q \in Requests : \A x \in doomed[q] : x.name # job[r].name
    BY <1>4 DEF Place, OneUploadPerName, Storing
  <2>2. \A q \in Requests : \A x \in doomed[q] : Blob(x) # Blob(job[r])
    BY <2>1 DEF Blob
  <2> QED
    BY <1>4, <2>2 DEF Place, history
<1>5. ASSUME NEW r \in Requests, CommitRow(r)
      PROVE  UnlinkedStayGone'
  BY <1>5 DEF CommitRow, Goto
<1>6. ASSUME NEW r \in Requests, SiteGone(r)
      PROVE  UnlinkedStayGone'
  BY <1>6 DEF SiteGone, Finish, store, history
<1>7. ASSUME NEW r \in Requests, Prune(r)
      PROVE  UnlinkedStayGone'
  BY <1>7 DEF Prune, Finish, store
<1>8. ASSUME NEW r \in Requests, NEW x \in rows, StartDelete(r, x)
      PROVE  UnlinkedStayGone'
  BY <1>8 DEF StartDelete, store
<1>9. ASSUME NEW r \in Requests, NEW site \in Sites, StartSiteDelete(r, site)
      PROVE  UnlinkedStayGone'
  BY <1>9 DEF StartSiteDelete, store
<1>10. ASSUME NEW r \in Requests, NEW x \in pending[r], UnlinkBlob(r, x)
      PROVE  UnlinkedStayGone'
  BY <1>10 DEF UnlinkBlob, history
<1>11. ASSUME NEW r \in Requests, CommitDeletes(r)
      PROVE  UnlinkedStayGone'
  BY <1>11 DEF CommitDeletes, Finish
<1>12. ASSUME NEW r \in Requests, CommitSiteDelete(r)
      PROVE  UnlinkedStayGone'
  BY <1>12 DEF CommitSiteDelete, Finish
<1>13. ASSUME NEW r \in Requests, Abort(r)
      PROVE  UnlinkedStayGone'
  BY <1>13 DEF Abort, Finish, store
<1>14. ASSUME NEW site \in Sites, NEW p \in Policies, ChangePolicy(site, p)
      PROVE  UnlinkedStayGone'
  BY <1>14 DEF ChangePolicy, request
<1>15. ASSUME NEW site \in Sites, NEW p \in Policies, CreateSite(site, p)
      PROVE  UnlinkedStayGone'
  BY <1>15 DEF CreateSite, request
<1>16. CASE Tick
  BY <1>16 DEF Tick, store, request, history
<1>17. CASE UNCHANGED vars
  BY <1>17 DEF vars, store, request, history
<1> QED
  BY <1>1, <1>2, <1>3, <1>4, <1>5, <1>6, <1>7, <1>8, <1>9,
     <1>10, <1>11, <1>12, <1>13, <1>14, <1>15, <1>16, <1>17
  DEF Next, Step

\* Deleting a site misses the uploads to it that are under way, and no others start.
LEMMA OrphansAreMissedStep ==
    ASSUME TypeOK, Slots, OrphansAreMissed, [Next]_vars
    PROVE  OrphansAreMissed'
<1> USE DEF TypeOK, OrphansAreMissed
<1>a. ASSUME sites \subseteq sites', missed \subseteq missed',
             \A q \in Requests : Storing(q)' =>
                 Storing(q) /\ job'[q].site = job[q].site /\ job'[q].name = job[q].name
      PROVE  OrphansAreMissed'
  BY <1>a
<1>1. ASSUME NEW r \in Requests, NEW site \in Sites, NEW scope \in Scopes, NEW name \in Names,
             StartUpload(r, site, scope, name)
      PROVE  OrphansAreMissed'
  <2>1. job'[r].site \in sites'
    BY <1>1 DEF StartUpload
  <2>2. \A q \in Requests \ {r} : job'[q] = job[q] /\ pc'[q] = pc[q]
    BY <1>1 DEF StartUpload
  <2>3. UNCHANGED <<sites, missed>>
    BY <1>1 DEF StartUpload, history
  <2> QED
    BY <2>1, <2>2, <2>3 DEF Storing
<1>2. ASSUME NEW r \in Requests, FinishPart(r) \/ CommitRow(r)
      PROVE  OrphansAreMissed'
  BY <1>a, <1>2 DEF FinishPart, CommitRow, Goto, Storing, history
<1>3. ASSUME NEW r \in Requests, Place(r)
      PROVE  OrphansAreMissed'
  <2>1. job[r] \in Upload
    BY <1>3 DEF Place, Slots, Storing
  <2>2. job'[r].site = job[r].site /\ job'[r].name = job[r].name
    BY <1>3, <2>1 DEF Place, Upload
  <2>3. Storing(r) /\ \A q \in Requests \ {r} : job'[q] = job[q] /\ pc'[q] = pc[q]
    BY <1>3 DEF Place, Storing
  <2>4. UNCHANGED <<sites, missed>>
    BY <1>3 DEF Place, history
  <2> QED
    BY <1>a, <2>2, <2>3, <2>4 DEF Storing
<1>4. ASSUME NEW r \in Requests, WriteFails(r) \/ SiteGone(r) \/ Abort(r)
      PROVE  OrphansAreMissed'
  BY <1>a, <1>4 DEF WriteFails, SiteGone, Abort, Finish, Storing, store, history
<1>5. ASSUME NEW r \in Requests, Prune(r)
      PROVE  OrphansAreMissed'
  BY <1>a, <1>5 DEF Prune, Finish, Storing, store
<1>6. ASSUME NEW r \in Requests, NEW x \in rows, StartDelete(r, x)
      PROVE  OrphansAreMissed'
  BY <1>a, <1>6 DEF StartDelete, Storing, store
<1>7. ASSUME NEW r \in Requests, NEW site \in Sites, StartSiteDelete(r, site)
      PROVE  OrphansAreMissed'
  BY <1>a, <1>7 DEF StartSiteDelete, Storing, store
<1>8. ASSUME NEW r \in Requests, NEW x \in pending[r], UnlinkBlob(r, x)
      PROVE  OrphansAreMissed'
  BY <1>a, <1>8 DEF UnlinkBlob, Storing, history
<1>9. ASSUME NEW r \in Requests, CommitDeletes(r)
      PROVE  OrphansAreMissed'
  BY <1>a, <1>9 DEF CommitDeletes, Finish, Storing
<1>10. ASSUME NEW r \in Requests, CommitSiteDelete(r)
       PROVE  OrphansAreMissed'
  <2>1. /\ sites' = sites \ {job[r].site}
        /\ missed \subseteq missed'
        /\ \A q \in Requests : Storing(q) /\ job[q].site = job[r].site => job[q].name \in missed'
    BY <1>10 DEF CommitSiteDelete
  <2>2. \A q \in Requests : Storing(q)' => Storing(q) /\ job'[q] = job[q]
    BY <1>10 DEF CommitSiteDelete, Finish, Storing
  <2> QED
    BY <2>1, <2>2
<1>11. ASSUME NEW site \in Sites, NEW p \in Policies,
              ChangePolicy(site, p) \/ CreateSite(site, p)
       PROVE  OrphansAreMissed'
  BY <1>a, <1>11 DEF ChangePolicy, CreateSite, Storing, request
<1>12. CASE Tick \/ UNCHANGED vars
  BY <1>a, <1>12 DEF Tick, Storing, vars, store, request, history
<1> QED
  BY <1>1, <1>2, <1>3, <1>4, <1>5, <1>6, <1>7, <1>8, <1>9, <1>10, <1>11, <1>12
  DEF Next, Step

\* From os.replace to os.remove somebody answers for a blob.
LEMMA BlobsHaveAFateStep ==
    ASSUME TypeOK, Slots, OneUploadPerName, UnlinkedStayGone, OrphansAreMissed,
           BlobsHaveAFate, [Next]_vars
    PROVE  BlobsHaveAFate'
<1> USE DEF TypeOK, BlobsHaveAFate
<1>a. ASSUME aborts' = 0 => aborts = 0, bins' \subseteq bins, rows \subseteq rows',
             missed \subseteq missed',
             \A q \in Requests : pc[q] = "placed" => pc'[q] = "placed" /\ job'[q] = job[q]
      PROVE  BlobsHaveAFate'
  BY <1>a DEF Blob
<1>b. ASSUME aborts' = aborts, bins' = bins, missed \subseteq missed',
             UNCHANGED ever,
             NEW r \in Requests, pending[r] = {}, pc[r] = "unlinking",
             rows' \subseteq rows, Unlisted(r) \subseteq missed',
             \A q \in Requests \ {r} : pc'[q] = pc[q] /\ job'[q] = job[q]
      PROVE  BlobsHaveAFate'
  <2>1. ASSUME NEW x \in rows, x \notin rows', Blob(x) \in bins
        PROVE  x.name \in missed'
    BY <1>b, <2>1 DEF UnlinkedStayGone, Unlisted
  <2>2. ASSUME NEW q \in Requests, pc[q] = "placed"
        PROVE  pc'[q] = "placed" /\ Blob(job'[q]) = Blob(job[q])
    BY <1>b, <2>2 DEF Blob
  <2>3. ASSUME aborts = 0, NEW b \in bins
        PROVE  \/ b[2] \in missed'
               \/ \E x \in rows' : Blob(x) = b
               \/ \E q \in Requests : pc'[q] = "placed" /\ Blob(job'[q]) = b
    <3>1. CASE b[2] \in missed
      BY <1>b, <3>1
    <3>2. ASSUME NEW x \in rows, Blob(x) = b
          PROVE  b[2] \in missed' \/ \E y \in rows' : Blob(y) = b
      <4>1. b[2] = x.name
        BY <3>2 DEF Blob
      <4> QED
        BY <2>1, <2>3, <3>2, <4>1
    <3>3. ASSUME NEW q \in Requests, pc[q] = "placed", Blob(job[q]) = b
          PROVE  pc'[q] = "placed" /\ Blob(job'[q]) = b
      BY <2>2, <3>3
    <3> QED
      BY <2>3, <3>1, <3>2, <3>3
  <2> QED
    BY <1>b, <2>3 DEF Blob
<1>1. ASSUME NEW r \in Requests, NEW site \in Sites, NEW scope \in Scopes, NEW name \in Names,
             StartUpload(r, site, scope, name)
      PROVE  BlobsHaveAFate'
  BY <1>a, <1>1 DEF StartUpload, history
<1>2. ASSUME NEW r \in Requests, FinishPart(r)
      PROVE  BlobsHaveAFate'
  BY <1>a, <1>2 DEF FinishPart, Goto, history
<1>3. ASSUME NEW r \in Requests, WriteFails(r)
      PROVE  BlobsHaveAFate'
  BY <1>a, <1>3 DEF WriteFails, Finish, history
<1>4. ASSUME NEW r \in Requests, Place(r)
      PROVE  BlobsHaveAFate'
  <2>1. job[r] \in Upload
    BY <1>4 DEF Place, Slots, Storing
  <2>2. pc'[r] = "placed" /\ Blob(job'[r]) = Blob(job[r])
    BY <1>4, <2>1 DEF Place, Upload, Blob
  <2>3. \A q \in Requests \ {r} : pc'[q] = pc[q] /\ Blob(job'[q]) = Blob(job[q])
    BY <1>4 DEF Place
  <2>4. pc[r] # "placed" /\ bins' = bins \cup {Blob(job[r])} /\ UNCHANGED <<rows, missed, aborts>>
    BY <1>4 DEF Place, history
  <2>5. ASSUME aborts = 0, NEW b \in bins'
        PROVE  \/ b[2] \in missed
               \/ \E x \in rows : Blob(x) = b
               \/ \E q \in Requests : pc'[q] = "placed" /\ Blob(job'[q]) = b
    <3>1. CASE b = Blob(job[r])
      BY <2>2, <3>1
    <3>2. CASE b # Blob(job[r])
      <4>1. b \in bins
        BY <2>4, <2>5, <3>2
      <4>2. \/ b[2] \in missed
            \/ \E x \in rows : Blob(x) = b
            \/ \E q \in Requests \ {r} : pc[q] = "placed" /\ Blob(job[q]) = b
        BY <2>5, <3>2, <4>1
      <4> QED
        BY <2>3, <4>2
    <3> QED
      BY <3>1, <3>2
  <2> QED
    BY <2>4, <2>5 DEF Blob
<1>5. ASSUME NEW r \in Requests, CommitRow(r)
      PROVE  BlobsHaveAFate'
  <2>1. \E z \in rows' : Blob(z) = Blob(job[r])
    <3>1. PICK i \in FreshIds :
             rows' = rows \cup {[id |-> i, name |-> job[r].name, site |-> job[r].site,
                                 scope |-> job[r].scope, at |-> job[r].at]}
      BY <1>5 DEF CommitRow
    <3> DEFINE z == [id |-> i, name |-> job[r].name, site |-> job[r].site,
                      scope |-> job[r].scope, at |-> job[r].at]
    <3>2. z.site = job[r].site /\ z.name = job[r].name
      OBVIOUS
    <3>3. Blob(z) = Blob(job[r])
      BY <3>2 DEF Blob
    <3>4. z \in rows'
      BY <3>1
    <3> QED
      BY <3>3, <3>4
  <2>2. \A q \in Requests \ {r} : pc'[q] = pc[q] /\ Blob(job'[q]) = Blob(job[q])
    BY <1>5 DEF CommitRow, Goto
  <2>3. rows \subseteq rows' /\ UNCHANGED <<bins, missed, aborts>>
    BY <1>5 DEF CommitRow
  <2>4. ASSUME aborts = 0, NEW b \in bins
        PROVE  \/ b[2] \in missed
               \/ \E x \in rows' : Blob(x) = b
               \/ \E q \in Requests : pc'[q] = "placed" /\ Blob(job'[q]) = b
    BY <2>1, <2>2, <2>3, <2>4
  <2> QED
    BY <2>3, <2>4 DEF Blob
<1>6. ASSUME NEW r \in Requests, SiteGone(r)
      PROVE  BlobsHaveAFate'
  <2>1. pc[r] = "placed" => job[r].name \in missed
    BY <1>6 DEF SiteGone, OrphansAreMissed, Storing
  <2>2. \A q \in Requests \ {r} : pc'[q] = pc[q] /\ Blob(job'[q]) = Blob(job[q])
    BY <1>6 DEF SiteGone, Finish
  <2>3. UNCHANGED <<rows, bins, missed, aborts>>
    BY <1>6 DEF SiteGone, store, history
  <2>4. Blob(job[r])[2] = job[r].name
    BY DEF Blob
  <2>5. ASSUME aborts = 0, NEW b \in bins
        PROVE  \/ b[2] \in missed
               \/ \E x \in rows : Blob(x) = b
               \/ \E q \in Requests : pc'[q] = "placed" /\ Blob(job'[q]) = b
    BY <2>1, <2>2, <2>4, <2>5
  <2> QED
    BY <2>3, <2>5 DEF Blob
<1>7. ASSUME NEW r \in Requests, Prune(r)
      PROVE  BlobsHaveAFate'
  BY <1>a, <1>7 DEF Prune, Finish, store
<1>8. ASSUME NEW r \in Requests, NEW x \in rows, StartDelete(r, x)
      PROVE  BlobsHaveAFate'
  BY <1>a, <1>8 DEF StartDelete, store
<1>9. ASSUME NEW r \in Requests, NEW site \in Sites, StartSiteDelete(r, site)
      PROVE  BlobsHaveAFate'
  BY <1>a, <1>9 DEF StartSiteDelete, store
<1>10. ASSUME NEW r \in Requests, NEW x \in pending[r], UnlinkBlob(r, x)
       PROVE  BlobsHaveAFate'
  BY <1>a, <1>10 DEF UnlinkBlob, history
<1>11. ASSUME NEW r \in Requests, CommitDeletes(r)
       PROVE  BlobsHaveAFate'
  BY <1>b, <1>11 DEF CommitDeletes, Finish
<1>12. ASSUME NEW r \in Requests, CommitSiteDelete(r)
       PROVE  BlobsHaveAFate'
  BY <1>b, <1>12 DEF CommitSiteDelete, Finish
<1>13. ASSUME NEW r \in Requests, Abort(r)
       PROVE  BlobsHaveAFate'
  <2>1. aborts' # 0
    BY <1>13 DEF Abort
  <2> QED
    BY <2>1
<1>14. ASSUME NEW site \in Sites, NEW p \in Policies,
              ChangePolicy(site, p) \/ CreateSite(site, p)
       PROVE  BlobsHaveAFate'
  BY <1>a, <1>14 DEF ChangePolicy, CreateSite, request
<1>15. CASE Tick \/ UNCHANGED vars
  BY <1>a, <1>15 DEF Tick, vars, store, request, history
<1> QED
  BY <1>1, <1>2, <1>3, <1>4, <1>5, <1>6, <1>7, <1>8, <1>9,
     <1>10, <1>11, <1>12, <1>13, <1>14, <1>15 DEF Next, Step

-----------------------------------------------------------------------------
\* The strengthened invariant holds in every reachable state.
THEOREM BlobsInvariance == Spec => []BlobsInv
<1>1. Init => BlobsInv
  <2> SUFFICES ASSUME Init
               PROVE  BlobsInv
    OBVIOUS
  <2>1. IInv
    BY InitIInv
  <2>2. UnlinkedStayGone /\ OrphansAreMissed /\ BlobsHaveAFate
    BY DEF Init, UnlinkedStayGone, OrphansAreMissed, BlobsHaveAFate, Storing
  <2> QED
    BY <2>1, <2>2 DEF BlobsInv
<1>2. BlobsInv /\ [Next]_vars => BlobsInv'
  <2> SUFFICES ASSUME BlobsInv, [Next]_vars
               PROVE  BlobsInv'
    OBVIOUS
  <2>1. TypeOK /\ Slots /\ OneUploadPerName
    BY DEF BlobsInv, IInv
  <2>2. IInv'
    BY StepIInv DEF BlobsInv
  <2>3. UnlinkedStayGone' /\ OrphansAreMissed' /\ BlobsHaveAFate'
    BY <2>1, UnlinkedStayGoneStep, OrphansAreMissedStep, BlobsHaveAFateStep DEF BlobsInv
  <2> QED
    BY <2>2, <2>3 DEF BlobsInv
<1> QED
  BY <1>1, <1>2, PTL DEF Spec

\* When no request is in progress and none was cut short, every blob is named by a row,
\* but for the uploads and rows that a deletion did not know of (CHANGELOG.md:225-226).
THEOREM NoBlobIsForgotten == Spec => []BlobsAreAccountedFor
<1>1. ASSUME BlobsInv, Quiet, aborts = 0, NEW b \in bins
      PROVE  b[2] \in missed \/ \E x \in rows : Blob(x) = b
  BY <1>1 DEF BlobsInv, BlobsHaveAFate, Quiet
<1>2. BlobsInv => BlobsAreAccountedFor
  BY <1>1 DEF BlobsAreAccountedFor
<1> QED
  BY <1>2, BlobsInvariance, PTL
=============================================================================
