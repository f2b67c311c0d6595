-------------------------------- MODULE Vault --------------------------------
(***************************************************************************)
(* The backup vault: the `backup' table of the SQLite database, the blob   *)
(* files under DATA_DIR/storage, and the requests that change both --      *)
(* ingest of an upload with its retention prune (app/storage.py,           *)
(* app/retention.py), deletion of one backup (app/api.py, app/routes.py)   *)
(* and creation and deletion of a site (app/routes.py).                    *)
(*                                                                         *)
(* No lock spans the two stores.  Every request is a sequence of file      *)
(* system calls and database transactions that interleaves with the other  *)
(* threads and worker processes, and may be cut short between any two of   *)
(* them: a kill of its worker, or a commit the database refuses, which     *)
(* leaves the same state behind.                                           *)
(***************************************************************************)
EXTENDS Retention

CONSTANTS
    Sites,       \* site ids
    Scopes,      \* "full", "frontend"
    Names,       \* stored_name: a fresh uuid per upload; bounds the uploads
    Requests,    \* requests in progress at once: threads times workers
    Policies,    \* the retention policies a site may have
    NoJob,       \* the job of a request slot that is free
    MaxUpsets    \* bounds how many requests are cut short and sites created, together

VARIABLES
    sites,        \* ids in the `site' table
    policy,       \* the effective retention policy of each site
    rows,         \* the `backup' table
    parts,        \* <<site, name>> of each .part file
    bins,         \* <<site, name>> of each .bin file
    whole,        \* names whose bytes have been written to the end
    used,         \* names handed out so far: uuid4 never repeats one
    clock,        \* utcnow()
    pc,           \* where each request is
    job,          \* the upload or deletion each request performs
    doomed,       \* rows each request is going to delete
    pending,      \* rows of `doomed' whose blob it has not unlinked yet
    aborts,       \* requests cut short so far
    ever,         \* history: every row ever committed
    pruned,       \* history: rows a prune picked for deletion
    interrupted,  \* history: rows whose deletion was cut short
    asked,        \* history: <<site, scope>> a deletion was asked of
    overdue,      \* history: <<site, scope>> whose last prune did not complete,
                  \* or whose policy has changed since
    missed,       \* history: names whose row was deleted, or whose upload was under
                  \* way, without the deletion listing them
    former,       \* history: names stored for an earlier site of the same id
    created       \* sites created so far

store == <<sites, policy, rows, parts, bins, whole, used>>
request == <<pc, job, doomed, pending>>
history == <<aborts, created, ever, pruned, interrupted, asked, overdue, missed, former>>
vars == <<store, clock, request, history>>

Row == [id : Nat \ {0}, name : Names, site : Sites, scope : Scopes, at : Times]
Upload == [kind : {"upload"}, name : Names, site : Sites, scope : Scopes, at : Times]
Delete == [kind : {"delete"}]
SiteDelete == [kind : {"siteDelete"}, site : Sites]

ASSUME VaultAssumption ==
    /\ Sites \subseteq Nat
    /\ Policies \subseteq [Tiers -> Int]
    /\ Times # {}
    /\ MaxUpsets \in Nat
    /\ NoJob \notin Upload \cup Delete \cup SiteDelete

Blob(x) == <<x.site, x.name>>
RowsOf(site, scope) == {x \in rows : x.site = site /\ x.scope = scope}
Ids(R) == {x.id : x \in R}

\* `id' is an INTEGER PRIMARY KEY without AUTOINCREMENT: SQLite gives a new row
\* one more than the largest id in the table, so the id of a deleted row comes back.
FreshIds ==
    {i \in {1} \cup {x.id + 1 : x \in rows} : \A x \in rows : x.id < i}

Init ==
    /\ sites = Sites
    /\ policy \in [Sites -> Policies]
    /\ rows = {}
    /\ parts = {}
    /\ bins = {}
    /\ whole = {}
    /\ used = {}
    /\ clock \in Times
    /\ pc = [r \in Requests |-> "idle"]
    /\ job = [r \in Requests |-> NoJob]
    /\ doomed = [r \in Requests |-> {}]
    /\ pending = [r \in Requests |-> {}]
    /\ aborts = 0
    /\ ever = {}
    /\ pruned = {}
    /\ interrupted = {}
    /\ asked = {}
    /\ overdue = {}
    /\ missed = {}
    /\ former = {}
    /\ created = 0

\* The request answers, whatever the status, and its slot is free.
Finish(r) ==
    /\ pc' = [pc EXCEPT ![r] = "idle"]
    /\ job' = [job EXCEPT ![r] = NoJob]
    /\ doomed' = [doomed EXCEPT ![r] = {}]
    /\ pending' = [pending EXCEPT ![r] = {}]

Goto(r, label) ==
    /\ pc' = [pc EXCEPT ![r] = label]
    /\ UNCHANGED <<job, doomed, pending>>

\* created_at of an upload whose blob is not in place yet.
Unstamped == CHOOSE n \in Times : TRUE

\* The request is about to add a row.
Storing(r) == pc[r] \in {"writing", "written", "placed"}

-----------------------------------------------------------------------------
(* Ingest *)

\* ingest() begins to write <stored_name>.part for an authenticated site.
StartUpload(r, site, scope, name) ==
    /\ pc[r] = "idle"
    /\ site \in sites
    /\ name \notin used
    /\ used' = used \cup {name}
    /\ parts' = parts \cup {<<site, name>>}
    /\ pc' = [pc EXCEPT ![r] = "writing"]
    /\ job' = [job EXCEPT ![r] = [kind |-> "upload", name |-> name, site |-> site,
                                  scope |-> scope, at |-> Unstamped]]
    /\ UNCHANGED <<sites, policy, rows, bins, whole, clock, doomed, pending, history>>

\* The last byte of the .part is written.
FinishPart(r) ==
    /\ pc[r] = "writing"
    /\ whole' = whole \cup {job[r].name}
    /\ Goto(r, "written")
    /\ UNCHANGED <<sites, policy, rows, parts, bins, used, clock, history>>

\* Writing or renaming raises: the partial is removed and the client gets a 500.
WriteFails(r) ==
    /\ pc[r] \in {"writing", "written"}
    /\ parts' = parts \ {Blob(job[r])}
    /\ Finish(r)
    /\ UNCHANGED <<sites, policy, rows, bins, whole, used, clock, history>>

\* Mutant of Place: the rename does not wait for the last byte.
PlaceEarly(r) ==
    /\ pc[r] \in {"writing", "written"}
    /\ parts' = parts \ {Blob(job[r])}
    /\ bins' = bins \cup {Blob(job[r])}
    /\ job' = [job EXCEPT ![r].at = clock]
    /\ pc' = [pc EXCEPT ![r] = "placed"]
    /\ UNCHANGED <<sites, policy, rows, whole, used, clock, doomed, pending, history>>

\* os.replace(part, dest); created_at is read after it, before the insert.
Place(r) ==
    /\ pc[r] = "written"
    /\ parts' = parts \ {Blob(job[r])}
    /\ bins' = bins \cup {Blob(job[r])}
    /\ job' = [job EXCEPT ![r].at = clock]
    /\ pc' = [pc EXCEPT ![r] = "placed"]
    /\ UNCHANGED <<sites, policy, rows, whole, used, clock, doomed, pending, history>>

\* Mutants of CommitRow: before the rename, or with foreign keys off.
InsertRow(r) ==
    /\ \E i \in FreshIds :
         LET x == [id |-> i, name |-> job[r].name, site |-> job[r].site,
                   scope |-> job[r].scope, at |-> job[r].at]
         IN  /\ rows' = rows \cup {x}
             /\ ever' = ever \cup {x}
    /\ Goto(r, "committed")
    /\ UNCHANGED <<sites, policy, parts, bins, whole, used, clock, aborts, pruned,
                   interrupted, asked, overdue, missed, former, created>>
CommitRowBeforePlace(r) ==
    pc[r] \in {"written", "placed"} /\ job[r].site \in sites /\ InsertRow(r)

\* The row is committed; the foreign key requires the site.
CommitRow(r) ==
    /\ pc[r] = "placed"
    /\ job[r].site \in sites
    /\ \E i \in FreshIds :
         LET x == [id |-> i, name |-> job[r].name, site |-> job[r].site,
                   scope |-> job[r].scope, at |-> job[r].at]
         IN  /\ rows' = rows \cup {x}
             /\ ever' = ever \cup {x}
    /\ Goto(r, "committed")
    /\ UNCHANGED <<sites, policy, parts, bins, whole, used, clock, aborts, pruned,
                   interrupted, asked, overdue, missed, former, created>>

\* The site was deleted under the upload: the insert violates the foreign key, or
\* reading the site's policy finds no row.  Either way a 500, and no clean-up.
SiteGone(r) ==
    /\ pc[r] \in {"placed", "committed"}
    /\ job[r].site \notin sites
    /\ Finish(r)
    /\ UNCHANGED <<store, clock, history>>

\* Mutant of Prune: the rows are read before the new one is visible to the query.
PruneBeforeRow(r) ==
    /\ pc[r] = "committed"
    /\ job[r].site \in sites
    /\ LET before == {x \in RowsOf(job[r].site, job[r].scope) : x.name # job[r].name}
           losers == Losers(before, policy[job[r].site])
       IN  /\ pruned' = pruned \cup losers
           /\ IF losers = {}
              THEN Finish(r)
              ELSE /\ doomed' = [doomed EXCEPT ![r] = losers]
                   /\ pending' = [pending EXCEPT ![r] = losers]
                   /\ pc' = [pc EXCEPT ![r] = "unlinking"]
                   /\ UNCHANGED job
    /\ overdue' = overdue \ {<<job[r].site, job[r].scope>>}
    /\ UNCHANGED <<store, clock, aborts, created, ever, interrupted, asked, missed, former>>

\* prune_site_scope reads the policy and the rows, and picks the losers.
Prune(r) ==
    /\ pc[r] = "committed"
    /\ job[r].site \in sites
    /\ LET losers == Losers(RowsOf(job[r].site, job[r].scope), policy[job[r].site])
       IN  /\ pruned' = pruned \cup losers
           /\ IF losers = {}
              THEN Finish(r)
              ELSE /\ doomed' = [doomed EXCEPT ![r] = losers]
                   /\ pending' = [pending EXCEPT ![r] = losers]
                   /\ pc' = [pc EXCEPT ![r] = "unlinking"]
                   /\ UNCHANGED job
    /\ overdue' = overdue \ {<<job[r].site, job[r].scope>>}
    /\ UNCHANGED <<store, clock, aborts, created, ever, interrupted, asked, missed, former>>

-----------------------------------------------------------------------------
(* Deletion *)

\* delete_backup (API) and backup_delete (console) look the row up by id.
StartDelete(r, x) ==
    /\ pc[r] = "idle"
    /\ x \in rows
    /\ pc' = [pc EXCEPT ![r] = "unlinking"]
    /\ job' = [job EXCEPT ![r] = [kind |-> "delete"]]
    /\ doomed' = [doomed EXCEPT ![r] = {x}]
    /\ pending' = [pending EXCEPT ![r] = {x}]
    /\ asked' = asked \cup {<<x.site, x.scope>>}
    /\ UNCHANGED <<store, clock, aborts, ever, pruned, interrupted, overdue, missed, former,
                   created>>

\* site_delete lists the site's backups.
StartSiteDelete(r, site) ==
    /\ pc[r] = "idle"
    /\ site \in sites
    /\ pc' = [pc EXCEPT ![r] = "unlinking"]
    /\ job' = [job EXCEPT ![r] = [kind |-> "siteDelete", site |-> site]]
    /\ doomed' = [doomed EXCEPT ![r] = {x \in rows : x.site = site}]
    /\ pending' = [pending EXCEPT ![r] = {x \in rows : x.site = site}]
    /\ asked' = asked \cup ({site} \X Scopes)
    /\ UNCHANGED <<store, clock, aborts, ever, pruned, interrupted, overdue, missed, former,
                   created>>

\* delete_blob: a missing file is not an error.
UnlinkBlob(r, x) ==
    /\ pc[r] = "unlinking"
    /\ x \in pending[r]
    /\ bins' = bins \ {Blob(x)}
    /\ pending' = [pending EXCEPT ![r] = @ \ {x}]
    /\ UNCHANGED <<sites, policy, rows, parts, whole, used, clock, pc, job, doomed, history>>

\* Rows about to be deleted whose blob nobody unlinks.
Unlisted(r) == {x.name : x \in (rows \ rows') \ doomed[r]}

\* Mutant of CommitDeletes: the rows go first.
CommitDeletesEarly(r) ==
    /\ pc[r] = "unlinking"
    /\ job[r].kind \in {"upload", "delete"}
    /\ rows' = {x \in rows : x.id \notin Ids(doomed[r])}
    /\ missed' = missed \cup Unlisted(r)
    /\ Finish(r)
    /\ UNCHANGED <<sites, policy, parts, bins, whole, used, clock, aborts, ever, pruned,
                   interrupted, asked, overdue, former, created>>

\* DELETE FROM backup WHERE id = ?, for each row of the snapshot, in one
\* transaction.  A row that is gone already is no error; a row that has taken its
\* id since goes instead.
CommitDeletes(r) ==
    /\ pc[r] = "unlinking"
    /\ pending[r] = {}
    /\ job[r].kind \in {"upload", "delete"}
    /\ rows' = {x \in rows : x.id \notin Ids(doomed[r])}
    /\ missed' = missed \cup Unlisted(r)
    /\ Finish(r)
    /\ UNCHANGED <<sites, policy, parts, bins, whole, used, clock, aborts, ever, pruned,
                   interrupted, asked, overdue, former, created>>

\* The same for a site; ON DELETE CASCADE takes the rows that came later.
CommitSiteDelete(r) ==
    /\ pc[r] = "unlinking"
    /\ pending[r] = {}
    /\ job[r].kind = "siteDelete"
    /\ rows' = {x \in rows : x.id \notin Ids(doomed[r]) /\ x.site # job[r].site}
    /\ sites' = sites \ {job[r].site}
    /\ missed' = missed \cup Unlisted(r)
                       \cup {job[q].name : q \in {q \in Requests : Storing(q)
                                                       /\ job[q].site = job[r].site}}
    /\ Finish(r)
    /\ UNCHANGED <<policy, parts, bins, whole, used, clock, aborts, ever, pruned,
                   interrupted, asked, overdue, former, created>>

-----------------------------------------------------------------------------
(* A site again *)

\* site_new.  Site ids are handed out like row ids: the site created after the last
\* one was deleted has its id, and its directory with whatever is left there.
CreateSite(site, p) ==
    /\ \A s \in sites : s < site
    /\ site = 1 \/ site - 1 \in sites
    /\ aborts + created < MaxUpsets
    /\ created' = created + 1
    /\ sites' = sites \cup {site}
    /\ policy' = [policy EXCEPT ![site] = p]
    /\ asked' = asked \ ({site} \X Scopes)
    /\ overdue' = overdue \ ({site} \X Scopes)
    /\ former' = former \cup {x.name : x \in {x \in ever : x.site = site}}
    /\ UNCHANGED <<rows, parts, bins, whole, used, clock, request, aborts, ever, pruned,
                   interrupted, missed>>

-----------------------------------------------------------------------------
(* The environment *)

\* The worker is killed, or the database refuses the commit: nothing is undone.
Abort(r) ==
    /\ pc[r] # "idle"
    /\ aborts + created < MaxUpsets
    /\ aborts' = aborts + 1
    /\ interrupted' = interrupted \cup doomed[r]
    /\ overdue' = IF job[r].kind = "upload" /\ pc[r] \in {"committed", "unlinking"}
                  THEN overdue \cup {<<job[r].site, job[r].scope>>}
                  ELSE overdue
    /\ Finish(r)
    /\ UNCHANGED <<store, clock, ever, pruned, asked, missed, former, created>>

\* The operator edits the retention of a site, or the default it inherits; nothing
\* is pruned until the next upload.
ChangePolicy(site, p) ==
    /\ site \in sites
    /\ p # policy[site]
    /\ policy' = [policy EXCEPT ![site] = p]
    /\ overdue' = overdue \cup ({site} \X Scopes)
    /\ UNCHANGED <<sites, rows, parts, bins, whole, used, clock, request, aborts, ever,
                   pruned, interrupted, asked, missed, former, created>>

Tick ==
    /\ \E n \in Times : n > clock /\ clock' = n
    /\ UNCHANGED <<store, request, history>>

Step(r) ==
    \/ \E site \in Sites, scope \in Scopes, name \in Names :
           StartUpload(r, site, scope, name)
    \/ FinishPart(r)
    \/ WriteFails(r)
    \/ Place(r)
    \/ CommitRow(r)
    \/ SiteGone(r)
    \/ Prune(r)
    \/ \E x \in rows : StartDelete(r, x)
    \/ \E site \in Sites : StartSiteDelete(r, site)
    \/ \E x \in pending[r] : UnlinkBlob(r, x)
    \/ CommitDeletes(r)
    \/ CommitSiteDelete(r)
    \/ Abort(r)

Next ==
    \/ \E r \in Requests : Step(r)
    \/ \E site \in Sites, p \in Policies : ChangePolicy(site, p)
    \/ \E site \in Sites, p \in Policies : CreateSite(site, p)
    \/ Tick

Spec == Init /\ [][Next]_vars

-----------------------------------------------------------------------------
(* Properties *)

Uploading(r) == job[r] # NoJob /\ job[r].kind = "upload"
Quiet == \A r \in Requests : pc[r] = "idle"

TypeOK ==
    /\ sites \in SUBSET Sites
    /\ policy \in [Sites -> Policies]
    /\ rows \in SUBSET Row
    /\ parts \in SUBSET (Sites \X Names)
    /\ bins \in SUBSET (Sites \X Names)
    /\ whole \in SUBSET Names
    /\ used \in SUBSET Names
    /\ clock \in Times
    /\ pc \in [Requests -> {"idle", "writing", "written", "placed", "committed", "unlinking"}]
    /\ job \in [Requests -> {NoJob} \cup Upload \cup Delete \cup SiteDelete]
    /\ doomed \in [Requests -> SUBSET Row]
    /\ pending \in [Requests -> SUBSET Row]
    /\ aborts \in Nat
    /\ ever \in SUBSET Row
    /\ pruned \in SUBSET Row
    /\ interrupted \in SUBSET Row
    /\ asked \in SUBSET (Sites \X Scopes)
    /\ overdue \in SUBSET (Sites \X Scopes)
    /\ missed \in SUBSET Names
    /\ former \in SUBSET Names
    /\ created \in Nat
    /\ aborts + created <= MaxUpsets

\* A listed backup can be downloaded: its blob is on disk, unless a request is
\* about to delete the row, or was cut short after it had begun to.
RowHasBlob ==
    \A x \in rows : \/ Blob(x) \in bins
                    \/ x \in interrupted
                    \/ \E r \in Requests : x \in doomed[r]

\* Every .bin was written to the end: a worker killed mid-write leaves a .part,
\* "never a plausible-looking .bin" (storage.py:88-92).
BinIsWhole == \A b \in bins : b[2] \in whole

\* Retention never picks the newest backup of a site and scope: whatever it
\* deletes, a newer backup of the same site and scope had been stored
\* (retention.py:5-6), whatever uploads and policy changes run beside it.
NewestKept ==
    \A x \in pruned : \E y \in ever : y.site = x.site /\ y.scope = x.scope /\ Newer(y, x)

\* When uploads have settled, what a site keeps is what its policy keeps: the
\* overlapping prunes of concurrent uploads leave no loser behind.  A prune that
\* was cut short, or a policy edited since, is made good by the next upload.
Settled ==
    Quiet => \A site \in Sites, scope \in Scopes :
                 <<site, scope>> \notin overdue
                     => Losers(RowsOf(site, scope), policy[site]) = {}

\* Rows belong to sites that exist (the foreign key), and ids are unique among them.
Referential ==
    /\ \A x \in rows : x.site \in sites
    /\ \A x, y \in rows : x.id = y.id => x = y

\* No blob is left without a row that names it, except where an upload was under way
\* while its site was deleted, and where a deletion took, by its id, a row that had
\* taken the id of one it had listed.  CHANGELOG.md:225-226 promises it of every site
\* deletion.
BlobsAreAccountedFor ==
    Quiet /\ aborts = 0 =>
        \A b \in bins : b[2] \in missed \/ \E x \in rows : Blob(x) = b

\* What has been stored for the site that has this id now.
Current(site, scope) ==
    {x \in ever : x.site = site /\ x.scope = scope /\ x.name \notin former}

\* Nobody asked for a deletion there, and none missed its target.
Spared(site, scope) ==
    /\ <<site, scope>> \notin asked
    /\ \A x \in ever : x.site = site /\ x.scope = scope => x.name \notin missed

\* "never wipe a site to zero by accident" (retention.py:72-73): a site and scope that
\* has stored a backup has one, unless somebody asked for a deletion there.  Ids that
\* come back are the exception: of a row, to a prune that had listed the old one, or
\* of a site, to the second of two requests that delete the old one.
NeverEmptied ==
    \A site \in Sites, scope \in Scopes :
        Spared(site, scope) /\ Current(site, scope) # {} => RowsOf(site, scope) # {}

(* The inductive invariant: what the code relies on between the steps. *)

\* Each request slot is coherent: who deletes what, and when.
Slots ==
    \A r \in Requests :
        /\ pc[r] = "idle" <=> job[r] = NoJob
        /\ Storing(r) \/ pc[r] = "committed" => job[r] \in Upload
        /\ doomed[r] # {} => pc[r] = "unlinking"
        /\ pending[r] \subseteq doomed[r]

\* A stored_name belongs to one upload only, from its .part to its row.
OneUploadPerName ==
    /\ rows \subseteq ever
    /\ \A r \in Requests : doomed[r] \subseteq ever
    /\ \A x \in ever : x.name \in used
    /\ \A x, y \in ever : x.name = y.name => x = y
    /\ \A r \in Requests : Storing(r) =>
           /\ job[r].name \in used
           /\ \A x \in ever : x.name # job[r].name
           /\ \A q \in Requests : Storing(q) /\ job[q].name = job[r].name => q = r

\* An upload that is about to commit its row has its blob, written to the end.
BlobBeforeRow ==
    \A r \in Requests :
        /\ pc[r] \in {"written", "placed"} => job[r].name \in whole
        /\ pc[r] = "placed" => Blob(job[r]) \in bins

\* A prune deletes backups of its own site and scope only.
PruneStaysInScope ==
    \A r \in Requests : Uploading(r) =>
        \A x \in doomed[r] : x.site = job[r].site /\ x.scope = job[r].scope

\* Rows that no prune in progress is about to delete.
Remaining(site, scope) ==
    {x \in RowsOf(site, scope) : \A r \in Requests : Uploading(r) => x \notin doomed[r]}

\* A site and scope is settled but for the prunes in progress, or an upload that has
\* committed its row is about to prune it, or its prune is overdue.
Covered(site, scope) ==
    \/ <<site, scope>> \in overdue
    \/ \E r \in Requests :
           pc[r] = "committed" /\ job[r].site = site /\ job[r].scope = scope
    \/ Losers(Remaining(site, scope), policy[site]) = {}

SettledButForPrunes == \A site \in Sites, scope \in Scopes : Covered(site, scope)

IInv ==
    /\ TypeOK
    /\ Slots
    /\ OneUploadPerName
    /\ BlobBeforeRow
    /\ RowHasBlob
    /\ BinIsWhole
    /\ NewestKept
    /\ Referential
    /\ PruneStaysInScope
    /\ SettledButForPrunes

(* Why a site is never emptied: its newest backup stays. *)

\* No row is left of an earlier site of the same id.
RowsAreCurrent ==
    /\ \A x \in rows : x.name \notin former
    /\ former \subseteq {x.name : x \in ever}

\* Whatever a prune is about to delete, a newer backup of the same site has been stored.
CondemnedHaveNewer ==
    \A r \in Requests : Uploading(r) =>
        \A x \in doomed[r] : \E y \in ever :
            /\ y.site = x.site /\ y.scope = x.scope
            /\ Newer(y, x)
            /\ y.name \in former => x.name \in former

\* Whatever else is about to be deleted, somebody asked for.
CondemnedWereAsked ==
    \A r \in Requests : ~Uploading(r) =>
        \A x \in doomed[r] : x \in rows => <<x.site, x.scope>> \in asked

NewestIsThere ==
    \A site \in Sites, scope \in Scopes :
        Spared(site, scope) /\ Current(site, scope) # {} =>
            \E x \in RowsOf(site, scope) : \A y \in Current(site, scope) : ~Newer(y, x)

KeepsInv ==
    /\ IInv
    /\ RowsAreCurrent
    /\ CondemnedHaveNewer
    /\ CondemnedWereAsked
    /\ NewestIsThere

(* Why no blob is forgotten: what becomes of each. *)

\* A blob that a deletion has unlinked is not put in place again.
UnlinkedStayGone ==
    \A r \in Requests : \A x \in doomed[r] \ pending[r] : Blob(x) \notin bins

\* An upload to a site that has been deleted since was under way at the time.
OrphansAreMissed ==
    \A r \in Requests :
        Storing(r) /\ job[r].site \notin sites => job[r].name \in missed

BlobsHaveAFate ==
    aborts = 0 =>
        \A b \in bins : \/ b[2] \in missed
                        \/ \E x \in rows : Blob(x) = b
                        \/ \E r \in Requests : pc[r] = "placed" /\ Blob(job[r]) = b

BlobsInv ==
    /\ IInv
    /\ UnlinkedStayGone
    /\ OrphansAreMissed
    /\ BlobsHaveAFate
=============================================================================
