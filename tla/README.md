# Verification of tspro-backup

TLA+ models of the backup server in `src/app/`, checked with TLC on small
instances, and proofs checked with TLAPS for every value of the constants.
Line numbers below are those of the source at the commit that the models were
written from; `PROJECT.json` maps every definition to the lines it models.

## The system

A Flask application serves two kinds of clients: *sites* (TS Pro instances),
which authenticate with an API key and upload archives, and *operators*, who
sign in to a console. It runs as gunicorn with **two worker processes of four
threads** (`Dockerfile:28`), so every handler runs concurrently with itself, in
the same process and in another. All workers share one SQLite database and one
data directory; nothing else is shared between processes.

| Part | Source | State | Operations |
|---|---|---|---|
| Backup vault | `api.py`, `storage.py`, `routes.py` | tables `site`, `backup`; `DATA_DIR/storage/site-N/*.bin`, `*.part` | ingest an upload, delete a backup, create and delete a site, edit a policy |
| Retention | `retention.py` | none of its own | which backups of a site and scope a policy keeps; the prune after each upload |
| Chunked upload | `api.py` | `DATA_DIR/upload-chunks`, per-process table of locks, reaper threads | chunk, finalize, reap |
| Data volume | `api.py`, `storage.py` | free space, bytes of a site, `DATA_DIR/tmp` | capacity check, temporary copies, download, sweep |
| Site keys | `models.py`, `routes.py`, `api.py` | `site.e2ee_*`, table `one_time_secret`, session cookies | rotate, reveal once, acknowledge; `/ping`, label at ingest |
| Remote restore | `api.py`, `routes.py`, `restore_push.py` | `site.restore_*` columns | register, pin, confirm, push |
| Login lockout | `loginguard.py`, `auth.py` | table `login_attempt` | check, record, clear, prune |
| Accounts, sessions | `auth.py`, `routes.py`, `__init__.py` | table `admin_user`, tokens | sign in, create, delete, change password, force a change |
| Generate-once keys | `restenc.py`, `crypto.py`, `__init__.py` | `rest.key`, `secret.key`, `session.key` | read or create |
| Boot | `__init__.py`, `models.py` | schema, settings row, first admin | create, migrate, seed |

How they interact:

- `upload` and `upload_finalize` call `ingest()`, which writes a `.part` file,
  renames it, commits a row and calls `prune_site_scope()`; the prune unlinks
  blobs and then commits the deletion of their rows. File system and database
  have no common transaction.
- `upload_chunk` and `upload_finalize` share a staging directory, under a lock
  that lives in one process. The reaper of every process removes stale
  directories without that lock, and sweeps stale files of `DATA_DIR/tmp`.
- Every upload, chunk and finalize asks the same capacity check for room, of a
  volume that downloads write to as well.
- Console and API meet in the `site` row: a request reads it, decides, and
  commits only the columns it has changed.
- `ingest()` labels an archive with the site's current public key; the client
  got its key earlier, from `/ping`. It seals it with `rest.key`, which the first
  archive makes.
- Every worker runs `create_app()` before it serves, on the same data directory,
  possibly while another worker serves already.

Behaviours that are hard to test: the interleavings of handlers between two
system calls or between a read and a commit, in one process or two; a worker
killed anywhere; answers lost, chunks late or twice; the reaper against a live
upload; ids that come back after a deletion. `PROJECT.json` lists them under
`hazards`, each at its line, with the properties that are about it.

What makes each part correct:

- vault: a row has its blob, a blob is whole, rows are referential; no blob is
  left behind by a deletion; no site is emptied by prunes;
- retention: what is kept is what the policy says; the newest backup stays;
- chunked upload: what is stored is every chunk, whole, once; the client is told
  the truth; staging is reclaimed; nobody waits for ever;
- data volume: the quota and the margin are overshot by a bounded amount, and so is
  what failures strand;
- site keys: a private key is shown once, to who asked for it, and is then gone; it is
  not lost before; the label is about the key it seems to be about;
- remote restore: a restore goes to an endpoint that the site published and an
  operator confirmed, and the pin holds;
- lockout: concurrency cannot evade it by more than the number of concurrent
  requests, the end of the lock and the wait that is told are right, maintenance
  unlocks nobody;
- accounts: an admin remains, the shipped password is never usable unmarked, a
  changed password ends the sessions of before;
- keys and boot: a key that something depends on is on disk, no worker serves an
  incomplete schema, and the workers get up.

## Modules

| Module | What it is |
|---|---|
| `Retention` | What a policy keeps, as a set, without an order of evaluation (`survivors`, `prune_site_scope`). Definitions only. |
| `RetentionLoop` | The loop of `survivors()`, a step per iteration, shown to compute `Survivors`. |
| `Vault` | Rows, blobs, `.part` files, uploads, prunes, deletions, sites. Extends `Retention`. |
| `UploadSession` | What a chunked upload promises its client: chunks received, archives stored, told or not. |
| `ChunkedUpload` | The handlers, locks, staging directory and reapers; implements `UploadSession`. |
| `Volume` | Sizes: the capacity check, and every file it has or has not in view. |
| `SiteKeys` | Key rotation with its one-time reveal, and the label of an upload. |
| `RemoteRestore` | Registration, pin, confirmation and push. |
| `LoginGuard` | The lockout around the password check. |
| `Accounts` | Users, tokens, and the part of `create_app()` that seeds them. |
| `KeyFile` | Look, read, open, write: the three key files. |
| `Boot` | `create_app()` in every worker, and threads that seal archives. Extends `KeyFile`. |
| `DataDirProofs` | Theorems about `Boot` with `KeyFile`, and about `Volume`. |
| `VaultProofs`, `ChunkedUploadProofs`, `AccountsProofs`, `RetentionLoopProofs`, `SiteKeysProofs`, `RemoteRestoreProofs`, `LoginGuardProofs` | Theorems about the module of the name; `VaultProofs` also about `Retention`. |
| `MC*` | Constants and symmetry for TLC. |

Conventions. A request is a slot with a program counter; each action is one
system call, one transaction, or a piece of a handler that only its own thread
can see. Names, archives, keys, URLs and tokens are model values or numbers.
Variables under "history" do not exist in the code; properties are stated
with them. Definitions preceded by "Mutant of" are not part of the model: each
is a plausible bug that the property it was made for is known to detect.

### Vault

`rows`, `parts` and `bins` are the table and the two kinds of files. An upload
goes `StartUpload` (the `.part` is created), `FinishPart`, `Place` (the rename),
`CommitRow`, `Prune` (policy and rows are read, losers picked), `UnlinkBlob` for
each loser, `CommitDeletes`. A deletion enters at `unlinking`. `Abort` cuts a
request short anywhere: a killed worker, or a commit the database refuses, which
leave the same state. `FreshIds` is SQLite's rule for an `INTEGER PRIMARY KEY`
without `AUTOINCREMENT`: the id of a deleted last row is handed out again, and
`CommitDeletes` deletes by id, as the ORM does. `CreateSite` follows the same
rule for sites, whose directory of blobs is named after the id: an upload, a
prune or a second deletion that began under the deleted site goes on against the
new one. `SiteGone` is the foreign key.

`missed` holds the names that a deletion took, or that were being uploaded under
it, without its having listed them, and `former` those stored for an earlier
site of the same id. With them `BlobsAreAccountedFor` and `NeverEmptied` say
exactly what the reuse of ids costs. Left out: the staging directory of the site,
which `site_delete` removes as the reaper does (`ChunkedUpload`), encryption at
rest (`Boot`), and room (`Volume`).

### ChunkedUpload

One upload of `N` chunks under one `upload_id`. `table` and `holder` are
`_upload_locks` of each process and the locks in it. A request is first on its way
(`arriving`): its body is received and its form checked, for as long as that takes,
or it is lost or turned away (`TurnAway`). Then it looks its lock up (`Lookup`),
waits for it (`Acquire`), and is inside. These are steps of their own because
`Conclude` drops the lock from the table (`DropLock`): who waits keeps the lock it
has found, who is still on the way will make a new one. A chunk is created
(`MakeStaging`), opened and so truncated (`OpenChunk`), and written (`SaveChunk`); a
chunk whose writer died, or whose save raised in the middle (`SaveFails`), stays `torn`.
Finalize reads the chunks one by one, stores, and removes the directory file by
file (`CleanFile`, `RemoveDir`), as `ReapFile` and `ReapEnd` do in the reapers.
`StoreRaisesLate` is an `ingest()` that raises in its prune, after its commit.
`Age` makes the directory older than its TTL. The client (external) re-sends
what is not acknowledged and starts over when an error tells it to.
Three variables are history. `revived`: a chunk has brought the directory back after
the archive was stored. `undone`: the write of a chunk has been cut short, by a kill or
by `save()` raising, that the client counts as received or that a finalize in flight is
going to read. `orphaned`: a lock has been dropped while another request of its process
waited for it.

### Volume

Sizes are units of archive, `Free` is what the files that exist leave of `Disk`.
`Fits` is `_capacity_error`, which leaves the disk out when it cannot be asked and
the quota when there is none; `blind` is history: a write has been admitted without
the disk. A direct upload writes its temporary copy before it is checked (`Receive`,
`Check`); a chunk is estimated, written over the one it replaces, and checked for what
it has added (`Estimate`, `SaveChunk`, `KeepChunk`); its `content_length`, a little
more than the chunk, is taken as its size. A finalize needs room for two copies
(`Finalize`, `Assemble`). `WritePart` and `Commit` are `ingest()`. A download decrypts
into `DATA_DIR/tmp` and asks for nothing. Files that no request owns any more are
counted as strays: `strayUp` and `strayDown` in `tmp`, of which `SweepTmp` removes
any part at any time (those older than the TTL, whichever they are), and `stranded` in
`storage`, which nothing removes. All archives are one site's, the worst case for its
quota.

### SiteKeys

Keypairs are numbers in order of generation. SQLite gives the right to write to
one transaction at a time, with its first write: `writer`. `OneTimeSecret.pop()`
sweeps expired rows first, so it reads its row under that right (`PopRead`); this
is why `ShownOnce` holds, and the mutant that reads before it writes breaks it.
`Rotate`, `CommitRotation`, `Stash` and `Redirect` are the steps of
`site_rotate_keypair`. An upload asks for the key (`Ping`), which is null for a site
without one, and encrypts to it or not; the gate may turn it away (`Refuse`); it is
labelled with what is current later (`Label`, `Ingest`). History: `overtaken`, the
uploads that a rotation has passed; `crossed`, the browsers whose requests have
overlapped, whose one cookie holds the nonce of the last answer only; and `lost`, the
private keys that a kill or the TTL has taken. Left out: the reminder that
`site_ack_key` switches off, which carries no keypair.

### RemoteRestore

`Saved(old, new)` is a commit of the ORM: columns in which `new` differs from
what was read are written, the others keep what somebody else may have put
there. The token is encrypted afresh and so is always written. `Look` is the
GET of the restore page, `SubmitChanged` and `SubmitUnchanged` the POST,
`CommitAck` the confirmation, `Reload` the reads of `push_restore` after the
commit has expired the row. `Overlap` bounds how many requests are between a
read and a commit. `moved` and `mixed` are history: endpoints that a registration
put in place of one being confirmed, and endpoints that overlapping registrations
left, each with the part of its own.

### LoginGuard

`Admit` is `check_locked`, `Succeed`, `Fail` the verdict with `clear` or
`record_failure`, `Prune` the separate transaction after it. Any number of
requests can be between `Admit` and the verdict. The clock is in half-seconds, so that
the conversion of the wait loses something: `RetryAfter` drops the fraction of a second
and adds one, `Minutes` rounds to minutes, a half to even, and to one at least.

### Accounts

`users` is the table by id, `tokens` every session or remember cookie there has
been (a copied cookie is accepted as long as it matches). Workers boot through
`SeedNeeded`, `SeedAdmin`, `FindDefaults`, `FlagDefaults`, or go on without the last two
when an exception is swallowed (`FlagFails`). Requests verify a password and then make a
token of the row as it is by then (`VerifyPassword`, `LoginUser`), change a password with the epoch they have read
(`LoadForChange`, `CommitChange`), add and delete users (`CheckName` ... `CommitDelete`). A token
records in `proof` the password its bearer knew. The rest is history. `excused` marks
the tokens of an older password that the code accepts, and is set only where an overlap
makes it do so: on a token made by a sign-in whose password has been changed since it was
verified (`overtaken`), on the tokens of an account when a change commits an epoch on top
of one that it had not read, and on those of an id that is handed out again. An orderly
change excuses nothing. `raced` marks the two orders of steps after which there may be no
admin, or an unmarked shipped password, and `skipped` the accounts that an exception kept
from being marked.
`Ids` bounds the ids there can be. A row comes with a new password or from a boot,
and of boots each worker has its first and as many as there are restarts: a worker
that seeds late puts the shipped password back in a row of its own, after another
has. With two workers ids stay below this, with three and one request they need not.

### KeyFile and Boot

`Look`, `ReadKey`, `OpenKey` (which truncates), `WriteKey` are what the three
resolvers have in common; only the one of `session.key` makes a new key in place
of an empty one (`Heals`). A `Boot` worker takes `session.key` and `secret.key`,
creates missing tables and adds missing columns, inserts the settings row, looks for
accounts, and serves; a worker that fails makes gunicorn stop them all (`Halt`),
`KillWorker` stops one. The database can refuse any of this. An `ALTER` that is refused
is swallowed, and so is an error of the migration (`AddColumnFails`, `MigrationFails`;
`skipped` has the columns); anywhere else it ends the boot (`BootFails`), as does a query
of a table that a skipped column is missing from (`Whole`). `BootInit` has an empty data
directory and every one of an earlier release. The behaviours are
those of `BootSpec`, with fairness `FairSpec`.

## Runs

"Holds" means that TLC has explored every state of the instance.

| Run | Question | Instance |
|---|---|---|
| `loop` | Does `survivors()` return what the policy promises? | every subset of six backups, two at the same time, ids out of order; two tiers, counts -1..3 |
| `vault_core` | Do rows, blobs and retention agree, with ids that come back? | one site, one scope, three uploads, two requests, one upset, two policies edited at any time |
| `chunked_patient` | Does the upload keep the promises of `UploadSession`? | one request at a time, two processes, two chunks, a kill, a lost answer, a late failure, six requests |
| `chunked_overlap` | How far is finalize single-shot under the lock, is every request answered, is staging reclaimed? | one process, three overlapping requests, one chunk, a kill, saves that raise, five requests |
| `login_guard` | Does the lockout stand overlapping sign-ins? | two users, two addresses, two requests, threshold 2, window of two minutes, steps of 29.5 and 31 seconds, four failures |
| `site_keys` | Is a private key revealed once, to whom it is for, and not lost before; is the label right? | two browsers, three requests, two keypairs, one upload |
| `remote_restore` | Where can the private key go, and what can be on file? | two URLs on two hosts, two tokens, two clients, one operator, overlap 2, four changes |
| `accounts` | Do admins, sessions and the shipped password survive concurrency? | two workers, two requests, two names, two passwords set, two restarts, any marking that fails |
| `boot` | Do two workers get up on any data directory, and keep their keys? | two workers, two threads, three tables with a column each, a kill, an error of the database |
| `volume` | How far past quota and margin, and what stays? | two requests, archives of 1 and 2, overhead 1, quota 2, disk 14, margin 8, two faults |
| `chunked_two_processes` | the same lock with two processes | two requests, one chunk: violated |
| `keys_made_twice` | two threads make `rest.key` | two workers, two threads, no kill: violated |

Why the bounds are enough. Three uploads of one scope are what an id needs to be
handed out, freed and handed out again under a prune that is under way; two
requests are what a race needs, and a third makes a waiter behind a waiter. Two
chunks tell "missing", "torn" and "in the wrong order" apart; for the lock one is
enough. A window of two minutes and four failures lets the threshold be overshot and
age out in parts; steps of 29.5 and 31 seconds reach waits on both sides of where seconds
and minutes are rounded. Times in `Vault` are two days of one week; the policies keep one
day, or two. Four changes of the endpoint are a registration, the one that
overlaps with it, a pin and one that was checked before the pin. Two passwords beside the
shipped one let an account be created, its id come back, and be changed; two restarts are
a worker that seeds late and one that fails to mark what it has seeded. An error and a
kill in `boot` let a worker skip a column, or fail, while another is at any point. In
`Volume` the overshoot of the quota reaches its bound. Its margin of 8 is exactly `Unseen`
for archives of 2 without a fault, and covers archives of 1 with both faults (7); of the
behaviours beyond these `AdmittedFits` says nothing, and the proof has no bound on sizes
or faults.

`MaxUpsets` bounds requests cut short and sites created together, so that the
instance has either one crash or one site that comes back and never both. The
combination, and more sites, scopes, uploads and requests, are left to the proofs,
which hold for any. `Procs`, `MaxRequests`, `MaxKills`, `MaxLost`, `MaxLate`,
`MaxErrors`, `MaxFailures`, `MaxTime`, `MaxKeys`, `MaxChanges`, `Overlap`,
`MaxPasswords`, `MaxRestarts` and `MaxFaults` are bounds too; each is named where it is declared.

Deadlock is not checked: every instance has a finite supply of uploads,
requests, keys or time and stops when it is used up, and in `Boot` the workers
that serve have nothing left to do. That a *request* cannot be stuck is
`Answered`, that a *worker* cannot is `BootsInTheEnd`.

Fairness. `chunked_overlap`: a thread that can take its next step does, whichever
requests the lock admits; the timer of every reaper fires and its sweep goes on;
a directory that is left alone gets old. `boot`: workers and threads are
scheduled, and a container that has stopped is restarted; the errors of the database
and the kills are no part of it, and are bounded. The scheduling is what the operating
system and gunicorn give; the timers are the `while True` of `start_chunk_reaper`. Its
sweeps catch `OSError`, which is all that listing, timing and unlinking files raise;
anything else would end the thread, and with it the timer. The restart is
`restart: unless-stopped`; aging is the clock. The other runs state no liveness and
assume none. No fairness is assumed of clients, operators, kills, or lost answers.

### Where code and documentation disagree

Two runs state what a comment or docstring says, and TLC shows a behaviour of
the code that does not agree; `PROJECT.json` quotes the lines.

| Run | What happens |
|---|---|
| `chunked_two_processes` | Two finalizes in two processes take two locks and store two copies. |
| `keys_made_twice` | Two uploads that both find `rest.key` missing seal with two keys; the archive of the first is unreadable. |

The other disagreements are part of properties that hold: each names the exact
exception, so that TLC and the proofs show that there is no other.

- `NeverEmptied`: two prunes list the same losers; the first deletes them, a new
  backup takes a freed id, and the second deletes it by id, which can leave a site
  without a backup. The second of two deletions of a site wipes the site that has
  been created under its id.
- `BlobsAreAccountedFor`: the same, and a site deleted under an upload, leave a
  blob without a row.
- `LockExcludes`: "only now is it safe to forget its lock" (`api.py:611`) is not so while
  a request waits for it. A finalize drops the lock, the waiter takes the dropped one, a
  request that was still being received makes another, and two requests are inside at
  once, in one process. The finalize need not have succeeded. A new `upload_id` after an
  error does not keep a client from this: what it sent under the old one, a retry or a
  late copy of a chunk, is enough.
- `StoredWhole`: a chunk sent twice at once, one copy acknowledged (or the finalize on its
  way) and the other cut short by a kill or by a `save()` that raises, is stored torn if
  no one sends it again; and what follows a lock dropped under a waiter.
- `StoredOnce`: a chunk that is late brings the directory of a stored upload back, and
  again what follows a lock dropped under a waiter.
- `CurrentKeyIsHeld`: a kill after the commit of a rotation, and the TTL of the stash,
  lose a private key whose public half is current; and so do two requests of one browser
  that overlap, for its session cookie holds one nonce and the later answer replaces it.
- `LabelNamesKey`: an archive encrypted before a rotation and ingested after it is
  labelled with the new key.
- `PushedToVerified`: a registration between confirmation and push moves the push
  to an endpoint that nobody confirmed.
- `EndpointWasPublished`: overlapping registrations leave the URL of one with the
  token of another; one that turns remote restore off and overlaps with one that
  turns it on can leave an endpoint on file while it is off.
- `PinHolds`: a registration checked before the pin is set moves the URL after it.
- `FailuresAreNotForgiven`: the head of the module says that a successful sign-in clears
  "that username's and that IP's failures" (`loginguard.py:15`); `clear()` forgets those
  of the user name only, on purpose (`loginguard.py:102-105`), and the property says so.
- `ToldWaitIsClose`: the wait a client is told is rounded to minutes. It can come back
  half a minute too early, or be told a minute when less than that is left.
- `SessionsAreCurrent`: a sign-in verified before a password change is given a
  token of after it; two overlapping changes both write the same epoch; a new
  account has the id and epoch of a deleted one.
- `LastAdminStays`, `DefaultIsGated`: two admins delete each other on one count; a
  worker that found the table empty inserts the first admin after another worker
  has served and that admin has been deleted, with the shipped password once more. Any
  exception while accounts are marked is swallowed (`__init__.py:259-260`), and the worker
  serves the shipped password unmarked.
- `SchemaComplete`: "the loser's error is benign" (`__init__.py:293-295`), but every other
  error of the `ALTER` is swallowed with it (lines 301-302), and one of the whole
  migration at 336-339: a worker may serve without a column of a table that the boot
  itself does not read.
- `BootsInTheEnd`: a kill between the open and the write of `secret.key` leaves it
  empty, and every boot after it raises.
- `AdmittedFits`: the margin must cover `Unseen`, some two of the largest archives sent so
  far for each thread, and the disk must have been asked. The default margin is 256 MiB
  whatever the size of an archive may be: with eight threads it covers archives of 15 MiB
  and a fault, not those of gigabytes that the server accepts.
- `StrandedIsBounded`: a killed ingest leaves its `.part`, a failed commit its blob;
  nothing sweeps `storage`.

## Proofs

Assumptions are the named `ASSUME`s of the modules: finitely many calendar
buckets and requests, integer times and counts, model values that are distinct
from what they stand beside. TLC evaluates them in each run.

- **`VaultProofs`**. `IInv` is inductive: `TypeOK`, `Slots`, `OneUploadPerName`,
  `BlobBeforeRow`, `RowHasBlob`, `BinIsWhole`, `NewestKept`, `Referential`,
  `PruneStaysInScope`, `SettledButForPrunes`. The properties alone are not:
  `RowHasBlob` needs that an upload about to commit has its blob, which needs
  that no other upload and no deletion shares its name; `Settled` needs to count
  what the prunes in progress are going to delete (`Remaining`), because two
  overlapping prunes each see losers that the other one deletes. The step that
  makes this work is about `Survivors`: pruning the losers does not turn a survivor
  into a loser, so that a prune of what a prune has left deletes nothing
  (`PruneIsIdempotent`). Proved for any number of sites, uploads, requests and
  upsets, any policies and any calendar.
  `NeverEmptied` follows from `KeepsInv`: of what has been
  stored for a site and scope that nobody asked to delete from, the newest still
  has its row, and what a prune is going to delete has something newer beside it
  (`CondemnedHaveNewer`). A row is lost to a prune only with a newer one left, and
  to an id that came back only as one of `missed`.
  `BlobsAreAccountedFor` follows from `BlobsInv`: every blob has a fate
  (`BlobsHaveAFate`): a row, an upload that is about to commit one, or `missed`. A
  row goes only after its blob is unlinked, and what has been unlinked stays gone
  (`UnlinkedStayGone`), because only the rename of its own upload puts a name in
  place, and names are used once.
- **`ChunkedUploadProofs`**. `TypeOK` for every configuration, and three more
  invariants, the last two under hypotheses that are those of their theorems:
  - `LockInv`, for any client, processes and overlap: until a lock is dropped with a
    request waiting (`orphaned`), the requests of a process that have looked their lock up
    find it in its table (`LocksAreTabled`), and who is inside holds its own
    (`HoldersAreInside`). `LockExcludes` follows. A request on its way has no lock, which
    is why it does not disturb this.
  - `PatientInv`, for a client that waits for every answer (`Overlap <= 1`), through
    any number of kills, lost answers, late failures and processes: a chunk that is
    acknowledged is never rewritten (`AckedAreWhole`), so nothing torn is stored
    (`broken = 0`, more than `StoredWhole`), every copy is owed to a fault or is the
    one to be told of (`CopiesCounted`), and each step is a step of `UploadSession` or
    invisible to it (`ImplementsSession`).
  - `SingleInv`, for one process, any client and any overlap, until a lock is dropped
    with a request waiting: a file half written is being written under the lock
    (`WritersAreInside`), a torn file is one that nobody counts on, or `undone`
    (`TornAreUndone`), and what has been stored is off the staging directory before
    the lock is free (`StoredIsCleaned`). `StoredWhole` and `StoredOnce` follow. With
    two processes `StoredOnce` fails, as the run `chunked_two_processes` shows.
- **`RetentionLoopProofs`**. `LoopInv` says that `seen` holds the buckets of the
  list so far and `keep` the picks of the tiers so far. The early `break` is
  right because a bucket at the limit can only be followed by claimed buckets or
  older ones; this is where most of the proof goes.
- **`SiteKeysProofs`**. `IInv` adds to `ShownOnce` and `ShownIsDestroyed` that
  a new keypair is known to the request that made it only (`FreshIsPrivate`), that
  the write lock is held between the read of a row and its deletion
  (`PopIsExclusive`), that at most one request is about to show a key, which
  is off the server by then (`ShowIsExclusive`), that a key in a cookie or request
  was asked for by its browser (`KnownToMinter`), that a browser whose requests do not
  overlap has the nonce its request came with, and has rotated to the current key or
  been followed by another browser (`OneByOne`, for `CurrentKeyIsHeld`), and that an
  upload goes with the current key, or with none, unless it has been overtaken
  (`UploadsFollowKey`).
- **`RemoteRestoreProofs`**. `IInv` follows an endpoint from the row that is
  confirmed (`ConfirmsWhatIsOnFile`) to the row that is read again
  (`ReloadsWhatIsConfirmed`) and to the push (`TargetIsVerified`), and says of
  every registration under way that it has passed the check against the pin it has
  read (`CheckedAgainstPin`). Proved for any `Overlap`, any number of clients and
  operators; `PinHolds` is an action property and follows from the last conjunct.
- **`AccountsProofs`**. `LastAdminStays` follows from two facts beside it: who is about
  to delete has counted an admin that it does not delete (`DeletersLeaveOne`), and a
  worker goes on from an empty table only by seeding an admin (`SeededOnce`); that a
  new user is never the first one needs that a request is served by a worker that has
  booted (`HomesServe`). `DefaultIsGated` follows from `DefaultsAreFound`: there is
  one account with the shipped password at most that nobody has failed to mark, so the
  rollback of a worker that has found it deleted leaves none unmarked.
  `SessionsAreCurrent` rests on two more: no token is of an epoch that its account has yet
  to reach (`TokensAreOld`), so an orderly change, which adds one to the epoch it has read,
  ends them all; and a sign-in that nothing has overtaken was shown the password of now
  (`IssuersKnow`). `TypeOK` follows from `IdInv`: no id in a row, token, request or
  list of a worker is above `LastId`, which counts the passwords set, the restarts,
  and the workers that have nothing left to seed. Every insertion uses one of these
  up, and takes at most the id after the highest (`FreshIdIsNext`).
- **`LoginGuardProofs`**. `OvershootIsBounded` is inductive beside the types once
  it counts the sign-ins that have yet to fail: admission needs the count to be
  below the threshold on both axes, and a failure turns one of the two summands
  into the other. That a prune changes no count is the comparison of its cutoff
  with the window of the check; that only its own user forgives a failure is the
  shape of `clear`, step by step. For any threshold, window, users and overlap.
  `LockedUntilStaysExact` needs nothing but the types and that a table is finite: in a
  finite set of rows every rank from the newest is taken by one of them, as ranks are
  as many as rows and each row has its own (`EveryRankIsTaken`), so the row on which
  `AxisUntil` rests exists however far the threshold is overshot; the axis is
  locked as long as that row is in the window (`AxisUntilIsExact`), and a client as long as the later of its axes. `ToldWaitStaysClose`
  adds what the two roundings can move (`Rounding`).
- **`DataDirProofs`**, in three parts that share the data directory and no state.
  - `KeyInv`: as long as no two callers have been at it together (`twice`), one
    caller at most makes a file (`OneMaker`), and then there is no key in it yet;
    what has been kept, and what a caller is about to return, is under the key on
    disk or is empty. `KeysStayOnDisk` follows. That nobody is between look and
    write when the second comes is exactly what `keys_made_twice` shows the code
    does not ensure.
  - `SchemaInv`: what a worker takes for done is in the database at each place of
    `create_app()` (`WorkerInv`), or among the columns that an error has skipped. It is
    enough that tables, columns and the settings row, once there, are never taken away: a
    worker that loses a race for an `ALTER` goes on because the column is there.
    `SchemaIsComplete` follows for any tables and columns, any earlier release, and any
    number of workers, errors and kills.
  - `VolumeInv`: `QuotaInv` adds to what is used what the requests that have passed
    the check are going to use (`Promised`); the check sees none of it, so each
    thread but one can add an archive. `RoomInv` says, while an admitted write is
    under way, that what is free covers everything any request may still write
    before a check of its own (`Ahead`) and the copies that faults may leave; the sum
    of these is at most `UnseenOf`, which is where the bound comes from. It says so for
    every size `L` and number `F` of faults that have not been exceeded yet, because a
    write is admitted before it is known what will be sent after it. For any number of
    threads, sizes, limits and faults.

`Volume` sums over its requests, with a fold. What a fold computes is proved here
without a theorem of induction: the numbers for which a statement fails would have a
least one (`LeastNumber`, from the well-foundedness of `<`), and so would the subsets
of a finite set (`LeastSubset`). From this follows that the recursive equation of the
fold has a solution (`SumExists`), that a sum does not depend on the order
(`SumSplit`), grows with its terms (`SumMonotone`), and changes by the change of one
term (`SumUpdate`). That `FreshId` finds an id in `Accounts` is the same argument.

Only model-checked: liveness, for TLAPS does neither fairness nor `ENABLED`. These are
`Answered`, `StagingReclaimed` and `BootsInTheEnd`. The refinement of `UploadSession` is
checked and proved for one request at a time. The runs `chunked_two_processes` and
`keys_made_twice` refute what they state.

## What is not modelled

- The rotation of API keys: one column is overwritten, and the new key is revealed
  through the one-time secret that `SiteKeys` has.
- `e2ee_key_ack`, the reminder that a private key is to be saved: the confirmation
  carries no keypair, so there is nothing to relate it to.
- Usernames that differ in case only: names are atoms in `Accounts`.
- When a temporary file that nobody owns is swept: it is a comparison of its age.
- Logging out, the time of the last sign-in, renaming and toggling a site.
- Reads: dashboards and listings change nothing.
- Envelope formats, ciphers, TLS, templates, packaging and tools.

## Plan

1. *Done*: every part of the table above that keeps state has its module and runs;
   proofs about `Vault`, `ChunkedUpload`, `Retention`, `RetentionLoop`, `SiteKeys`,
   `RemoteRestore`, `Accounts` and `LoginGuard`.
2. *Done*: proofs about `Boot`, `KeyFile` and `Volume`; the wait of `LoginGuard`, the
   current key of `SiteKeys` and the types of `Accounts`. Every safety property of a run
   that passes has a theorem.
3. Proofs: which steps of `UploadSession` overlapping requests of one process keep.
