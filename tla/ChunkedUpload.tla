---------------------------- MODULE ChunkedUpload ----------------------------
(***************************************************************************)
(* Chunked upload of one archive under one upload_id (app/api.py): the     *)
(* chunk and finalize handlers, the staging directory they share, the      *)
(* per-process table of upload locks, and the reaper thread of every       *)
(* worker process.  The client slices the archive into N chunks, sends     *)
(* each until it is acknowledged, and then asks to finalize; on an error   *)
(* it starts over, as the error messages tell it to.                       *)
(*                                                                         *)
(* Every request runs in a thread of one worker process.  The lock table   *)
(* and its locks live in the memory of a process; the staging directory is *)
(* on the volume that all processes share.                                 *)
(***************************************************************************)
EXTENDS Integers, FiniteSets

CONSTANTS
    Procs,        \* gunicorn worker processes
    Requests,     \* request threads that may serve this upload at once
    N,            \* total_chunks
    None,         \* no process, no request, no chunk
    Overlap,      \* how many requests the client has in flight at most
    MaxRequests,  \* bounds the requests the client sends
    MaxKills,     \* bounds the kills of a worker process
    MaxLost,      \* bounds the answers lost on the way to the client
    MaxLate,      \* bounds the stores that raise after they have committed
    Reuse,        \* whether the client starts over under the same upload_id
    Aging         \* whether a staging directory may outlive its TTL

ASSUME ChunkedUploadAssumption ==
    /\ N \in Nat \ {0}
    /\ {Overlap, MaxRequests, MaxKills, MaxLost, MaxLate} \subseteq Nat
    /\ {Reuse, Aging} \subseteq BOOLEAN
    /\ IsFiniteSet(Requests)
    /\ None \notin Procs \cup Requests \cup Nat
    /\ Requests \cap {"none", "whole", "torn"} = {}

VARIABLES
    \* The staging directory upload-chunks/site-<id>/<upload_id>.
    dir,      \* it exists
    file,     \* each chunk file: "none", "whole", "torn" (its writer is dead), or
              \* the request that has truncated it and is still writing
    aged,     \* its mtime is older than the TTL
    \* The worker processes.
    table,    \* _upload_locks of each process: the lock of this upload, 0 if none
    holder,   \* which request holds each lock ever created, None if free
    reaping,  \* files the reaper of each process has listed and not yet unlinked
    sweeping, \* the reaper is inside rmtree of the staging directory
    \* The requests.
    pc,       \* where the handler of each request is
    home,     \* the process that serves it
    index,    \* the chunk it carries; None for a finalize
    lock,     \* the lock it has looked up
    next,     \* finalize: the next chunk to read
    sound,    \* finalize: every chunk it has read was whole
    listed,   \* finalize: files listed by rmtree and not yet unlinked
    \* The archives stored and the client.
    copies,   \* how many whole archives have been ingested from this upload
    broken,   \* how many archives with a torn chunk have been
    revived,  \* history: a chunk has been staged again after an archive was stored
    undone,   \* history: a write has been cut short of a chunk that was counted on
    orphaned, \* history: a lock has been dropped with another request waiting for it
    acked,    \* chunks the client has been told are received
    done,     \* the client has been told the backup is stored
    over,     \* the client has given this upload_id up
    sent, kills, lost, late

staging == <<dir, file, aged>>
locks == <<table, holder>>
reaper == <<reaping, sweeping>>
thread == <<pc, home, index, lock, next, sound, listed>>
archive == <<copies, broken, revived, undone, orphaned>>
client == <<acked, done, over, sent>>
faults == <<kills, lost, late>>
vars == <<staging, locks, reaper, thread, archive, client, faults>>

Chunks == 0 .. N - 1
Locks == 1 .. MaxRequests
Present == {k \in Chunks : file[k] # "none"}
Live == {r \in Requests : pc[r] # "idle"}

Init ==
    /\ dir = FALSE
    /\ file = [k \in Chunks |-> "none"]
    /\ aged = FALSE
    /\ table = [p \in Procs |-> 0]
    /\ holder = [l \in Locks |-> None]
    /\ reaping = [p \in Procs |-> {}]
    /\ sweeping = [p \in Procs |-> FALSE]
    /\ pc = [r \in Requests |-> "idle"]
    /\ home = [r \in Requests |-> None]
    /\ index = [r \in Requests |-> None]
    /\ lock = [r \in Requests |-> 0]
    /\ next = [r \in Requests |-> 0]
    /\ sound = [r \in Requests |-> TRUE]
    /\ listed = [r \in Requests |-> {}]
    /\ copies = 0
    /\ broken = 0
    /\ revived = FALSE
    /\ undone = FALSE
    /\ orphaned = FALSE
    /\ acked = {}
    /\ done = FALSE
    /\ over = FALSE
    /\ sent = 0
    /\ kills = 0
    /\ lost = 0
    /\ late = 0

Goto(r, label) == pc' = [pc EXCEPT ![r] = label]

\* The threads of R are gone, and with them everything they kept on their stacks.
Gone(R) ==
    /\ pc' = [r \in Requests |-> IF r \in R THEN "idle" ELSE pc[r]]
    /\ home' = [r \in Requests |-> IF r \in R THEN None ELSE home[r]]
    /\ index' = [r \in Requests |-> IF r \in R THEN None ELSE index[r]]
    /\ lock' = [r \in Requests |-> IF r \in R THEN 0 ELSE lock[r]]
    /\ next' = [r \in Requests |-> IF r \in R THEN 0 ELSE next[r]]
    /\ sound' = [r \in Requests |-> IF r \in R THEN TRUE ELSE sound[r]]
    /\ listed' = [r \in Requests |-> IF r \in R THEN {} ELSE listed[r]]

\* Mutant of Release: an answer sent from outside the `with' block.
ReleaseNothing(r) == UNCHANGED holder

Release(r) == holder' = [holder EXCEPT ![lock[r]] = None]

\* What the client learns from an answer, which may be lost on the way.
Hear(received, stored, failed) ==
    \/ /\ acked' = received
       /\ done' = (done \/ stored)
       /\ over' = (over \/ (failed /\ ~Reuse))
       /\ UNCHANGED lost
    \/ /\ lost < MaxLost
       /\ lost' = lost + 1
       /\ UNCHANGED <<acked, done, over>>

\* The handler returns out of the `with lock' block and answers.
Answer(r, received, stored, failed) ==
    /\ Release(r)
    /\ Gone({r})
    /\ Hear(received, stored, failed)
    /\ UNCHANGED <<sent, kills, late>>

\* An error that costs the client nothing it has: it tries again.
Retry(r) == Answer(r, acked, FALSE, FALSE)

\* A finalize fails: "re-upload the chunks".
StartOver(r) == Answer(r, {}, FALSE, TRUE)

-----------------------------------------------------------------------------
(* Arrival: the client sends, the handler looks the lock up and takes it *)

\* The client puts a request on the way; k is its chunk, None for a finalize.
Send(r, k) ==
    /\ pc[r] = "idle"
    /\ ~done
    /\ ~over
    /\ sent < MaxRequests
    /\ Cardinality(Live) < Overlap
    /\ sent' = sent + 1
    /\ index' = [index EXCEPT ![r] = k]
    /\ Goto(r, "arriving")
    /\ UNCHANGED <<staging, locks, reaper, home, lock, next, sound, listed, archive, acked,
                   done, over, faults>>

\* It sends, or sends again, a chunk it has no acknowledgement of.
SendChunk(r, k) == k \notin acked /\ Send(r, k)

\* Every chunk is acknowledged; it may also retry a finalize it has given up on.
SendFinalize(r) == acked = Chunks /\ Send(r, None)

\* The request is lost before its handler has asked for the lock: the connection breaks
\* while the body is read, or the checks before the lock turn it away.
TurnAway(r) ==
    /\ pc[r] = "arriving"
    /\ Gone({r})
    /\ UNCHANGED <<staging, locks, reaper, archive, client, faults>>

\* The least of the locks that nobody refers to: a threading.Lock() made anew.
Unused(l) == (\A p \in Procs : table[p] # l) /\ (\A r \in Requests : lock[r] # l)
NewLock == {l \in Locks : Unused(l) /\ \A m \in 1 .. l - 1 : ~Unused(m)}

\* The request is in process p and waits for lock l.
Enter(r, p, l) ==
    /\ pc[r] = "arriving"
    /\ home' = [home EXCEPT ![r] = p]
    /\ lock' = [lock EXCEPT ![r] = l]
    /\ table' = [table EXCEPT ![p] = l]
    /\ Goto(r, "waiting")
    /\ UNCHANGED <<staging, holder, reaper, index, next, sound, listed, archive, client,
                   faults>>

\* Mutant of Lookup: every request makes a lock of its own.
LookupFresh(r, p) == \E l \in NewLock : Enter(r, p, l)

\* _upload_lock, once the whole request has been received: get or create under the guard.
Lookup(r, p) == \E l \in IF table[p] = 0 THEN NewLock ELSE {table[p]} : Enter(r, p, l)

\* Mutant of Acquire: the lock is taken over from whoever holds it.
AcquireAtOnce(r) ==
    /\ pc[r] = "waiting"
    /\ holder' = [holder EXCEPT ![lock[r]] = r]
    /\ Goto(r, IF index[r] = None THEN "validating" ELSE "estimating")
    /\ UNCHANGED <<staging, table, reaper, home, index, lock, next, sound, listed,
                   archive, client, faults>>

Acquire(r) ==
    /\ pc[r] = "waiting"
    /\ holder[lock[r]] = None
    /\ holder' = [holder EXCEPT ![lock[r]] = r]
    /\ Goto(r, IF index[r] = None THEN "validating" ELSE "estimating")
    /\ UNCHANGED <<staging, table, reaper, home, index, lock, next, sound, listed,
                   archive, client, faults>>

\* Low disk or quota: refused before anything is written or read.
Refuse(r) ==
    /\ pc[r] \in {"estimating", "validating"}
    /\ Retry(r)
    /\ UNCHANGED <<staging, table, reaper, archive>>

-----------------------------------------------------------------------------
(* upload_chunk *)

\* makedirs(staging), after the capacity estimate.
MakeStaging(r) ==
    /\ pc[r] = "estimating"
    /\ dir' = TRUE
    /\ aged' = (aged /\ dir)
    /\ revived' = (revived \/ copies + broken > 0)
    /\ Goto(r, "opening")
    /\ UNCHANGED <<file, locks, reaper, home, index, lock, next, sound, listed,
                   copies, broken, undone, orphaned, client, faults>>

\* chunk.save opens the file for writing, which truncates an earlier one.  Only a
\* new entry touches the mtime of the directory.
OpenChunk(r) ==
    /\ pc[r] = "opening"
    /\ dir
    /\ file' = [file EXCEPT ![index[r]] = r]
    /\ aged' = (aged /\ file[index[r]] # "none")
    /\ Goto(r, "saving")
    /\ UNCHANGED <<dir, locks, reaper, home, index, lock, next, sound, listed,
                   archive, client, faults>>

\* The directory has been removed since: open raises.
OpenFails(r) ==
    /\ pc[r] = "opening"
    /\ ~dir
    /\ Retry(r)
    /\ UNCHANGED <<staging, table, reaper, archive>>

\* The last byte is written.  When another writer has truncated the file since, it
\* is whole only when that one has written it.
SaveChunk(r) ==
    /\ pc[r] = "saving"
    /\ file[index[r]] # "none"
    /\ file' = [file EXCEPT ![index[r]] = IF @ = r THEN "whole" ELSE @]
    /\ Goto(r, "checking")
    /\ UNCHANGED <<dir, aged, locks, reaper, home, index, lock, next, sound, listed,
                   archive, client, faults>>

\* Somebody counts on chunk k: the client has been told it is received, or a finalize of
\* R is on its way to read it.
CountedOn(k, R) == k \in acked \/ \E r \in Live \cap R : index[r] = None

\* save() raises in the middle of the chunk (the volume is full, an I/O error), or the
\* file has been unlinked under the writer and getsize(dest) raises.
SaveFails(r) ==
    /\ pc[r] = "saving"
    /\ file' = [file EXCEPT ![index[r]] = IF @ = r THEN "torn" ELSE @]
    /\ undone' = (undone \/ (file[index[r]] = r /\ CountedOn(index[r], Requests)))
    /\ Retry(r)
    /\ UNCHANGED <<dir, aged, table, reaper, copies, broken, revived, orphaned>>

\* Mutants of AcceptChunk: every staged chunk is acknowledged, or the lock is
\* forgotten with the request.
AcceptAllStaged(r) ==
    /\ pc[r] = "checking"
    /\ Answer(r, acked \cup Present, FALSE, FALSE)
    /\ UNCHANGED <<staging, table, reaper, archive>>
AcceptDroppingLock(r) ==
    /\ pc[r] = "checking"
    /\ Answer(r, acked \cup {index[r]}, FALSE, FALSE)
    /\ table' = [table EXCEPT ![home[r]] = 0]
    /\ UNCHANGED <<staging, reaper, archive>>

\* The re-checks after the save pass.
AcceptChunk(r) ==
    /\ pc[r] = "checking"
    /\ Answer(r, acked \cup {index[r]}, FALSE, FALSE)
    /\ UNCHANGED <<staging, table, reaper, archive>>

\* One of them fails: the chunk is removed again.
RejectChunk(r) ==
    /\ pc[r] = "checking"
    /\ file' = [file EXCEPT ![index[r]] = "none"]
    /\ aged' = (aged /\ file[index[r]] = "none")
    /\ Retry(r)
    /\ UNCHANGED <<dir, table, reaper, archive>>

-----------------------------------------------------------------------------
(* upload_finalize *)

\* No staging directory (404), or not exactly the chunks 0 .. N-1 (409).
FinalizeRefused(r) ==
    /\ pc[r] = "validating"
    /\ ~dir \/ Present # Chunks
    /\ StartOver(r)
    /\ UNCHANGED <<staging, table, reaper, archive>>

Validate(r) ==
    /\ pc[r] = "validating"
    /\ dir
    /\ Present = Chunks
    /\ Goto(r, "assembling")
    /\ UNCHANGED <<staging, locks, reaper, home, index, lock, next, sound, listed,
                   archive, client, faults>>

\* Mutants of ReadChunk: a missing chunk is skipped, or one is read past the last.
Append(r) ==
    /\ next' = [next EXCEPT ![r] = @ + 1]
    /\ sound' = [sound EXCEPT ![r] = @ /\ next[r] \in Present /\ file[next[r]] = "whole"]
    /\ UNCHANGED <<staging, locks, reaper, pc, home, index, lock, listed, archive,
                   client, faults>>
ReadSkippingMissing(r) == pc[r] = "assembling" /\ next[r] < N /\ Append(r)
ReadPastEnd(r) == pc[r] = "assembling" /\ next[r] \in Present \cup {N} /\ Append(r)

\* One chunk is appended to the reassembled file.
ReadChunk(r) ==
    /\ pc[r] = "assembling"
    /\ next[r] \in Present
    /\ next' = [next EXCEPT ![r] = @ + 1]
    /\ sound' = [sound EXCEPT ![r] = @ /\ file[next[r]] = "whole"]
    /\ UNCHANGED <<staging, locks, reaper, pc, home, index, lock, listed, archive,
                   client, faults>>

\* rmtree lists the directory, if it is still there.
BeginCleanup(r, label) ==
    /\ Goto(r, label)
    /\ listed' = [listed EXCEPT ![r] = Present]

\* ingest() has committed the row of the archive.
Ingest(r) ==
    /\ pc[r] = "assembling"
    /\ next[r] = N
    /\ copies' = copies + (IF sound[r] THEN 1 ELSE 0)
    /\ broken' = broken + (IF sound[r] THEN 0 ELSE 1)
    /\ UNCHANGED <<staging, locks, reaper, home, index, lock, next, sound, revived, undone,
                   orphaned, client, kills, lost>>

Store(r) ==
    /\ Ingest(r)
    /\ BeginCleanup(r, "stored")
    /\ UNCHANGED late

\* The retention prune that ends ingest() raises: a 500 for an archive that is stored.
StoreRaisesLate(r) ==
    /\ Ingest(r)
    /\ late < MaxLate
    /\ late' = late + 1
    /\ BeginCleanup(r, "failed")

\* A chunk is gone, the encryption gate refuses the archive, or ingest() raises.
StoreFails(r) ==
    /\ pc[r] = "assembling"
    /\ next[r] = N \/ next[r] \notin Present
    /\ BeginCleanup(r, "failed")
    /\ UNCHANGED <<staging, locks, reaper, home, index, lock, next, sound, archive,
                   client, faults>>

\* rmtree unlinks one file of its listing; a missing one is ignored.
CleanFile(r, k) ==
    /\ pc[r] \in {"stored", "failed"}
    /\ k \in listed[r]
    /\ listed' = [listed EXCEPT ![r] = @ \ {k}]
    /\ file' = [file EXCEPT ![k] = "none"]
    /\ aged' = (aged /\ file[k] = "none")
    /\ UNCHANGED <<dir, locks, reaper, pc, home, index, lock, next, sound, archive,
                   client, faults>>

\* rmdir fails, and is ignored, when a chunk has been added since the listing.
RemoveDir ==
    /\ dir' = (dir /\ Present # {})
    /\ aged' = (aged /\ dir')

\* _drop_upload_lock forgets the lock, whoever waits for it.
DropLock(r) ==
    /\ table' = [table EXCEPT ![home[r]] = 0]
    /\ orphaned' = (orphaned \/ \E q \in Live \ {r} : home[q] = home[r])

\* Mutant of Conclude: rmtree without ignore_errors raises when the reaper was first.
ConcludeStrict(r) ==
    /\ pc[r] \in {"stored", "failed"}
    /\ listed[r] = {}
    /\ RemoveDir
    /\ DropLock(r)
    /\ IF pc[r] = "stored" /\ dir THEN Answer(r, acked, TRUE, FALSE) ELSE StartOver(r)
    /\ UNCHANGED <<file, reaper, copies, broken, revived, undone>>

\* rmdir, _drop_upload_lock, and out of the `with' block.
Conclude(r) ==
    /\ pc[r] \in {"stored", "failed"}
    /\ listed[r] = {}
    /\ RemoveDir
    /\ DropLock(r)
    /\ IF pc[r] = "stored" THEN Answer(r, acked, TRUE, FALSE) ELSE StartOver(r)
    /\ UNCHANGED <<file, reaper, copies, broken, revived, undone>>

-----------------------------------------------------------------------------
(* The reaper of a process: no lock, every interval *)

Age ==
    /\ Aging
    /\ dir
    /\ ~aged
    /\ aged' = TRUE
    /\ UNCHANGED <<dir, file, locks, reaper, thread, archive, client, faults>>

\* Mutant of ReapBegin: only an empty directory is taken for abandoned.
ReapEmptyOnly(p) ==
    /\ ~sweeping[p]
    /\ dir
    /\ aged
    /\ Present = {}
    /\ sweeping' = [sweeping EXCEPT ![p] = TRUE]
    /\ reaping' = [reaping EXCEPT ![p] = {}]
    /\ UNCHANGED <<staging, locks, thread, archive, client, faults>>

ReapBegin(p) ==
    /\ ~sweeping[p]
    /\ dir
    /\ aged
    /\ sweeping' = [sweeping EXCEPT ![p] = TRUE]
    /\ reaping' = [reaping EXCEPT ![p] = Present]
    /\ UNCHANGED <<staging, locks, thread, archive, client, faults>>

ReapFile(p, k) ==
    /\ k \in reaping[p]
    /\ reaping' = [reaping EXCEPT ![p] = @ \ {k}]
    /\ file' = [file EXCEPT ![k] = "none"]
    /\ aged' = (aged /\ file[k] = "none")
    /\ UNCHANGED <<dir, locks, sweeping, thread, archive, client, faults>>

ReapEnd(p) ==
    /\ sweeping[p]
    /\ reaping[p] = {}
    /\ sweeping' = [sweeping EXCEPT ![p] = FALSE]
    /\ RemoveDir
    /\ UNCHANGED <<file, reaping, locks, thread, archive, client, faults>>

-----------------------------------------------------------------------------
\* A worker dies (SIGKILL, out of memory) and gunicorn starts another in its place.
Kill(p) ==
    LET dead == {r \in Requests : home[r] = p}
    IN  /\ kills < MaxKills
        /\ kills' = kills + 1
        /\ Gone(dead)
        /\ file' = [k \in Chunks |-> IF file[k] \in dead THEN "torn" ELSE file[k]]
        /\ table' = [table EXCEPT ![p] = 0]
        /\ holder' = [l \in Locks |-> IF holder[l] \in dead THEN None ELSE holder[l]]
        /\ sweeping' = [sweeping EXCEPT ![p] = FALSE]
        /\ reaping' = [reaping EXCEPT ![p] = {}]
        /\ undone' = (undone \/ \E k \in Chunks :
                                   file[k] \in dead /\ CountedOn(k, Requests \ dead))
        /\ UNCHANGED <<dir, aged, copies, broken, revived, orphaned, client, lost, late>>

Arrive == \E r \in Requests : SendFinalize(r) \/ \E k \in Chunks : SendChunk(r, k)

\* One step of the handler of a request.
Handle(r) ==
    \/ TurnAway(r) \/ (\E p \in Procs : Lookup(r, p)) \/ Acquire(r)
    \/ Refuse(r)
    \/ MakeStaging(r) \/ OpenChunk(r) \/ OpenFails(r)
    \/ SaveChunk(r) \/ SaveFails(r) \/ AcceptChunk(r) \/ RejectChunk(r)
    \/ FinalizeRefused(r) \/ Validate(r)
    \/ ReadChunk(r) \/ Store(r) \/ StoreRaisesLate(r) \/ StoreFails(r)
    \/ \E k \in listed[r] : CleanFile(r, k)
    \/ Conclude(r)

Reap(p) == ReapBegin(p) \/ (\E k \in reaping[p] : ReapFile(p, k)) \/ ReapEnd(p)

Next ==
    \/ Arrive
    \/ \E r \in Requests : Handle(r)
    \/ Age
    \/ \E p \in Procs : Reap(p) \/ Kill(p)

Spec == Init /\ [][Next]_vars

\* Threads are scheduled, file operations return, and time passes.
Fairness ==
    /\ \A r \in Requests : WF_vars(Handle(r))
    /\ \A p \in Procs : WF_vars(Reap(p))
    /\ WF_vars(Age)

FairSpec == Spec /\ Fairness

-----------------------------------------------------------------------------
(* Properties *)

InCriticalSection(r) == pc[r] \notin {"idle", "arriving", "waiting"}

Steps == {"idle", "arriving", "waiting", "estimating", "opening", "saving", "checking",
          "validating", "assembling", "stored", "failed"}

TypeOK ==
    /\ dir \in BOOLEAN
    /\ file \in [Chunks -> {"none", "whole", "torn"} \cup Requests]
    /\ aged \in BOOLEAN
    /\ table \in [Procs -> 0 .. MaxRequests]
    /\ holder \in [Locks -> Requests \cup {None}]
    /\ reaping \in [Procs -> SUBSET Chunks]
    /\ sweeping \in [Procs -> BOOLEAN]
    /\ pc \in [Requests -> Steps]
    /\ home \in [Requests -> Procs \cup {None}]
    /\ index \in [Requests -> Chunks \cup {None}]
    /\ lock \in [Requests -> 0 .. MaxRequests]
    /\ next \in [Requests -> 0 .. N]
    /\ sound \in [Requests -> BOOLEAN]
    /\ listed \in [Requests -> SUBSET Chunks]
    /\ {copies, broken} \subseteq Nat
    /\ acked \in SUBSET Chunks
    /\ {revived, undone, orphaned, done, over} \subseteq BOOLEAN
    /\ sent \in 0 .. MaxRequests
    /\ kills \in 0 .. MaxKills
    /\ lost \in 0 .. MaxLost
    /\ late \in 0 .. MaxLate

\* No archive is ever stored with a chunk missing or half written: not after a worker died
\* or save() raised in the middle of a chunk, not with the reaper sweeping the staging
\* directory under a finalize.  There are two exceptions.  A chunk is sent twice at once, and
\* one copy is acknowledged, or the finalize sent, when the other is cut short: save()
\* rewrites in place.  Or a finalize has dropped the lock while another request waited for
\* it, and what that one does is no longer kept apart from what the next does.
StoredWhole == broken > 0 => undone \/ orphaned

\* The handlers keep what UploadSession promises, whatever their steps interleave with.
Session ==
    INSTANCE UploadSession WITH
        received <- acked, archives <- copies + broken, told <- done
ImplementsSession == Session!Spec

\* An upload is stored once; every further copy is owed to a finalize whose outcome
\* the client could not know: the worker died, the answer was lost, or the prune
\* raised after the commit.
CopiesAccountedFor == copies <= 1 + kills + lost + late

\* "two concurrent finalize POSTs for one upload_id would otherwise both assemble and
\* create duplicate rows" (api.py:554-555): without a fault there is one copy, unless a
\* chunk that is late or sent twice brings the staging directory back, or a finalize has
\* dropped the lock while another request waited for it.
StoredOnce == kills + lost + late = 0 /\ ~revived /\ ~orphaned => copies + broken <= 1

\* "only now is it safe to forget its lock" (api.py:611): within one process the lock admits
\* one request at a time, and whatever arrives in between, the only thing that ends it is
\* that a finalize forgets the lock while another request waits for it: that one still takes
\* the forgotten lock, and the next to arrive makes a new one.
LockExcludes ==
    ~orphaned =>
        \A q, r \in Requests :
            /\ InCriticalSection(q)
            /\ InCriticalSection(r)
            /\ home[q] = home[r]
            => q = r

\* Every request is answered, or dies with its worker.
Answered == \A r \in Requests : pc[r] # "idle" ~> pc[r] = "idle"

\* What an abandoned upload has staged is reclaimed: no order of late chunks, failed
\* rmdirs and reapers leaves it on the volume for ever.
StagingReclaimed == <>[](~dir)

-----------------------------------------------------------------------------
(* Inductive invariants *)

ChunkSteps == {"estimating", "opening", "saving", "checking"}
FinalizeSteps == {"validating", "assembling", "stored", "failed"}

\* The requests that have looked their lock up.
Served == {r \in Requests : pc[r] \notin {"idle", "arriving"}}

\* Each request slot is coherent.
Slots ==
    \A r \in Served :
        /\ home[r] \in Procs
        /\ lock[r] \in Locks
        /\ pc[r] \in ChunkSteps => index[r] \in Chunks
        /\ pc[r] \in FinalizeSteps => index[r] = None

\* What LockExcludes rests on: the lock of a request is the one in the table of its process
\* until one is dropped with a request waiting; and who is inside holds its lock.
LocksAreTabled == ~orphaned => \A r \in Served : table[home[r]] = lock[r]
HoldersAreInside == \A r \in Requests : InCriticalSection(r) => holder[lock[r]] = r

LockInv ==
    /\ TypeOK
    /\ Slots
    /\ LocksAreTabled
    /\ HoldersAreInside

\* A client that waits for every answer: what is in flight is still wanted.
OneInFlight ==
    /\ \A q, r \in Live : q = r
    /\ \A r \in Live : ~done /\ IF index[r] = None THEN acked = Chunks ELSE index[r] \notin acked

\* ... a chunk that is acknowledged is not being written, nor was when its writer died ...
AckedAreWhole ==
    /\ \A k \in acked : file[k] \in {"none", "whole"}
    /\ \A r \in Live : /\ pc[r] = "saving" => file[index[r]] \in {"none", r}
                       /\ pc[r] = "checking" => file[index[r]] \in {"none", "whole"}
    /\ sound = [r \in Requests |-> TRUE]

\* ... and every archive but one is put down to a fault.
AnyStored == \E r \in Requests : pc[r] = "stored"
CopiesCounted ==
    /\ broken = 0
    /\ AnyStored => copies > 0
    /\ copies <= kills + lost + late + IF done \/ AnyStored THEN 1 ELSE 0

PatientInv ==
    /\ TypeOK
    /\ Slots
    /\ OneInFlight
    /\ AckedAreWhole
    /\ CopiesCounted

\* In one process, what is being written is being written under the lock ...
WritersAreInside ==
    /\ \A k \in Chunks : file[k] \in Requests => pc[file[k]] = "saving" /\ index[file[k]] = k
    /\ \A r \in Requests : /\ pc[r] = "saving" => file[index[r]] \in {"none", r}
                           /\ pc[r] = "checking" => file[index[r]] \in {"none", "whole"}

\* ... a finalize that is under way has no torn chunk to read ...
TornAreUndone ==
    /\ \A k \in Chunks : file[k] = "torn" => undone \/ ~CountedOn(k, Requests)
    /\ undone \/ sound = [r \in Requests |-> TRUE]
    /\ broken > 0 => undone

\* ... and what has been stored is off the staging directory, or being taken off: all of
\* it until the lock is dropped with a request waiting.
Settled == kills + late = 0 /\ ~revived /\ copies + broken > 0
StoredIsCleaned ==
    Settled =>
        /\ copies + broken = 1
        /\ \A r \in Requests : pc[r] # "assembling"
        /\ ~dir \/ \E r \in Requests : pc[r] = "stored" /\ Present \subseteq listed[r]

SingleInv ==
    /\ LockInv
    /\ ~orphaned => WritersAreInside /\ TornAreUndone /\ StoredIsCleaned
=============================================================================
