-------------------------------- MODULE Volume --------------------------------
(***************************************************************************)
(* Room on the data volume and in the quota of a site: _capacity_error and *)
(* the writes it is to guard (app/api.py, app/storage.py), the temporary   *)
(* copies of uploads and downloads, and their sweep.  Sizes are units of   *)
(* archive.  An upload_id is as many units as its chunks have staged;      *)
(* ChunkedUpload has the chunks themselves, and their locks.               *)
(***************************************************************************)
EXTENDS Integers, FiniteSets, FiniteSetsExt, Functions

CONSTANTS
    Requests,   \* request threads, of any worker
    Disk,       \* size of the volume
    Margin,     \* _DISK_MARGIN_BYTES
    Quota,      \* SITE_QUOTA_MB; 0 is none
    MaxBytes,   \* the largest archive (_max_backup_bytes)
    Overhead,   \* what encryption at rest adds to an archive
    MaxFaults   \* bounds the kills, the commits that fail and the archives that do not decrypt

ASSUME VolumeAssumption ==
    /\ IsFiniteSet(Requests) /\ Requests # {}
    /\ {Disk, Margin, Quota, MaxBytes, Overhead, MaxFaults} \subseteq Nat

VARIABLES
    rows,      \* how many archives of each size are stored
    staged,    \* bytes of chunks that wait for their finalize
    pc,        \* where each request is
    size,      \* the archive or chunk it carries
    prior,     \* upload_chunk: the size of the chunk that its own has replaced
    claim,     \* finalize: the chunks it has taken up, still on disk
    tmp,       \* its file in DATA_DIR/tmp
    part,      \* its .part file
    strayUp,   \* tspb-up-* files that no request owns
    strayDown, \* tspb-dl-* files that no request owns
    stranded,  \* .part files, and blobs without a row, that no request owns
    faults,
    overrun,   \* history: a write that the check had admitted found the volume full
    blind,     \* history: a write was admitted when disk_usage() could not tell
    largest    \* history: the largest archive or chunk that any request has carried

request == <<pc, size, prior, claim, tmp, part>>
strays == <<strayUp, strayDown, stranded>>
history == <<overrun, blind, largest>>
vars == <<rows, staged, request, strays, faults, history>>

Sizes == 1 .. MaxBytes
Stored(s) == s + Overhead
Used == SumFunction([s \in Sizes |-> rows[s] * Stored(s)])
Free ==
    Disk - Used - staged - strayUp - strayDown - stranded
         - SumFunction([r \in Requests |-> claim[r] + tmp[r] + part[r]])

Init ==
    /\ rows = [s \in Sizes |-> 0]
    /\ staged = 0
    /\ pc = [r \in Requests |-> "idle"]
    /\ size = [r \in Requests |-> 0]
    /\ prior = [r \in Requests |-> 0]
    /\ claim = [r \in Requests |-> 0]
    /\ tmp = [r \in Requests |-> 0]
    /\ part = [r \in Requests |-> 0]
    /\ strayUp = 0
    /\ strayDown = 0
    /\ stranded = 0
    /\ faults = 0
    /\ overrun = FALSE
    /\ blind = FALSE
    /\ largest = 0

Goto(r, label) == pc' = [pc EXCEPT ![r] = label]

\* A request takes up an archive or a chunk of this size.
Carry(r, s) ==
    /\ size' = [size EXCEPT ![r] = s]
    /\ largest' = Max({largest, s})

\* Mutants of Fits: the incoming bytes are left out of either comparison.
FitsOnDiskAlready(incoming, peak, measured) ==
    /\ measured => Free >= Margin
    /\ Quota > 0 => Used + incoming <= Quota
FitsQuotaAlready(incoming, peak, measured) ==
    /\ measured => Free >= peak + Margin
    /\ Quota > 0 => Used <= Quota

\* _capacity_error returns None.  When disk_usage() raises, the disk is not asked.
Fits(incoming, peak, measured) ==
    /\ measured => Free >= peak + Margin
    /\ Quota > 0 => Used + incoming <= Quota

Admit(incoming, peak) ==
    \E measured \in BOOLEAN :
        /\ Fits(incoming, peak, measured)
        /\ blind' = (blind \/ ~measured)

-----------------------------------------------------------------------------
(* upload(): the bytes are saved before anything is checked *)

Receive(r, s) ==
    /\ pc[r] = "idle"
    /\ Carry(r, s)
    /\ tmp' = [tmp EXCEPT ![r] = Min({s, Free})]
    /\ Goto(r, IF Free < s THEN "leaving" ELSE "checking")
    /\ UNCHANGED <<rows, staged, prior, claim, part, strays, faults, overrun, blind>>

Check(r) ==
    /\ pc[r] = "checking"
    /\ Admit(size[r], size[r])
    /\ Goto(r, "admitted")
    /\ UNCHANGED <<rows, staged, size, prior, claim, tmp, part, strays, faults>>
    /\ UNCHANGED <<overrun, largest>>

\* Mutant of Fail: ingest() does not remove what it has written.
FailLeavingPart(r) ==
    /\ pc[r] \in {"checking", "admitted"}
    /\ Goto(r, "leaving")
    /\ stranded' = stranded + (IF pc[r] = "admitted" THEN Min({size[r], Free}) ELSE 0)
    /\ UNCHANGED <<rows, staged, size, prior, claim, tmp, part, strayUp, strayDown, faults>>
    /\ UNCHANGED history

\* There is no room, the gate refuses the archive, the passphrase is empty, or the sweep has
\* taken the file: what ingest() has written of its .part file is removed.
Fail(r) ==
    /\ pc[r] \in {"checking", "admitted"}
    /\ Goto(r, "leaving")
    /\ UNCHANGED <<rows, staged, size, prior, claim, tmp, part, strays, faults, history>>

-----------------------------------------------------------------------------
(* upload_chunk(): an estimate before the write, a check after it *)

Estimate(r, s) ==
    /\ pc[r] = "idle"
    /\ Admit(s, s)
    /\ Carry(r, s)
    /\ Goto(r, "chunk")
    /\ UNCHANGED <<rows, staged, prior, claim, tmp, part, strays, faults, overrun>>

\* The chunk replaces one of size p, which is truncated first.  When the volume is full,
\* save() raises, and what is written stays.
SaveChunk(r, p) ==
    /\ pc[r] = "chunk"
    /\ p <= staged
    /\ staged' = staged - p + Min({size[r], Free + p})
    /\ overrun' = (overrun \/ Free + p < size[r])
    /\ IF Free + p < size[r]
       THEN Goto(r, "idle") /\ size' = [size EXCEPT ![r] = 0] /\ UNCHANGED prior
       ELSE Goto(r, "saved") /\ prior' = [prior EXCEPT ![r] = p] /\ UNCHANGED size
    /\ UNCHANGED <<rows, claim, tmp, part, strays, faults, blind, largest>>

\* The check after the write asks for what the chunk has added.  Without the room the whole
\* chunk is removed, as it is when it or its upload has become larger than is allowed.
KeepChunk(r) ==
    /\ pc[r] = "saved"
    /\ \/ /\ \E measured \in BOOLEAN :
               Fits(size[r] - prior[r], size[r] - prior[r], measured)
          /\ UNCHANGED staged
       \/ staged' = staged - Min({size[r], staged})
    /\ Goto(r, "idle")
    /\ size' = [size EXCEPT ![r] = 0]
    /\ prior' = [prior EXCEPT ![r] = 0]
    /\ UNCHANGED <<rows, claim, tmp, part, strays, faults, history>>

\* The reaper removes what nobody finalizes.
ReapStaging(s) ==
    /\ s <= staged
    /\ staged' = staged - s
    /\ UNCHANGED <<rows, request, strays, faults, history>>

-----------------------------------------------------------------------------
(* upload_finalize(): room for two more copies *)

Finalize(r, s) ==
    /\ pc[r] = "idle"
    /\ s <= staged
    /\ Admit(s, 2 * s)
    /\ Carry(r, s)
    /\ claim' = [claim EXCEPT ![r] = s]
    /\ staged' = staged - s
    /\ Goto(r, "assembling")
    /\ UNCHANGED <<rows, prior, tmp, part, strays, faults, overrun>>

Assemble(r) ==
    /\ pc[r] = "assembling"
    /\ tmp' = [tmp EXCEPT ![r] = Min({size[r], Free})]
    /\ overrun' = (overrun \/ Free < size[r])
    /\ Goto(r, IF Free < size[r] THEN "leaving" ELSE "admitted")
    /\ UNCHANGED <<rows, staged, size, prior, claim, part, strays, faults, blind, largest>>

-----------------------------------------------------------------------------
(* ingest(), and the `finally' of its callers *)

\* A write that fails removes what it has written.
WritePart(r) ==
    /\ pc[r] = "admitted"
    /\ overrun' = (overrun \/ Free < Stored(size[r]))
    /\ IF Free < Stored(size[r])
       THEN Goto(r, "leaving") /\ UNCHANGED part
       ELSE Goto(r, "placed") /\ part' = [part EXCEPT ![r] = Stored(size[r])]
    /\ UNCHANGED <<rows, staged, size, prior, claim, tmp, strays, faults, blind, largest>>

Commit(r) ==
    /\ pc[r] = "placed"
    /\ rows' = [rows EXCEPT ![size[r]] = @ + 1]
    /\ part' = [part EXCEPT ![r] = 0]
    /\ Goto(r, "leaving")
    /\ UNCHANGED <<staged, size, prior, claim, tmp, strays, faults, history>>

\* The commit raises, after the rename: the blob stays.
CommitFails(r) ==
    /\ pc[r] = "placed"
    /\ faults < MaxFaults
    /\ faults' = faults + 1
    /\ stranded' = stranded + part[r]
    /\ part' = [part EXCEPT ![r] = 0]
    /\ Goto(r, "leaving")
    /\ UNCHANGED <<rows, staged, size, prior, claim, tmp, strayUp, strayDown, history>>

\* The temporary copy and the chunks are removed, whatever has happened.
Gone(r) ==
    /\ Goto(r, "idle")
    /\ size' = [size EXCEPT ![r] = 0]
    /\ prior' = [prior EXCEPT ![r] = 0]
    /\ claim' = [claim EXCEPT ![r] = 0]
    /\ tmp' = [tmp EXCEPT ![r] = 0]
    /\ part' = [part EXCEPT ![r] = 0]

Leave(r) ==
    /\ pc[r] = "leaving"
    /\ Gone(r)
    /\ UNCHANGED <<rows, staged, strays, faults, history>>

-----------------------------------------------------------------------------
(* download_backup(), delete_backup() and the sweep *)

\* open_for_download() decrypts into a temporary file, and asks for no room.  When
\* decrypt_file() raises, nobody removes it: the request does not know its name.
Download(r, s) ==
    /\ pc[r] = "idle"
    /\ rows[s] > 0
    /\ IF Free < s
       THEN strayDown' = strayDown + Free /\ UNCHANGED <<pc, size, tmp>>
       ELSE /\ Goto(r, "leaving")
            /\ size' = [size EXCEPT ![r] = s]
            /\ tmp' = [tmp EXCEPT ![r] = s]
            /\ UNCHANGED strayDown
    /\ UNCHANGED <<rows, staged, prior, claim, part, strayUp, stranded, faults, history>>

\* The tag does not match, which the last block tells.
DownloadCorrupt(r, s) ==
    /\ pc[r] = "idle"
    /\ rows[s] > 0
    /\ faults < MaxFaults
    /\ faults' = faults + 1
    /\ strayDown' = strayDown + Min({s, Free})
    /\ UNCHANGED <<rows, staged, request, strayUp, stranded, history>>

\* The API, the console, or the retention prune.
Delete(s) ==
    /\ rows[s] > 0
    /\ rows' = [rows EXCEPT ![s] = @ - 1]
    /\ UNCHANGED <<staged, request, strays, faults, history>>

\* A worker is killed; a download's copy counts with the uploads' here.
Kill(r) ==
    /\ pc[r] # "idle"
    /\ faults < MaxFaults
    /\ faults' = faults + 1
    /\ strayUp' = strayUp + tmp[r]
    /\ stranded' = stranded + part[r]
    /\ staged' = staged + claim[r]
    /\ Gone(r)
    /\ UNCHANGED <<rows, strayDown, history>>

\* _reap_stale_tmp: of the files that nobody owns it removes those older than the TTL,
\* whichever these are.
SweepTmp(u, d) ==
    /\ u <= strayUp
    /\ d <= strayDown
    /\ strayUp' = strayUp - u
    /\ strayDown' = strayDown - d
    /\ UNCHANGED <<rows, staged, request, stranded, faults, history>>

Serve(r) ==
    \/ Check(r) \/ Fail(r) \/ KeepChunk(r)
    \/ \E p \in 0 .. MaxBytes : SaveChunk(r, p)
    \/ Assemble(r) \/ WritePart(r) \/ Commit(r) \/ CommitFails(r)
    \/ Leave(r)

Next ==
    \/ \E r \in Requests :
          \/ Serve(r)
          \/ Kill(r)
          \/ \E s \in Sizes :
                Receive(r, s) \/ Estimate(r, s) \/ Finalize(r, s)
                    \/ Download(r, s) \/ DownloadCorrupt(r, s)
    \/ \E s \in Sizes : ReapStaging(s) \/ Delete(s)
    \/ \E u \in 0 .. strayUp, d \in 0 .. strayDown : SweepTmp(u, d)

Spec == Init /\ [][Next]_vars

-----------------------------------------------------------------------------
(* Properties *)

\* "Prevents one site key from filling the volume" (api.py:120-121): requests that pass
\* the quota check together overshoot it by one archive each but the first, and by what
\* encryption at rest adds, however many of them there have been.
QuotaOvershootIsBounded ==
    Quota > 0 => Used <= Quota + (Cardinality(Requests) - 1) * Stored(MaxBytes) + Overhead

\* What may be written after the last check and before the write that it admits, when no
\* archive was larger than l and there have been f faults: by every other thread the two
\* copies of an archive that was admitted earlier; by the thread that was checked, the rest
\* of its own and then the unchecked copy of its next; and a copy for each fault.
UnseenOf(l, f) ==
    (Cardinality(Requests) - 1) * (l + Stored(l)) + Stored(l) + f * l
Unseen == UnseenOf(largest, faults)

\* "the very write that breaches the margin" (api.py:485): as long as the margin covers
\* what the check cannot see of the archives that have been sent, and the disk could be
\* asked, a write that has been admitted never finds the volume full.
AdmittedFits == Margin >= Unseen /\ ~blind => ~overrun

\* "On any failure the partial is removed so a dead write can't linger and eat the volume"
\* (storage.py:91-92): what nothing will ever remove is one archive for each kill, or for
\* each commit that has failed after the rename.
StrandedIsBounded == stranded <= faults * Stored(MaxBytes)
=============================================================================
