------------------------------- MODULE SiteKeys -------------------------------
(***************************************************************************)
(* The end-to-end encryption keys of one site: rotation of the keypair and *)
(* the one-time reveal of its private half (site_rotate_keypair, site_edit *)
(* and OneTimeSecret), and uploads that a client has encrypted to the      *)
(* public half it was given by /ping and that ingest() labels with a       *)
(* fingerprint.                                                            *)
(*                                                                         *)
(* SQLite admits one writing transaction at a time, and a request takes    *)
(* that right with its first write, not with its reads.  site_new issues   *)
(* the first key by the same steps.  Left out: the reminder that           *)
(* e2ee_key_ack switches off, and what else replaces the nonce in a        *)
(* browser's cookie (the rotation of an API key or of another site's       *)
(* keypair, which go through the same stash, and a logout).                *)
(***************************************************************************)
EXTENDS Integers, FiniteSets

CONSTANTS
    Browsers,   \* operators' browsers, each with a session cookie
    Requests,   \* console requests in progress at once
    Uploads,    \* uploads of the site's client
    None,       \* no request, no browser
    MaxKeys     \* bounds the keypairs ever issued

ASSUME SiteKeysAssumption ==
    /\ MaxKeys \in Nat
    /\ None \notin Browsers \cup Requests

Keys == 1 .. MaxKeys    \* keypairs, numbered as they are generated
NoKey == 0

VARIABLES
    \* The database.
    public,      \* site.e2ee_public_key: the keypair it belongs to
    stash,       \* one_time_secret: keypairs whose private half is stashed; a
                 \* keypair stands for the nonce of its row
    expired,     \* rows of it that are older than the TTL
    backups,     \* [to: keypair it is encrypted to, label: e2ee_fingerprint]
    writer,      \* the request whose transaction has begun to write
    \* The console.
    issued,      \* how many keypairs have been generated
    cookie,      \* the nonce in the session cookie of each browser
    pc, browser, \* each request, and the browser that sent it
    key,         \* the keypair it generates, or the nonce it came with
    \* The client's uploads.
    at,          \* where each upload is
    to,          \* the keypair it is encrypted to
    label,       \* the public key ingest() has read
    \* History.
    shown,       \* how many responses carried each private key
    minter,      \* the browser that asked for each keypair
    saved,       \* private keys that each browser has displayed
    overtaken,   \* uploads during whose encryption or transfer a rotation was committed
    crossed,     \* browsers that sent a request while another of theirs was in progress
    lost         \* private keys gone with a killed request, or with the TTL

database == <<public, stash, expired, backups>>
console == <<issued, cookie, pc, browser, key>>
uploads == <<at, to, label>>
history == <<shown, minter, saved, overtaken, crossed, lost>>
vars == <<database, writer, console, uploads, history>>

Init ==
    /\ public = NoKey          \* a site that predates keypairs, or is being created
    /\ stash = {}
    /\ expired = {}
    /\ backups = {}
    /\ writer = None
    /\ issued = 0
    /\ cookie = [b \in Browsers |-> NoKey]
    /\ pc = [r \in Requests |-> "idle"]
    /\ browser = [r \in Requests |-> None]
    /\ key = [r \in Requests |-> NoKey]
    /\ at = [u \in Uploads |-> "waiting"]
    /\ to = [u \in Uploads |-> NoKey]
    /\ label = [u \in Uploads |-> NoKey]
    /\ shown = [k \in Keys |-> 0]
    /\ minter = [k \in Keys |-> None]
    /\ saved = [b \in Browsers |-> {}]
    /\ overtaken = {}
    /\ crossed = {}
    /\ lost = {}

Goto(r, where) == pc' = [pc EXCEPT ![r] = where]

\* A request of browser b arrives, with a key or a nonce.
Arrive(r, b, k, where) ==
    /\ pc[r] = "idle"
    /\ Goto(r, where)
    /\ browser' = [browser EXCEPT ![r] = b]
    /\ key' = [key EXCEPT ![r] = k]
    /\ crossed' = IF \E q \in Requests : browser[q] = b THEN crossed \cup {b} ELSE crossed

Finish(r) ==
    /\ Goto(r, "idle")
    /\ browser' = [browser EXCEPT ![r] = None]
    /\ key' = [key EXCEPT ![r] = NoKey]

-----------------------------------------------------------------------------
(* site_rotate_keypair *)

Rotate(r, b) ==
    /\ issued < MaxKeys
    /\ issued' = issued + 1
    /\ Arrive(r, b, issued + 1, "rotating")
    /\ minter' = [minter EXCEPT ![issued + 1] = b]
    /\ UNCHANGED <<database, writer, cookie, uploads, shown, saved, overtaken, lost>>

\* The public half is committed.
CommitRotation(r) ==
    /\ pc[r] = "rotating"
    /\ writer = None
    /\ public' = key[r]
    /\ overtaken' = overtaken \cup {u \in Uploads : at[u] = "encrypting"}
    /\ Goto(r, "stashing")
    /\ UNCHANGED <<stash, expired, backups, writer, issued, cookie, browser, key,
                   uploads, shown, minter, saved, crossed, lost>>

\* Mutant of Stash: one row per site, the one before is replaced.
StashForSite(r) ==
    /\ pc[r] = "stashing"
    /\ writer = None
    /\ stash' = {key[r]}
    /\ expired' = {}
    /\ Goto(r, "redirecting")
    /\ UNCHANGED <<public, backups, writer, issued, cookie, browser, key,
                   uploads, history>>

\* OneTimeSecret.stash: sweep what has expired, insert, commit.
Stash(r) ==
    /\ pc[r] = "stashing"
    /\ writer = None
    /\ stash' = (stash \ expired) \cup {key[r]}
    /\ expired' = {}
    /\ Goto(r, "redirecting")
    /\ UNCHANGED <<public, backups, writer, issued, cookie, browser, key,
                   uploads, history>>

\* The redirect sets the session cookie.
Redirect(r) ==
    /\ pc[r] = "redirecting"
    /\ cookie' = [cookie EXCEPT ![browser[r]] = key[r]]
    /\ Finish(r)
    /\ UNCHANGED <<database, writer, issued, uploads, history>>

-----------------------------------------------------------------------------
(* site_edit and sites, GET: the reveal *)

View(r, b) ==
    /\ cookie[b] # NoKey
    /\ Arrive(r, b, cookie[b], "viewing")
    /\ UNCHANGED <<database, writer, issued, cookie, uploads, shown, minter, saved,
                   overtaken, lost>>

\* Mutants of PopRead: no write before the read, or the row is looked up by its site.
PopReadUnlocked(r) ==
    /\ pc[r] = "viewing"
    /\ key[r] \in stash \ expired
    /\ Goto(r, "popping")
    /\ UNCHANGED <<database, writer, issued, cookie, browser, key, uploads, history>>
PopReadBySite(r) ==
    /\ pc[r] = "viewing"
    /\ writer = None
    /\ writer' = r
    /\ \E k \in stash \ expired : key' = [key EXCEPT ![r] = k]
    /\ Goto(r, "popping")
    /\ UNCHANGED <<database, issued, cookie, browser, uploads, history>>

\* OneTimeSecret.pop: the sweep is the first write, so the row is read under the
\* write lock.
PopRead(r) ==
    /\ pc[r] = "viewing"
    /\ writer = None
    /\ key[r] \in stash \ expired
    /\ writer' = r
    /\ Goto(r, "popping")
    /\ UNCHANGED <<database, issued, cookie, browser, key, uploads, history>>

\* Unknown, expired or already read: the sweep is rolled back and nothing is shown.
PopNothing(r) ==
    /\ pc[r] = "viewing"
    /\ writer = None
    /\ key[r] \notin stash \ expired
    /\ cookie' = [cookie EXCEPT ![browser[r]] = NoKey]
    /\ Finish(r)
    /\ UNCHANGED <<database, writer, issued, uploads, history>>

\* Mutant of PopCommit: the row is left to the sweep.
PopKeepingRow(r) ==
    /\ pc[r] = "popping"
    /\ writer' = None
    /\ Goto(r, "showing")
    /\ UNCHANGED <<database, issued, cookie, browser, key, uploads, history>>

\* The row is deleted, and the sweep committed with it.
PopCommit(r) ==
    /\ pc[r] = "popping"
    /\ writer \in {r, None}
    /\ stash' = (stash \ expired) \ {key[r]}
    /\ expired' = {}
    /\ writer' = None
    /\ Goto(r, "showing")
    /\ UNCHANGED <<public, backups, issued, cookie, browser, key, uploads, history>>

\* The page with the private key, and a session cookie without the nonce.
Show(r) ==
    /\ pc[r] = "showing"
    /\ shown' = [shown EXCEPT ![key[r]] = @ + 1]
    /\ saved' = [saved EXCEPT ![browser[r]] = @ \cup {key[r]}]
    /\ cookie' = [cookie EXCEPT ![browser[r]] = NoKey]
    /\ Finish(r)
    /\ UNCHANGED <<database, writer, issued, uploads, minter, overtaken, crossed, lost>>

-----------------------------------------------------------------------------
(* The client, and ingest() *)

\* /ping tells the client the public key, null for a site without one.  The client
\* encrypts the archive to it, or is not set up to.
Ping(u) ==
    /\ at[u] = "waiting"
    /\ \E k \in {public, NoKey} : to' = [to EXCEPT ![u] = k]
    /\ at' = [at EXCEPT ![u] = "encrypting"]
    /\ UNCHANGED <<database, writer, console, label, history>>

\* The gate, where E2EE is required: no key to encrypt to, or not an envelope.
Refuse(u) ==
    /\ at[u] = "encrypting"
    /\ NoKey \in {public, to[u]}
    /\ at' = [at EXCEPT ![u] = "refused"]
    /\ UNCHANGED <<database, writer, console, to, label, history>>

\* Mutant of Label: whatever is uploaded to a site with a key carries its fingerprint.
LabelAnyUpload(u) ==
    /\ at[u] = "encrypting"
    /\ label' = [label EXCEPT ![u] = public]
    /\ at' = [at EXCEPT ![u] = "ingesting"]
    /\ UNCHANGED <<database, writer, console, to, history>>

\* The upload arrives and passes the gate, or E2EE is not required; ingest() takes the
\* fingerprint of the site's key for an archive that is a public-key envelope.
Label(u) ==
    /\ at[u] = "encrypting"
    /\ label' = [label EXCEPT ![u] = IF to[u] = NoKey THEN NoKey ELSE public]
    /\ at' = [at EXCEPT ![u] = "ingesting"]
    /\ UNCHANGED <<database, writer, console, to, history>>

Ingest(u) ==
    /\ at[u] = "ingesting"
    /\ writer = None
    /\ backups' = backups \cup {[to |-> to[u], label |-> label[u]]}
    /\ at' = [at EXCEPT ![u] = "stored"]
    /\ UNCHANGED <<public, stash, expired, writer, console, to, label, history>>

-----------------------------------------------------------------------------
Expire(k) ==
    /\ k \in stash \ expired
    /\ expired' = expired \cup {k}
    /\ lost' = lost \cup {k}
    /\ UNCHANGED <<public, stash, backups, writer, console, uploads, shown, minter,
                   saved, overtaken, crossed>>

\* The worker is killed, or the database stays locked too long: what the request has
\* not committed is rolled back, and the browser gets no answer.
Die(r) ==
    /\ pc[r] # "idle"
    /\ writer' = IF writer = r THEN None ELSE writer
    /\ lost' = IF pc[r] \in {"viewing", "popping"} THEN lost ELSE lost \cup {key[r]}
    /\ Finish(r)
    /\ UNCHANGED <<database, issued, cookie, uploads, shown, minter, saved, overtaken,
                   crossed>>

Handle(r) ==
    \/ \E b \in Browsers : Rotate(r, b) \/ View(r, b)
    \/ CommitRotation(r) \/ Stash(r) \/ Redirect(r)
    \/ PopRead(r) \/ PopNothing(r) \/ PopCommit(r) \/ Show(r)
    \/ Die(r)

Next ==
    \/ \E r \in Requests : Handle(r)
    \/ \E u \in Uploads : Ping(u) \/ Refuse(u) \/ Label(u) \/ Ingest(u)
    \/ \E k \in Keys : Expire(k)

Spec == Init /\ [][Next]_vars

-----------------------------------------------------------------------------
(* Properties *)

Steps == {"idle", "rotating", "stashing", "redirecting", "viewing", "popping", "showing"}

TypeOK ==
    /\ public \in Keys \cup {NoKey}
    /\ stash \in SUBSET Keys
    /\ expired \in SUBSET stash
    /\ backups \in SUBSET [to : Keys \cup {NoKey}, label : Keys \cup {NoKey}]
    /\ writer \in Requests \cup {None}
    /\ issued \in 0 .. MaxKeys
    /\ cookie \in [Browsers -> Keys \cup {NoKey}]
    /\ pc \in [Requests -> Steps]
    /\ browser \in [Requests -> Browsers \cup {None}]
    /\ key \in [Requests -> Keys \cup {NoKey}]
    /\ at \in [Uploads -> {"waiting", "encrypting", "refused", "ingesting", "stored"}]
    /\ to \in [Uploads -> Keys \cup {NoKey}]
    /\ label \in [Uploads -> Keys \cup {NoKey}]
    /\ shown \in [Keys -> Nat]
    /\ minter \in [Keys -> Browsers \cup {None}]
    /\ saved \in [Browsers -> SUBSET Keys]
    /\ overtaken \in SUBSET Uploads
    /\ crossed \in SUBSET Browsers
    /\ lost \in SUBSET Keys

\* "each secret transits exactly one response" (models.py:153): no overlap of page
\* loads that carry the same nonce shows a private key twice.
ShownOnce == \A k \in Keys : shown[k] <= 1

\* What has been shown is not on the server any more, dead workers included.
ShownIsDestroyed == \A k \in stash : shown[k] = 0

\* When operators rotate at the same time, each is shown the key it asked for.
ShownToItsMinter == \A b \in Browsers : \A k \in saved[b] : minter[k] = b

\* The private half of the current keypair can still be displayed, or has been: it is
\* with its request, or stashed and the browser that asked for it has the nonce.  It is
\* lost only to a kill between the commit of a rotation and the answer, to the TTL, or
\* to a browser whose requests overlap: its cookie holds one nonce, and the answers
\* replace each other's.  Rotations by other browsers never cost it.
CurrentKeyIsHeld ==
    public \notin lost \cup {NoKey} /\ minter[public] \notin crossed =>
        \/ shown[public] > 0
        \/ \E r \in Requests : key[r] = public /\ pc[r] \in {"stashing", "showing"}
        \/ /\ public \in stash \ expired
           /\ \/ cookie[minter[public]] = public
              \/ \E r \in Requests : key[r] = public /\ pc[r] = "redirecting"

\* e2ee_fingerprint is the "fingerprint of the site public key the backup was encrypted
\* to" (models.py:417), none when it was not, but for an upload that a rotation overtook
\* after the client had asked for the key: ingest() labels it with the new one.
LabelNamesKey ==
    \A u \in Uploads : at[u] = "stored" =>
        /\ [to |-> to[u], label |-> label[u]] \in backups
        /\ label[u] = to[u] \/ u \in overtaken

-----------------------------------------------------------------------------
(* The inductive invariant of ShownOnce *)

\* Keypair numbers in use have been issued.
OnlyIssued ==
    /\ public <= issued
    /\ stash \subseteq 1 .. issued
    /\ \A r \in Requests : key[r] <= issued
    /\ \A b \in Browsers : cookie[b] <= issued
    /\ \A k \in Keys : shown[k] > 0 => k <= issued

\* A keypair that is not stashed yet is known to its own request only.
FreshIsPrivate ==
    \A r \in Requests : pc[r] \in {"rotating", "stashing"} =>
        /\ key[r] \in Keys \ stash
        /\ shown[key[r]] = 0
        /\ \A q \in Requests \ {r} : key[q] # key[r]
        /\ \A b \in Browsers : cookie[b] # key[r]

\* The write lock is held between the read of a row and its deletion.
PopIsExclusive ==
    \A r \in Requests : pc[r] = "popping" => writer = r /\ key[r] \in stash

\* A secret about to be shown has been taken off the server by this request alone.
ShowIsExclusive ==
    \A r \in Requests : pc[r] = "showing" =>
        /\ key[r] \in Keys \ stash
        /\ shown[key[r]] = 0
        /\ \A q \in Requests \ {r} : pc[q] = "showing" => key[q] # key[r]

\* Keypairs are known to the browser that asked for them only.
KnownToMinter ==
    /\ \A r \in Requests : pc[r] # "idle" =>
          browser[r] \in Browsers /\ key[r] \in Keys /\ minter[key[r]] = browser[r]
    /\ \A b \in Browsers : cookie[b] # NoKey => minter[cookie[b]] = b
    /\ \A b \in Browsers : \A k \in saved[b] : k <= issued /\ minter[k] = b

\* A browser whose requests do not overlap has the nonce that its request came with,
\* and the key that it has committed is current or another browser's is.
OneByOne ==
    \A r \in Requests : pc[r] # "idle" /\ browser[r] \notin crossed =>
        /\ \A q \in Requests \ {r} : browser[q] # browser[r]
        /\ pc[r] \in {"viewing", "popping", "showing"} => cookie[browser[r]] = key[r]
        /\ pc[r] \in {"stashing", "redirecting"} /\ public # NoKey
              /\ minter[public] = browser[r] => public = key[r]

\* An upload goes with the current key, or with none, or has been overtaken.
UploadsFollowKey ==
    \A u \in Uploads :
        /\ at[u] = "encrypting" => to[u] \in {public, NoKey} \/ u \in overtaken
        /\ at[u] \in {"ingesting", "stored"} => label[u] = to[u] \/ u \in overtaken
        /\ at[u] = "stored" => [to |-> to[u], label |-> label[u]] \in backups

\* What makes each secret transit one response and the current one reachable: the
\* properties above and the states that lead to a violation ruled out.
IInv ==
    /\ TypeOK
    /\ OnlyIssued
    /\ FreshIsPrivate
    /\ PopIsExclusive
    /\ ShowIsExclusive
    /\ UploadsFollowKey
    /\ KnownToMinter
    /\ OneByOne
    /\ CurrentKeyIsHeld
    /\ ShownIsDestroyed
    /\ ShownOnce

=============================================================================
