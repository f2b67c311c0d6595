---------------------------- MODULE RemoteRestore ----------------------------
(***************************************************************************)
(* Remote restore: a site publishes where it can be reached and a token    *)
(* (register, app/api.py), an admin may pin the host, and an operator      *)
(* confirms the endpoint and pushes a backup to it together with the       *)
(* site's private key (backup_restore, app/routes.py; push_restore,        *)
(* app/restore_push.py).                                                   *)
(*                                                                         *)
(* A request reads the site's row, decides, and commits.  SQLAlchemy       *)
(* writes only the columns the request has changed from what it had read,  *)
(* and reads the row again after a commit.                                 *)
(***************************************************************************)
EXTENDS Integers, FiniteSets

CONSTANTS
    Urls,        \* callback URLs
    Hosts,       \* host names
    HostOf,      \* the host of each URL
    Tokens,      \* restore tokens
    Clients,     \* /register requests in progress at once
    Operators,   \* operators' browsers, each with one restore page
    None,        \* NULL
    Overlap,     \* how many requests may be between a read and a commit at once
    MaxChanges   \* bounds the registrations and the changes of the pin

ASSUME RemoteRestoreAssumption ==
    /\ HostOf \in [Urls -> Hosts]
    /\ None \notin Urls \cup Hosts \cup Tokens \cup (Urls \X Tokens)
    /\ "restore" \notin Hosts \cup {None}
    /\ {Overlap, MaxChanges} \subseteq Nat

VARIABLES
    site,        \* the columns of the site's row that matter here
    rpc,         \* where each /register request is
    form,        \* what it publishes
    rread,       \* the row as it has read it
    opc,         \* where each operator's restore is
    typed,       \* what the operator types to confirm
    oread,       \* the row as the POST has read it
    target,      \* where the push goes: <<url, token>>
    changes,     \* how many registrations and changes of the pin there have been
    verified,    \* history: endpoints an operator has confirmed
    published,   \* history: endpoints a site has published
    moved,       \* history: endpoints registered while a restore was being confirmed
    mixed,       \* history: endpoints left by a registration that had read an older one
    pushed       \* history: endpoints that were sent a private key

register == <<rpc, form, rread>>
restore == <<opc, typed, oread, target>>
history == <<verified, published, moved, mixed, pushed>>
vars == <<site, register, restore, changes, history>>

SiteRow == [enabled : BOOLEAN, url : Urls \cup {None}, token : Tokens \cup {None},
            acked : (Urls \X Tokens) \cup {None}, pinned : Hosts \cup {None}]

\* A registration turns remote restore on, naming a URL, a token, both or neither, or
\* turns it off.
Forms == [enabled : BOOLEAN, url : Urls \cup {None}, token : Tokens \cup {None}]

NoForm == [enabled |-> FALSE, url |-> None, token |-> None]

NewSite == [enabled |-> FALSE, url |-> None, token |-> None, acked |-> None, pinned |-> None]

Init ==
    /\ site = NewSite
    /\ rpc = [c \in Clients |-> "idle"]
    /\ form = [c \in Clients |-> NoForm]
    /\ rread = [c \in Clients |-> NewSite]
    /\ opc = [o \in Operators |-> "away"]
    /\ typed = [o \in Operators |-> None]
    /\ oread = [o \in Operators |-> NewSite]
    /\ target = [o \in Operators |-> None]
    /\ changes = 0
    /\ verified = {}
    /\ published = {}
    /\ moved = {}
    /\ mixed = {}
    /\ pushed = {}

\* The row after a commit of `new' by a request that had read `old'.
Saved(old, new) ==
    [column \in DOMAIN site |-> IF new[column] = old[column] THEN site[column] ELSE new[column]]

\* _restore_endpoint_pair
Pair(s) == IF s.url = None \/ s.token = None THEN None ELSE <<s.url, s.token>>

Ready(s) == s.enabled /\ Pair(s) # None

\* Mutant of EndpointChanged: the token is left out of what was confirmed.
UrlChanged(s) == Pair(s) # None /\ s.url \notin {a[1] : a \in {s.acked} \ {None}}

EndpointChanged(s) == Pair(s) # None /\ Pair(s) # s.acked

\* The endpoint of a row, if it has one.
Endpoint(s) == {Pair(s)} \ {None}

\* Restores whose confirmation is submitted and whose endpoint is still to be read again.
BetweenReads == {o \in Operators : opc[o] \in {"confirming", "reloading"}}

\* What a registration by c does to the history.
Recorded(c, new) ==
    /\ published' = published \cup Endpoint(new)
    /\ moved' = IF BetweenReads = {} THEN moved ELSE moved \cup Endpoint(site')
    /\ mixed' = IF <<rread[c].url, rread[c].token>> = <<site.url, site.token>>
                   THEN mixed ELSE mixed \cup Endpoint(site')

Busy ==
    Cardinality({c \in Clients : rpc[c] = "committing"})
        + Cardinality(BetweenReads)

-----------------------------------------------------------------------------
(* register *)

Changes ==
    /\ changes < MaxChanges
    /\ changes' = changes + 1

\* Mutant of PinAllows: the pin is looked at when it is already the URL's host.
PinIgnored(s, f) == TRUE

PinAllows(s, f) == f.url # None /\ s.pinned # None => HostOf[f.url] = s.pinned

\* The row is read, and the URL checked against the pin; otherwise 403.
Register(c, f) ==
    /\ rpc[c] = "idle"
    /\ Busy < Overlap
    /\ PinAllows(site, f)
    /\ Changes
    /\ rpc' = [rpc EXCEPT ![c] = "committing"]
    /\ form' = [form EXCEPT ![c] = f]
    /\ rread' = [rread EXCEPT ![c] = site]
    /\ UNCHANGED <<site, restore, history>>

Answered(c) ==
    /\ rpc' = [rpc EXCEPT ![c] = "idle"]
    /\ form' = [form EXCEPT ![c] = NoForm]
    /\ rread' = [rread EXCEPT ![c] = NewSite]

\* What an enabling form makes of a row: what it does not name stays.
Filled(row, f) ==
    [row EXCEPT !.enabled = TRUE,
                !.url = IF f.url = None THEN @ ELSE f.url,
                !.token = IF f.token = None THEN @ ELSE f.token]

\* Mutant of CommitEndpoint: a new URL keeps the token on file.
CommitUrlOnly(c) ==
    LET f == form[c]
        new == Filled(rread[c], f)
    IN  /\ rpc[c] = "committing"
        /\ f.enabled
        /\ site' = [Saved(rread[c], new) EXCEPT
                             !.token = IF site.token = None THEN f.token ELSE site.token]
        /\ Recorded(c, new)
        /\ Answered(c)
        /\ UNCHANGED <<restore, changes, verified, pushed>>

\* A column is written if it differs from what was read; a token always, being
\* encrypted afresh.
CommitEndpoint(c) ==
    LET f == form[c]
        new == Filled(rread[c], f)
    IN  /\ rpc[c] = "committing"
        /\ f.enabled
        /\ site' = [Saved(rread[c], new) EXCEPT !.token = IF f.token = None THEN @ ELSE f.token]
        /\ Recorded(c, new)
        /\ Answered(c)
        /\ UNCHANGED <<restore, changes, verified, pushed>>

\* "forget how to reach it so a stale URL/token can never be used".
CommitOff(c) ==
    /\ rpc[c] = "committing"
    /\ ~form[c].enabled
    /\ site' = Saved(rread[c], [rread[c] EXCEPT !.enabled = FALSE, !.url = None,
                                                !.token = None, !.acked = None])
    /\ Answered(c)
    /\ UNCHANGED <<restore, changes, history>>

\* site_edit, by an admin.
Pin(host) ==
    /\ Busy < Overlap
    /\ host # site.pinned
    /\ Changes
    /\ site' = [site EXCEPT !.pinned = host]
    /\ UNCHANGED <<register, restore, history>>

-----------------------------------------------------------------------------
(* backup_restore *)

Leave(o) ==
    /\ opc' = [opc EXCEPT ![o] = "away"]
    /\ typed' = [typed EXCEPT ![o] = None]
    /\ oread' = [oread EXCEPT ![o] = NewSite]
    /\ target' = [target EXCEPT ![o] = None]

\* GET: the operator sees the endpoint and types what the page asks for, having
\* verified the host when that is what it asks for.
Look(o) ==
    /\ opc[o] = "away"
    /\ Ready(site)
    /\ opc' = [opc EXCEPT ![o] = "reading"]
    /\ typed' = [typed EXCEPT ![o] = IF EndpointChanged(site) THEN HostOf[site.url] ELSE "restore"]
    /\ UNCHANGED <<site, register, oread, target, changes, history>>

\* POST of a changed endpoint: the host was typed, which confirms it.
SubmitChanged(o) ==
    /\ opc[o] = "reading"
    /\ Busy < Overlap
    /\ Ready(site)
    /\ EndpointChanged(site)
    /\ typed[o] = HostOf[site.url]
    /\ opc' = [opc EXCEPT ![o] = "confirming"]
    /\ oread' = [oread EXCEPT ![o] = site]
    /\ UNCHANGED <<site, register, typed, target, changes, history>>

\* ack_restore_endpoint and its commit.
CommitAck(o) ==
    /\ opc[o] = "confirming"
    /\ site' = Saved(oread[o], [oread[o] EXCEPT !.acked = Pair(oread[o])])
    /\ verified' = verified \cup {Pair(oread[o])}
    /\ opc' = [opc EXCEPT ![o] = "reloading"]
    /\ UNCHANGED <<register, typed, oread, target, changes, published, moved, mixed, pushed>>

\* push_restore reads the row again: the commit has expired it.
Reload(o) ==
    /\ opc[o] = "reloading"
    /\ Ready(site)
    /\ target' = [target EXCEPT ![o] = Pair(site)]
    /\ opc' = [opc EXCEPT ![o] = "pushing"]
    /\ UNCHANGED <<site, register, typed, oread, changes, history>>

\* POST of an endpoint that is as it was confirmed.
SubmitUnchanged(o) ==
    /\ opc[o] = "reading"
    /\ Busy < Overlap
    /\ Ready(site)
    /\ ~EndpointChanged(site)
    /\ typed[o] = "restore"
    /\ target' = [target EXCEPT ![o] = Pair(site)]
    /\ opc' = [opc EXCEPT ![o] = "pushing"]
    /\ UNCHANGED <<site, register, typed, oread, changes, history>>

\* The archive is sent, and the private key with its last request.
Push(o) ==
    /\ opc[o] = "pushing"
    /\ pushed' = pushed \cup {target[o]}
    /\ Leave(o)
    /\ UNCHANGED <<site, register, changes, verified, published, moved, mixed>>

\* The confirmation does not match, there is no private key, the site is not ready any
\* more, or a chunk is refused: the operator is sent back to the page.
Refuse(o) ==
    /\ opc[o] \in {"reading", "reloading", "pushing"}
    /\ Leave(o)
    /\ UNCHANGED <<site, register, changes, history>>

Next ==
    \/ \E c \in Clients : (\E f \in Forms : Register(c, f)) \/ CommitEndpoint(c) \/ CommitOff(c)
    \/ \E host \in Hosts \cup {None} : Pin(host)
    \/ \E o \in Operators : \/ Look(o) \/ SubmitChanged(o) \/ CommitAck(o) \/ Reload(o)
                            \/ SubmitUnchanged(o) \/ Push(o) \/ Refuse(o)

Spec == Init /\ [][Next]_vars

-----------------------------------------------------------------------------
(* Properties *)

TypeOK ==
    /\ site \in SiteRow
    /\ rpc \in [Clients -> {"idle", "committing"}]
    /\ form \in [Clients -> Forms]
    /\ rread \in [Clients -> SiteRow]
    /\ opc \in [Operators -> {"away", "reading", "confirming", "reloading", "pushing"}]
    /\ typed \in [Operators -> Hosts \cup {"restore", None}]
    /\ oread \in [Operators -> SiteRow]
    /\ target \in [Operators -> (Urls \X Tokens) \cup {None}]
    /\ changes \in 0 .. MaxChanges
    /\ {verified, published, moved, mixed, pushed} \subseteq SUBSET (Urls \X Tokens)

\* The private key goes only to an endpoint -- URL and token -- that an operator has
\* confirmed, "a silently moved endpoint can't phish the private key" (models.py:259); but
\* for one that a site registers between the confirmation and the push, which the push
\* follows.
PushedToVerified == pushed \subseteq verified \cup moved

\* The endpoint on file is one that a site has published, URL and token together: "we just
\* overwrite" (api.py:349).  Overlapping registrations mix theirs.
EndpointWasPublished == Ready(site) => Pair(site) \in published \cup mixed

\* "When set, /register refuses to move the callback URL to any other host"
\* (models.py:261-262): only a registration that was checked before the pin was set does.
PinHolds ==
    [][site'.url \notin {site.url, None} /\ site.pinned \notin {None, HostOf[site'.url]}
           => \E c \in Clients : /\ rpc[c] = "committing" /\ rpc'[c] = "idle"
                                 /\ rread[c].pinned # site.pinned]_vars
-----------------------------------------------------------------------------
(* The inductive invariant of these three *)

\* What counts as confirmed has been.
AckIsVerified == site.acked \in verified \cup {None}

\* The endpoint on file is still the one being confirmed, unless it has moved since.
ConfirmsWhatIsOnFile ==
    \A o \in Operators : opc[o] = "confirming" =>
        Pair(oread[o]) # None /\ Pair(site) \in moved \cup {None, Pair(oread[o])}

\* What push_restore is about to read is confirmed, or has moved since.
ReloadsWhatIsConfirmed ==
    \A o \in Operators : opc[o] = "reloading" =>
        Pair(site) \in verified \cup moved \cup {None}

TargetIsVerified ==
    \A o \in Operators : opc[o] = "pushing" => target[o] \in verified \cup moved

\* An endpoint is on file, remote restore on or off, because it was published or mixed.
OnFileWasPublished == Pair(site) \in published \cup mixed \cup {None}

\* A registration under way has passed the check against the pin it has read.
CheckedAgainstPin ==
    \A c \in Clients : rpc[c] = "committing" => PinAllows(rread[c], form[c])

IInv ==
    /\ TypeOK
    /\ AckIsVerified
    /\ ConfirmsWhatIsOnFile
    /\ ReloadsWhatIsConfirmed
    /\ TargetIsVerified
    /\ PushedToVerified
    /\ OnFileWasPublished
    /\ CheckedAgainstPin
=============================================================================
