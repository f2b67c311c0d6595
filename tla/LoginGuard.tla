------------------------------ MODULE LoginGuard ------------------------------
(***************************************************************************)
(* The lockout of the console's sign-in form (app/loginguard.py and the    *)
(* POST branch of login() in app/auth.py).  Failures are rows of a table   *)
(* that all worker processes share; a sign-in reads them, verifies the     *)
(* password -- slow by design -- and only then adds a row or clears some.  *)
(* Requests overlap between those steps.                                   *)
(*                                                                         *)
(* Requests that fail the Turnstile challenge never get here and are left  *)
(* out; so is the session a success creates.  Time is counted in half      *)
(* seconds, so that a lock can end in the middle of a second.              *)
(***************************************************************************)
EXTENDS Integers, FiniteSets

CONSTANTS
    Usernames,    \* submitted user names, normalised by _norm
    Addresses,    \* client addresses
    Requests,     \* sign-ins in progress at once: threads times workers
    Threshold,    \* LOGIN_MAX_FAILURES; not positive disables the lockout
    Window,       \* LOGIN_WINDOW_MINUTES, in half seconds
    NoClient,     \* the client of a request slot that is free
    Durations,    \* by which the clock advances
    MaxTime,      \* bounds the clock
    MaxFailures   \* bounds the failures ever recorded

Client == [username : Usernames, ip : Addresses]

ASSUME LoginGuardAssumption ==
    /\ IsFiniteSet(Requests)
    /\ Threshold \in Int
    /\ Window \in Nat \ {0}
    /\ {MaxTime, MaxFailures} \cup Durations \subseteq Nat
    /\ NoClient \notin Client

VARIABLES
    attempts,    \* the login_attempt table
    recorded,    \* how many failures have been recorded, which numbers the rows
    clock,       \* utcnow()
    pc,          \* where each sign-in is
    client       \* the user name and address of each sign-in

vars == <<attempts, recorded, clock, pc, client>>

Attempt == [id : Nat, username : Usernames, ip : Addresses, at : Nat]
Axes == {"username", "ip"}

Init ==
    /\ attempts = {}
    /\ recorded = 0
    /\ clock = 0
    /\ pc = [r \in Requests |-> "idle"]
    /\ client = [r \in Requests |-> NoClient]

-----------------------------------------------------------------------------
(* check_locked *)

\* The failures of value v on an axis that count at time now.
Failures(axis, v, now) == {a \in attempts : a[axis] = v /\ a.at > now - Window}

\* Mutant of AxisLocked: one failure more than the limit.
AxisLockedLate(axis, c, now) ==
    Threshold > 0 /\ Cardinality(Failures(axis, c[axis], now)) > Threshold

AxisLocked(axis, c, now) ==
    Threshold > 0 /\ Cardinality(Failures(axis, c[axis], now)) >= Threshold

LockedAt(c, now) == \E axis \in Axes : AxisLocked(axis, c, now)
Locked(c) == LockedAt(c, clock)

Later(a, b) == a.at > b.at \/ (a.at = b.at /\ a.id > b.id)

\* Mutant of AxisUntil: the lock lasts until the oldest failure has aged out.
AxisUntilOldest(axis, c) ==
    LET times == {a.at : a \in Failures(axis, c[axis], clock)}
    IN  (CHOOSE t \in times : \A s \in times : t <= s) + Window

\* times[-threshold] + window: when the failure ages out that brings the count of an
\* axis below the threshold.
AxisUntil(axis, c) ==
    LET failures == Failures(axis, c[axis], clock)
        pivot == CHOOSE a \in failures :
                     Cardinality({b \in failures : Later(b, a)}) = Threshold - 1
    IN  pivot.at + Window

\* The later of the ends of the axes that are locked.
LockedUntil(c) ==
    LET ends == {AxisUntil(axis, c) : axis \in {x \in Axes : AxisLocked(x, c, clock)}}
    IN  CHOOSE t \in ends : \A s \in ends : s <= t

\* int((locked_until - now).total_seconds()) + 1
RetryAfter(c) == (LockedUntil(c) - clock) \div 2 + 1

\* Mutant of Minutes: whole minutes only.
MinutesTruncated(seconds) == IF seconds < 60 THEN 1 ELSE seconds \div 60

\* max(1, round(seconds / 60)), which rounds a half to even.
Minutes(seconds) ==
    LET minutes == seconds \div 60
        rest == seconds % 60
        up == rest > 30 \/ (rest = 30 /\ minutes % 2 = 1)
    IN  IF up \/ minutes = 0 THEN minutes + 1 ELSE minutes

\* "Please wait about {mins} minutes": what a client that is locked out is told.
ToldToWait(c) == 120 * Minutes(RetryAfter(c))

-----------------------------------------------------------------------------
(* login, POST *)

Free(r) ==
    /\ pc' = [pc EXCEPT ![r] = "idle"]
    /\ client' = [client EXCEPT ![r] = NoClient]

\* The sign-in is not locked out: on to the password.
Admit(r, c) ==
    /\ pc[r] = "idle"
    /\ ~Locked(c)
    /\ pc' = [pc EXCEPT ![r] = "verifying"]
    /\ client' = [client EXCEPT ![r] = c]
    /\ UNCHANGED <<attempts, recorded, clock>>

\* Mutant of Succeed: the address is forgiven everything as well.
SucceedForgivingIp(r) ==
    /\ pc[r] = "verifying"
    /\ attempts' = {a \in attempts : a.username # client[r].username /\ a.ip # client[r].ip}
    /\ Free(r)
    /\ UNCHANGED <<recorded, clock>>

\* The password is right: clear() forgets the failures of the user name.
Succeed(r) ==
    /\ pc[r] = "verifying"
    /\ attempts' = {a \in attempts : a.username # client[r].username}
    /\ Free(r)
    /\ UNCHANGED <<recorded, clock>>

\* It is wrong, or there is no such user: record_failure() commits a row.
Fail(r) ==
    /\ pc[r] = "verifying"
    /\ recorded < MaxFailures
    /\ recorded' = recorded + 1
    /\ attempts' = attempts \cup {[id |-> recorded + 1, username |-> client[r].username,
                                   ip |-> client[r].ip, at |-> clock]}
    /\ pc' = [pc EXCEPT ![r] = "pruning"]
    /\ UNCHANGED <<clock, client>>

\* Mutant of Prune: the window is left out of the cutoff.
PruneEverythingOld(r) ==
    /\ pc[r] = "pruning"
    /\ attempts' = {a \in attempts : a.at >= clock}
    /\ Free(r)
    /\ UNCHANGED <<recorded, clock>>

\* _prune(), in a transaction of its own.
Prune(r) ==
    /\ pc[r] = "pruning"
    /\ attempts' = {a \in attempts : a.at >= clock - Window}
    /\ Free(r)
    /\ UNCHANGED <<recorded, clock>>

\* The database refuses it; the failure stays recorded and the prune is forgotten.
PruneFails(r) ==
    /\ pc[r] = "pruning"
    /\ Free(r)
    /\ UNCHANGED <<attempts, recorded, clock>>

\* The worker is killed while it verifies: nothing is recorded.
Die(r) ==
    /\ pc[r] = "verifying"
    /\ Free(r)
    /\ UNCHANGED <<attempts, recorded, clock>>

Tick ==
    /\ \E duration \in Durations : clock' = clock + duration
    /\ clock' <= MaxTime
    /\ UNCHANGED <<attempts, recorded, pc, client>>

SignIn(r) ==
    \/ \E c \in Client : Admit(r, c)
    \/ Succeed(r)
    \/ Fail(r)
    \/ Prune(r)
    \/ PruneFails(r)
    \/ Die(r)

Next == Tick \/ \E r \in Requests : SignIn(r)

Spec == Init /\ [][Next]_vars

-----------------------------------------------------------------------------
(* Properties *)

\* The sign-ins on their way to the verdict on their password.
Verifying(axis, v) == {r \in Requests : pc[r] = "verifying" /\ client[r][axis] = v}

TypeOK ==
    /\ attempts \in SUBSET Attempt
    /\ recorded \in 0 .. MaxFailures
    /\ clock \in 0 .. MaxTime
    /\ pc \in [Requests -> {"idle", "verifying", "pruning"}]
    /\ client \in [Requests -> Client \cup {NoClient}]
    /\ \A r \in Requests : client[r] = NoClient <=> pc[r] = "idle"
    /\ \A a, b \in attempts : a.id = b.id => a = b
    /\ \A a \in attempts : a.id <= recorded /\ a.at <= clock

\* Overlapping sign-ins all pass the check before any of them records its failure, so
\* the count overshoots the threshold; but by no more than one failure for each
\* request that can be in progress, counting those that have yet to fail.
OvershootIsBounded ==
    Threshold > 0 =>
        \A axis \in Axes : \A v \in Usernames \cup Addresses :
            Cardinality(Failures(axis, v, clock)) + Cardinality(Verifying(axis, v))
                <= Threshold - 1 + Cardinality(Requests)

\* locked_until is right: the client stays locked out until then if nobody fails again
\* (failures only leave the window as time passes), and not a moment longer, "so the
\* lock self-clears without a background job" -- also after overlapping sign-ins have
\* overshot the threshold.
LockedUntilIsExact ==
    \A c \in Client : Locked(c) =>
        /\ LockedUntil(c) > clock
        /\ LockedAt(c, LockedUntil(c) - 1)
        /\ ~LockedAt(c, LockedUntil(c))

\* The time that a client is told, to the minute, is about right: the lock is over half
\* a minute after it at the latest, and a client told more than one minute stays locked
\* out until 31 seconds before it.
ToldWaitIsClose ==
    \A c \in Client : Locked(c) =>
        /\ ~LockedAt(c, clock + ToldToWait(c) + 60)
        /\ ToldToWait(c) > 120 => LockedAt(c, clock + ToldToWait(c) - 63)

\* Rows that a prune drops "can never affect a lock" (loginguard.py:113): it unlocks
\* nobody, however long after its own failure it runs.
PruneUnlocksNobody ==
    [][(\E r \in Requests : pc[r] = "pruning" /\ pc'[r] = "idle")
           => \A c \in Client : Locked(c) => Locked(c)']_vars

\* A failure leaves the count only with its age or when its own user name signs in:
\* "one honest login must not reset the per-IP failure budget" others have used up
\* (clear(), loginguard.py:103).  The head of the module says that a success clears "that
\* username's and that IP's failures" (line 15), which is not what clear() does.
FailuresAreNotForgiven ==
    [][\A a \in attempts \ attempts' :
           \/ a.at < clock - Window
           \/ \E r \in Requests : /\ pc[r] = "verifying"
                                  /\ pc'[r] = "idle"
                                  /\ client[r].username = a.username]_vars
=============================================================================
