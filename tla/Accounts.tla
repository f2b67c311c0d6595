------------------------------- MODULE Accounts -------------------------------
(***************************************************************************)
(* Console accounts and their sessions: signing in, changing a password,   *)
(* adding and deleting users (app/auth.py, app/routes.py), and what every  *)
(* worker does to the table before it serves (_seed_admin and              *)
(* _flag_default_passwords, app/__init__.py).                              *)
(*                                                                         *)
(* A handler reads rows, decides, and commits later.  The ORM updates and  *)
(* deletes by primary key, and reads a row again after a commit.  SQLite   *)
(* hands the id of a deleted last row out again.                           *)
(***************************************************************************)
EXTENDS Integers, FiniteSets, FiniteSetsExt

CONSTANTS
    Workers,      \* gunicorn worker processes
    Requests,     \* console requests in progress at once
    Names,        \* usernames
    SeedName,     \* TSPB_ADMIN_USERNAME
    None,         \* no worker
    MaxPasswords, \* bounds the passwords ever set
    MaxRestarts   \* bounds the restarts of a worker

ASSUME AccountsAssumption ==
    /\ IsFiniteSet(Workers)
    /\ SeedName \in Names
    /\ None \notin Workers
    /\ {MaxPasswords, MaxRestarts} \subseteq Nat

VARIABLES
    users,     \* the rows of admin_user, by id
    tokens,    \* every session token (session or remember cookie) ever issued
    phase,     \* where each worker is in create_app()
    flagged,   \* the accounts each worker has found with the default password
    pc,        \* where the handler of each request is
    req,       \* what it has read
    passwords, \* passwords set so far, which numbers them; 0 is the shipped default
    restarts,
    raced,     \* history: a deletion committed although an admin that its check had
               \* counted was gone, or a table was seeded that was empty no more
    overtaken, \* history: requests about to issue a token, whose account got another
               \* password since they were shown one
    skipped    \* history: accounts with the default password that were there, unmarked,
               \* when an exception ended a search for such accounts

vars == <<users, tokens, phase, flagged, pc, req, passwords, restarts, raced, overtaken,
          skipped>>

Default == 0
\* A row is inserted with a password that is new, or by a boot of a worker.
Ids == 1 .. MaxPasswords + MaxRestarts + Cardinality(Workers)
Existing == DOMAIN users
Named(name) == \E i \in Existing : users[i].name = name
AdminsOf(rows) == {i \in DOMAIN rows : rows[i].admin}
Serving == {w \in Workers : phase[w] = "serving"}

\* Integer primary keys without AUTOINCREMENT.
FreshId == IF Existing = {} THEN 1 ELSE Max(Existing) + 1

\* `home' is the worker that serves a request, `id' the row it acts on, `epoch' what it
\* has read of it, `proof' the password it was shown; `counted' is the admins there were
\* when a deletion was checked.
NoReq == [home |-> None, id |-> 0, epoch |-> 0, proof |-> Default, name |-> SeedName,
          admin |-> FALSE, counted |-> {}]

Init ==
    /\ users = << >>
    /\ tokens = {}
    /\ phase = [w \in Workers |-> "booting"]
    /\ flagged = [w \in Workers |-> {}]
    /\ pc = [r \in Requests |-> "idle"]
    /\ req = [r \in Requests |-> NoReq]
    /\ passwords = 0
    /\ restarts = 0
    /\ raced = FALSE
    /\ overtaken = {}
    /\ skipped = {}

Enter(r, label, what) ==
    /\ pc' = [pc EXCEPT ![r] = label]
    /\ req' = [req EXCEPT ![r] = what]

Leave(r) == Enter(r, "idle", NoReq)

\* History, see SessionsAreCurrent: tokens of an account whose epoch is set back, and
\* requests that were shown a password it had before.
Excuse(id, epoch) ==
    {[t EXCEPT !.excused = @ \/ (t.id = id /\ t.epoch >= epoch)] : t \in tokens}

Issuing(id) == {s \in Requests : pc[s] = "issuing" /\ req[s].id = id}

Insert(name, password, admin) ==
    /\ users' = [i \in Existing \cup {FreshId} |->
                    IF i \in Existing THEN users[i]
                    ELSE [name |-> name, admin |-> admin, pw |-> password, epoch |-> 0,
                          must |-> FALSE]]
    /\ tokens' = Excuse(FreshId, 0)
    /\ overtaken' = overtaken \cup Issuing(FreshId)

-----------------------------------------------------------------------------
(* create_app(), in every worker *)

Boot(w, from, to) ==
    /\ phase[w] = from
    /\ phase' = [phase EXCEPT ![w] = to]
    /\ UNCHANGED <<pc, req, passwords, restarts>>

SeedNeeded(w) ==
    /\ Boot(w, "booting", IF Existing = {} THEN "seeding" ELSE "flagging")
    /\ UNCHANGED <<users, tokens, flagged, raced, overtaken, skipped>>

\* The loser hits the UNIQUE constraint, and rolls back.
Seed ==
    IF Named(SeedName) THEN UNCHANGED <<users, tokens, raced, overtaken>>
    ELSE Insert(SeedName, Default, TRUE) /\ raced' = (raced \/ Existing # {})

\* Mutant of SeedAdmin: who loses the race to insert leaves the rest to the winner.
SeedAdminLoserServes(w) ==
    /\ Boot(w, "seeding", IF Named(SeedName) THEN "serving" ELSE "flagging")
    /\ Seed
    /\ UNCHANGED <<flagged, skipped>>

SeedAdmin(w) ==
    /\ Boot(w, "seeding", "flagging")
    /\ Seed
    /\ UNCHANGED <<flagged, skipped>>

FindDefaults(w) ==
    /\ Boot(w, "flagging", "committing")
    /\ flagged' = [flagged EXCEPT ![w] =
                      {i \in Existing : users[i].pw = Default /\ ~users[i].must}]
    /\ UNCHANGED <<users, tokens, raced, overtaken, skipped>>

\* Mutant of FlagDefaults: rows are merged, which inserts the ones that are gone.
MergeDefaults(w) ==
    /\ Boot(w, "committing", "serving")
    /\ users' = [i \in Existing \cup flagged[w] |->
                    IF i \in Existing THEN [users[i] EXCEPT !.must = @ \/ i \in flagged[w]]
                    ELSE [must |-> TRUE]]
    /\ flagged' = [flagged EXCEPT ![w] = {}]
    /\ skipped' = skipped \ flagged[w]
    /\ UNCHANGED <<tokens, raced, overtaken>>

\* One transaction: when a row has been deleted since, it is rolled back.
FlagDefaults(w) ==
    /\ Boot(w, "committing", "serving")
    /\ users' = IF flagged[w] \subseteq Existing
                THEN [i \in Existing |->
                         [users[i] EXCEPT !.must = @ \/ i \in flagged[w]]]
                ELSE users
    /\ flagged' = [flagged EXCEPT ![w] = {}]
    /\ skipped' = IF flagged[w] \subseteq Existing THEN skipped \ flagged[w] ELSE skipped
    /\ UNCHANGED <<tokens, raced, overtaken>>

\* Any other exception, of the query or of the commit (a locked database, a full disk), is
\* swallowed: "never block boot on this hygiene check".
FlagFails(w) ==
    /\ \E from \in {"flagging", "committing"} : Boot(w, from, "serving")
    /\ flagged' = [flagged EXCEPT ![w] = {}]
    /\ skipped' = skipped \cup
                     {i \in Existing : users[i].pw = Default /\ ~users[i].must}
    /\ UNCHANGED <<users, tokens, raced, overtaken>>

-----------------------------------------------------------------------------
(* Sign-in *)

Start(r, w) == pc[r] = "idle" /\ w \in Serving

\* The row by its name, and the password verified against it (LoginGuard has the rest).
VerifyPassword(r, w, i) ==
    /\ Start(r, w)
    /\ Enter(r, "issuing", [NoReq EXCEPT !.home = w, !.id = i, !.proof = users[i].pw])
    /\ UNCHANGED <<users, tokens, phase, flagged, passwords, restarts, raced,
                   overtaken, skipped>>

\* login_user(), after a commit that has expired the row: it is read again, and the
\* token carries the epoch it has now.  When the row is gone, reading it raises.
LoginUser(r) ==
    LET i == req[r].id
    IN  /\ pc[r] = "issuing"
        /\ Leave(r)
        /\ tokens' = IF i \in Existing
                     THEN tokens \cup {[id |-> i, epoch |-> users[i].epoch,
                                        proof |-> req[r].proof,
                                        excused |-> r \in overtaken]}
                     ELSE tokens
        /\ overtaken' = overtaken \ {r}
        /\ UNCHANGED <<users, phase, flagged, passwords, restarts, raced, skipped>>

\* _load_user.
Accepted(t) == t.id \in Existing /\ t.epoch = users[t.id].epoch

-----------------------------------------------------------------------------
(* account() and force_password_change() *)

\* The gate sends an account with must_change_password to the wizard, and the wizard
\* sends every other one away.  The current password, where it is asked for, is right.
LoadForChange(r, w, t) ==
    /\ Start(r, w)
    /\ Accepted(t)
    /\ passwords < MaxPasswords
    /\ Enter(r, IF users[t.id].must THEN "forced" ELSE "changing",
                [NoReq EXCEPT !.home = w, !.id = t.id, !.epoch = users[t.id].epoch])
    /\ UNCHANGED <<users, tokens, phase, flagged, passwords, restarts, raced,
                   overtaken, skipped>>

\* When the epoch is not any more what was read, another change has written the same, or
\* a later one, and its tokens may be accepted again.
ExcuseOverlap(r, i, epoch) ==
    tokens' = IF users[i].epoch = req[r].epoch THEN tokens ELSE Excuse(i, epoch)

\* Mutant of CommitChange: the other sessions of the account are forgotten about.
CommitChangeNoBump(r) ==
    LET i == req[r].id
        epoch == req[r].epoch
    IN  /\ pc[r] \in {"changing", "forced"}
        /\ i \in Existing
        /\ passwords < MaxPasswords
        /\ passwords' = passwords + 1
        /\ users' = [users EXCEPT ![i].pw = passwords', ![i].epoch = epoch,
                                  ![i].must = @ /\ pc[r] = "changing"]
        /\ ExcuseOverlap(r, i, epoch)
        /\ overtaken' = overtaken \cup Issuing(i)
        /\ Enter(r, "issuing", [req[r] EXCEPT !.proof = passwords', !.epoch = 0])
        /\ UNCHANGED <<phase, flagged, restarts, raced, skipped>>

\* The epoch written is the one that was read, plus one, whatever it is by now.
CommitChange(r) ==
    LET i == req[r].id
        epoch == req[r].epoch + 1
    IN  /\ pc[r] \in {"changing", "forced"}
        /\ i \in Existing
        /\ passwords < MaxPasswords
        /\ passwords' = passwords + 1
        /\ users' = [users EXCEPT ![i].pw = passwords', ![i].epoch = epoch,
                                  ![i].must = @ /\ pc[r] = "changing"]
        /\ ExcuseOverlap(r, i, epoch)
        /\ overtaken' = overtaken \cup Issuing(i)
        /\ Enter(r, "issuing", [req[r] EXCEPT !.proof = passwords', !.epoch = 0])
        /\ UNCHANGED <<phase, flagged, restarts, raced, skipped>>

-----------------------------------------------------------------------------
(* user_create() and user_delete(), by a signed-in admin *)

AsAdmin(r, w, t) ==
    /\ Start(r, w)
    /\ Accepted(t)
    /\ users[t.id].admin
    /\ ~users[t.id].must

CheckName(r, w, t, name, admin) ==
    /\ AsAdmin(r, w, t)
    /\ ~Named(name)
    /\ passwords < MaxPasswords
    /\ Enter(r, "creating", [NoReq EXCEPT !.home = w, !.name = name, !.admin = admin])
    /\ UNCHANGED <<users, tokens, phase, flagged, passwords, restarts, raced,
                   overtaken, skipped>>

CommitUser(r) ==
    /\ pc[r] = "creating"
    /\ ~Named(req[r].name)
    /\ passwords < MaxPasswords
    /\ passwords' = passwords + 1
    /\ Insert(req[r].name, passwords', req[r].admin)
    /\ Leave(r)
    /\ UNCHANGED <<phase, flagged, restarts, raced, skipped>>

\* Not oneself; the admins are counted only for a target that was read as one.
LoadTarget(r, w, t, i) ==
    /\ AsAdmin(r, w, t)
    /\ i \in Existing \ {t.id}
    /\ Enter(r, IF users[i].admin THEN "counting" ELSE "deleting",
                [NoReq EXCEPT !.home = w, !.id = i, !.counted = AdminsOf(users)])
    /\ UNCHANGED <<users, tokens, phase, flagged, passwords, restarts, raced,
                   overtaken, skipped>>

\* Mutant of CountAdmins: whoever deletes is an admin, so one is left.
CountNobody(r) ==
    /\ pc[r] = "counting"
    /\ Enter(r, "deleting", [req[r] EXCEPT !.counted = AdminsOf(users)])
    /\ UNCHANGED <<users, tokens, phase, flagged, passwords, restarts, raced,
                   overtaken, skipped>>

CountAdmins(r) ==
    /\ pc[r] = "counting"
    /\ IF Cardinality(AdminsOf(users)) > 1
       THEN Enter(r, "deleting", [req[r] EXCEPT !.counted = AdminsOf(users)])
       ELSE Leave(r)
    /\ UNCHANGED <<users, tokens, phase, flagged, passwords, restarts, raced,
                   overtaken, skipped>>

\* By id; a row that is gone is not missed.
CommitDelete(r) ==
    /\ pc[r] = "deleting"
    /\ users' = [i \in Existing \ {req[r].id} |-> users[i]]
    /\ raced' = (raced \/ ~(req[r].counted \subseteq AdminsOf(users)))
    /\ skipped' = skipped \ {req[r].id}
    /\ Leave(r)
    /\ UNCHANGED <<tokens, phase, flagged, passwords, restarts, overtaken>>

-----------------------------------------------------------------------------
\* An exception: the row to change is gone, or the name is taken, or the database is busy.
Fail(r) ==
    /\ pc[r] # "idle"
    /\ Leave(r)
    /\ overtaken' = overtaken \ {r}
    /\ UNCHANGED <<users, tokens, phase, flagged, passwords, restarts, raced, skipped>>

\* A worker dies, anywhere, with its requests, and boots again.
Restart(w) ==
    /\ restarts < MaxRestarts
    /\ restarts' = restarts + 1
    /\ phase' = [phase EXCEPT ![w] = "booting"]
    /\ flagged' = [flagged EXCEPT ![w] = {}]
    /\ pc' = [r \in Requests |-> IF req[r].home = w THEN "idle" ELSE pc[r]]
    /\ req' = [r \in Requests |-> IF req[r].home = w THEN NoReq ELSE req[r]]
    /\ overtaken' = {r \in overtaken : req[r].home # w}
    /\ UNCHANGED <<users, tokens, passwords, raced, skipped>>

Begin(r, w) ==
    \/ \E i \in Existing : VerifyPassword(r, w, i)
    \/ \E t \in tokens :
          \/ LoadForChange(r, w, t)
          \/ \E name \in Names, admin \in BOOLEAN : CheckName(r, w, t, name, admin)
          \/ \E i \in Existing : LoadTarget(r, w, t, i)

GoOn(r) ==
    \/ LoginUser(r) \/ CommitChange(r)
    \/ CommitUser(r) \/ CountAdmins(r) \/ CommitDelete(r)
    \/ Fail(r)

Next ==
    \/ \E w \in Workers :
          \/ SeedNeeded(w) \/ SeedAdmin(w)
          \/ FindDefaults(w) \/ FlagDefaults(w) \/ FlagFails(w)
          \/ Restart(w)
    \/ \E r \in Requests : GoOn(r) \/ \E w \in Workers : Begin(r, w)

Spec == Init /\ [][Next]_vars

-----------------------------------------------------------------------------
(* Properties *)

TypeOK ==
    /\ Existing \subseteq Ids
    /\ \A i \in Existing : users[i] \in [name : Names, admin : BOOLEAN, pw : 0 .. MaxPasswords,
                                         epoch : 0 .. MaxPasswords, must : BOOLEAN]
    /\ tokens \subseteq [id : Ids, epoch : 0 .. MaxPasswords, proof : 0 .. MaxPasswords,
                         excused : BOOLEAN]
    /\ phase \in [Workers -> {"booting", "seeding", "flagging", "committing", "serving"}]
    /\ flagged \in [Workers -> SUBSET Ids]
    /\ pc \in [Requests -> {"idle", "issuing", "changing", "forced", "creating", "counting",
                            "deleting"}]
    /\ req \in [Requests -> [home : Workers \cup {None}, id : Ids \cup {0},
                             epoch : 0 .. MaxPasswords, proof : 0 .. MaxPasswords,
                             name : Names, admin : BOOLEAN, counted : SUBSET Ids]]
    /\ passwords \in 0 .. MaxPasswords
    /\ restarts \in 0 .. MaxRestarts
    /\ raced \in BOOLEAN
    /\ overtaken \subseteq Requests
    /\ skipped \subseteq Ids

\* "Can't delete the last admin" (routes.py:433): once a worker serves there is an admin,
\* whatever admins delete one another, unless a deletion commits on a count of admins
\* that another deletion has overtaken.
LastAdminStays == Serving # {} /\ ~raced => AdminsOf(users) # {}

\* "changing the password invalidates all other live sessions and remember-me cookies"
\* (models.py:53-54): a token that the loader accepts was issued to somebody who knew the
\* password that the account has now.  Excused are the tokens that the code lets through:
\* of a sign-in whose password was changed before its token was made (auth.py:109-111), of
\* an account whose epoch a change wrote that had read an older one (routes.py:396), and
\* of a deleted account whose id a new one has got.
SessionsAreCurrent ==
    \A t \in tokens : Accepted(t) /\ ~t.excused => t.proof = users[t.id].pw

\* "the console forces a change before anything else is reachable" (models.py:49-50): no
\* worker serves an account that has the default password and is not marked for a change,
\* however the boots of the workers, their restarts and the changes interleave.  Excepted
\* are the accounts that an exception kept a booting worker from marking
\* (__init__.py:259-260), and a worker that found no account and inserts the first admin
\* after that account is deleted.
DefaultIsGated ==
    Serving # {} /\ ~raced =>
        \A i \in Existing : users[i].pw = Default => users[i].must \/ i \in skipped
=============================================================================
