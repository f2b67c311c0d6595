-------------------------------- MODULE Boot --------------------------------
(***************************************************************************)
(* create_app() in every gunicorn worker (app/__init__.py): the key files, *)
(* the tables, the columns added since the first release, the settings row *)
(* (Setting.get, app/models.py); and the requests of the workers that      *)
(* serve, as far as they seal archives with the at-rest key.  Workers boot *)
(* at the same time, on one data directory, and an error of the database   *)
(* may meet any step of theirs.  The accounts are in Accounts.             *)
(*                                                                         *)
(* A worker whose create_app() raises makes gunicorn stop them all, and    *)
(* the container is restarted (external).                                  *)
(***************************************************************************)
EXTENDS KeyFile, FiniteSets

CONSTANTS
    Workers,    \* gunicorn worker processes
    Threads,    \* request threads
    Home,       \* the worker of each thread
    Tables,     \* tables of the models
    Columns,    \* the columns of each that _migrate_sqlite may have to add
    MaxKills,   \* bounds the kills of a worker
    MaxErrors   \* bounds the errors of the database: locked, full

ASSUME BootAssumption ==
    /\ Callers = Workers \cup Threads
    /\ Home \in [Threads -> Workers]
    /\ {"setting", "admin_user"} \subseteq Tables
    /\ {MaxKills, MaxErrors} \subseteq Nat

VARIABLES
    schema,    \* the columns of each table that exists
    settings,  \* the settings row exists
    phase,     \* where each worker is in create_app()
    todo,      \* the tables it has found missing, or the columns it has still to look at
    column,    \* the one it is about to add
    skipped,   \* history: columns that an error has kept a worker from adding
    kills,
    errors

database == <<schema, settings>>
worker == <<phase, todo, column>>
trouble == <<skipped, kills, errors>>
bootVars == <<keyfile, database, worker, trouble>>

AllColumns == UNION {{<<t, c>> : c \in Columns[t]} : t \in Tables}

\* An empty data directory, or one of an earlier release that never sealed an archive.
BootInit ==
    /\ \/ /\ schema = << >>
          /\ settings = FALSE
          /\ KeyFileInit([f \in Files |-> Missing])
       \/ \E T \in SUBSET Tables :
             /\ {"setting", "admin_user"} \subseteq T
             /\ schema \in [T -> SUBSET UNION {Columns[t] : t \in Tables}]
             /\ \A t \in T : schema[t] \subseteq Columns[t]
             /\ settings = TRUE
             /\ KeyFileInit([f \in Files |-> IF f = "rest" THEN Missing ELSE 0])
    /\ phase = [w \in Workers |-> "session"]
    /\ todo = [w \in Workers |-> {}]
    /\ column = [w \in Workers |-> None]
    /\ skipped = {}
    /\ kills = 0
    /\ errors = 0

Enter(w, label, what) ==
    /\ phase' = [phase EXCEPT ![w] = label]
    /\ todo' = [todo EXCEPT ![w] = what]
    /\ column' = [column EXCEPT ![w] = None]

LookForKey(w) ==
    /\ phase[w] \in {"session", "secret"}
    /\ Look(w, phase[w])
    /\ UNCHANGED <<database, worker, trouble>>

HaveSessionKey(w) ==
    /\ phase[w] = "session"
    /\ TakeKey(w, "session")
    /\ Enter(w, "secret", {})
    /\ UNCHANGED <<database, trouble>>

\* Fernet('') raises.
HaveSecretKey(w) ==
    /\ phase[w] = "secret"
    /\ TakeKey(w, "secret")
    /\ Enter(w, IF key[w] = Empty THEN "failed" ELSE "listing", {})
    /\ UNCHANGED <<database, trouble>>

\* db.create_all() looks which tables are missing ...
ListTables(w) ==
    /\ phase[w] = "listing"
    /\ Enter(w, "creating", Tables \ DOMAIN schema)
    /\ UNCHANGED <<keyfile, database, trouble>>

\* Mutant of CreateTable: a failed boot is tried again from where it was.
CreateTableOrSpin(w, t) ==
    /\ phase[w] = "creating"
    /\ t \in todo[w]
    /\ IF t \in DOMAIN schema
       THEN Enter(w, "creating", todo[w]) /\ UNCHANGED schema
       ELSE /\ schema' = [u \in DOMAIN schema \cup {t} |->
                             IF u = t THEN Columns[t] ELSE schema[u]]
            /\ Enter(w, "creating", todo[w] \ {t})
    /\ UNCHANGED <<keyfile, settings, trouble>>

\* ... and creates each of them; one that another worker has created since raises.
CreateTable(w, t) ==
    /\ phase[w] = "creating"
    /\ t \in todo[w]
    /\ IF t \in DOMAIN schema
       THEN Enter(w, "failed", {}) /\ UNCHANGED schema
       ELSE /\ schema' = [u \in DOMAIN schema \cup {t} |->
                             IF u = t THEN Columns[t] ELSE schema[u]]
            /\ Enter(w, "creating", todo[w] \ {t})
    /\ UNCHANGED <<keyfile, settings, trouble>>

BeginMigration(w) ==
    /\ phase[w] = "creating"
    /\ todo[w] = {}
    /\ Enter(w, "migrating", AllColumns)
    /\ UNCHANGED <<keyfile, database, trouble>>

\* PRAGMA table_info: the column is there, or has to be added.
ColumnPresent(w, c) ==
    /\ phase[w] = "migrating"
    /\ c \in todo[w]
    /\ c[2] \in schema[c[1]]
    /\ Enter(w, "migrating", todo[w] \ {c})
    /\ UNCHANGED <<keyfile, database, trouble>>

ColumnAbsent(w, c) ==
    /\ phase[w] = "migrating"
    /\ c \in todo[w]
    /\ c[2] \notin schema[c[1]]
    /\ phase' = [phase EXCEPT ![w] = "adding"]
    /\ column' = [column EXCEPT ![w] = c]
    /\ UNCHANGED <<keyfile, database, todo, trouble>>

\* Mutant of AddColumn: the error of a duplicate column ends the migration.
AddColumnOrStop(w) ==
    LET c == column[w]
    IN  /\ phase[w] = "adding"
        /\ schema' = [schema EXCEPT ![c[1]] = @ \cup {c[2]}]
        /\ Enter(w, "migrating", IF c[2] \in schema[c[1]] THEN {} ELSE todo[w] \ {c})
        /\ UNCHANGED <<keyfile, settings, trouble>>

\* ALTER TABLE; the error of a duplicate column is swallowed.
AddColumn(w) ==
    LET c == column[w]
    IN  /\ phase[w] = "adding"
        /\ schema' = [schema EXCEPT ![c[1]] = @ \cup {c[2]}]
        /\ Enter(w, "migrating", todo[w] \ {c})
        /\ UNCHANGED <<keyfile, settings, trouble>>

\* Any other error of the ALTER is swallowed too, and the next column is looked at ...
AddColumnFails(w) ==
    /\ phase[w] = "adding"
    /\ errors < MaxErrors
    /\ errors' = errors + 1
    /\ skipped' = skipped \cup {column[w]}
    /\ Enter(w, "migrating", todo[w] \ {column[w]})
    /\ UNCHANGED <<keyfile, database, kills>>

\* ... and one of PRAGMA table_info is "migration skipped", for every column that is left.
MigrationFails(w) ==
    /\ phase[w] = "migrating"
    /\ todo[w] # {}
    /\ errors < MaxErrors
    /\ errors' = errors + 1
    /\ skipped' = skipped \cup todo[w]
    /\ Enter(w, "migrating", {})
    /\ UNCHANGED <<keyfile, database, kills>>

\* The models select every column of a row: without one, the query raises.
Whole(t) == schema[t] = Columns[t]

\* Setting.get(): the row is there, or it is inserted, unless somebody else has.
LookForSettings(w) ==
    /\ phase[w] = "migrating"
    /\ todo[w] = {}
    /\ Enter(w, IF ~Whole("setting") THEN "failed"
                ELSE IF settings THEN "seeding" ELSE "inserting", {})
    /\ UNCHANGED <<keyfile, database, trouble>>

InsertSettings(w) ==
    /\ phase[w] = "inserting"
    /\ settings' = TRUE
    /\ Enter(w, "seeding", {})
    /\ UNCHANGED <<keyfile, schema, trouble>>

\* _seed_admin() and what follows it: Accounts.
LookForAccounts(w) ==
    /\ phase[w] = "seeding"
    /\ Enter(w, IF Whole("admin_user") THEN "serving" ELSE "failed", {})
    /\ UNCHANGED <<keyfile, database, trouble>>

\* Anywhere but in the migration an error of the database raises.
BootFails(w) ==
    /\ \/ phase[w] \in {"listing", "creating", "inserting", "seeding"}
       \/ phase[w] = "migrating" /\ todo[w] = {}
    /\ errors < MaxErrors
    /\ errors' = errors + 1
    /\ Enter(w, "failed", {})
    /\ UNCHANGED <<keyfile, database, skipped, kills>>

\* gunicorn asks the other workers to stop, which lets them write out a key.
Halt ==
    /\ \E w \in Workers : phase[w] = "failed"
    /\ \A c \in Callers : at[c] # "writing"
    /\ Forget(Callers)
    /\ phase' = [w \in Workers |-> "session"]
    /\ todo' = [w \in Workers |-> {}]
    /\ column' = [w \in Workers |-> None]
    /\ UNCHANGED <<database, trouble>>

\* SIGKILL or out of memory: gunicorn starts another worker.
KillWorker(w) ==
    /\ kills < MaxKills
    /\ kills' = kills + 1
    /\ Forget({w} \cup {t \in Threads : Home[t] = w})
    /\ Enter(w, "session", {})
    /\ UNCHANGED <<database, skipped, errors>>

\* ingest() asks for the passphrase of an archive, and seals it; an empty one raises.
Seal(t) ==
    /\ \/ phase[Home[t]] = "serving" /\ Look(t, "rest")
       \/ GetKey(t)
       \/ TakeKey(t, "rest")
    /\ UNCHANGED <<database, worker, trouble>>

Work(w) ==
    \/ LookForKey(w)
    \/ GetKey(w) /\ UNCHANGED <<database, worker, trouble>>
    \/ HaveSessionKey(w) \/ HaveSecretKey(w)
    \/ ListTables(w) \/ BeginMigration(w)
    \/ \E t \in todo[w] : CreateTable(w, t)
    \/ \E c \in AllColumns : ColumnPresent(w, c) \/ ColumnAbsent(w, c)
    \/ AddColumn(w)
    \/ LookForSettings(w) \/ InsertSettings(w) \/ LookForAccounts(w)

GoWrong(w) == AddColumnFails(w) \/ MigrationFails(w) \/ BootFails(w) \/ KillWorker(w)

BootNext ==
    \/ \E w \in Workers : Work(w) \/ GoWrong(w)
    \/ \E t \in Threads : Seal(t)
    \/ Halt

BootSpec == BootInit /\ [][BootNext]_bootVars

\* Workers and threads are scheduled, and the container is restarted.
FairSpec ==
    /\ BootSpec
    /\ \A w \in Workers : WF_bootVars(Work(w))
    /\ \A t \in Threads : WF_bootVars(GetKey(t) /\ UNCHANGED <<database, worker, trouble>>)
    /\ WF_bootVars(Halt)

-----------------------------------------------------------------------------
(* Properties *)

\* "with multiple gunicorn workers booting at once, two can race the same ALTER; the
\* loser's error is benign" (__init__.py:293-295), and so are the races for the tables
\* and for the settings row: no worker serves before everything its models need is there,
\* but for the columns that an error has kept a worker from adding, which is swallowed
\* (__init__.py:301-302, 336-339).  The tables that the boot itself reads are whole.
SchemaComplete ==
    (\E w \in Workers : phase[w] = "serving") =>
        /\ settings
        /\ DOMAIN schema = Tables
        /\ \A t \in Tables : \A c \in Columns[t] \ schema[t] : <<t, c>> \in skipped
        /\ Whole("setting") /\ Whole("admin_user")

\* The workers stop making one another fail: in the end all of them serve, from whatever
\* release the data directory is, however often they are killed or the database refuses
\* them.  The one thing they do not get over is a kill between the open and the write of
\* secret.key.
BootsInTheEnd ==
    <>[](\A w \in Workers : phase[w] = "serving") \/ <>[](disk["secret"] = Empty)
=============================================================================
