------------------------------- MODULE KeyFile -------------------------------
(***************************************************************************)
(* The keys that are generated once and kept in a file of the data         *)
(* directory: session.key (_resolve_secret_key, app/__init__.py),          *)
(* secret.key (init_fernet, app/crypto.py) and rest.key                    *)
(* (resolve_rest_passphrase, app/restenc.py).  All three look whether the  *)
(* file exists, and then either read it or open it for writing, which      *)
(* truncates it, and write a new key.  No lock is taken.                   *)
(***************************************************************************)
EXTENDS Integers

CONSTANTS
    Callers,  \* worker processes and request threads
    Missing,  \* the content of a file that does not exist
    Empty,    \* the content of a file that is opened and not yet written
    None      \* no file

Files == {"session", "secret", "rest"}

ASSUME KeyFileAssumption ==
    /\ {Missing, Empty} \cap Nat = {}
    /\ Missing # Empty
    /\ None \notin Files

VARIABLES
    disk,   \* the content of each file: Missing, Empty, or the number of a key
    made,   \* keys generated so far; 0 is the key of an earlier release
    at,     \* where each caller is
    file,   \* the file it is after
    key,    \* what it returns
    used,   \* keys that something kept depends on: cookies, stored tokens, archives
    twice   \* history: two callers were making the file at the same time

keyfile == <<disk, made, at, file, key, used, twice>>

KeyFileInit(content) ==
    /\ disk = content
    /\ made = 0
    /\ at = [c \in Callers |-> "idle"]
    /\ file = [c \in Callers |-> None]
    /\ key = [c \in Callers |-> Empty]
    /\ used = [f \in Files |-> {}]
    /\ twice = [f \in Files |-> FALSE]

\* Only _resolve_secret_key generates a key in place of an empty one.
Heals(f) == f = "session"

Making(f) == {c \in Callers : at[c] \in {"opening", "writing"} /\ file[c] = f}

\* It goes on to generate a key.
Generate(c, f) ==
    /\ at' = [at EXCEPT ![c] = "opening"]
    /\ twice' = [twice EXCEPT ![f] = @ \/ Making(f) # {}]

\* os.path.exists.
Look(c, f) ==
    /\ at[c] = "idle"
    /\ file' = [file EXCEPT ![c] = f]
    /\ IF disk[f] = Missing
       THEN Generate(c, f)
       ELSE at' = [at EXCEPT ![c] = "reading"] /\ UNCHANGED twice
    /\ UNCHANGED <<disk, made, key, used>>

ReadKey(c) ==
    /\ at[c] = "reading"
    /\ IF disk[file[c]] = Empty /\ Heals(file[c])
       THEN Generate(c, file[c]) /\ UNCHANGED key
       ELSE /\ at' = [at EXCEPT ![c] = "returned"]
            /\ key' = [key EXCEPT ![c] = disk[file[c]]]
            /\ UNCHANGED twice
    /\ UNCHANGED <<disk, made, file, used>>

\* Mutant of OpenKey: the key is handed out before it is on disk.
OpenAndReturn(c) ==
    /\ at[c] = "opening"
    /\ disk' = [disk EXCEPT ![file[c]] = Empty]
    /\ made' = made + 1
    /\ key' = [key EXCEPT ![c] = made']
    /\ at' = [at EXCEPT ![c] = "returned"]
    /\ UNCHANGED <<file, used, twice>>

OpenKey(c) ==
    /\ at[c] = "opening"
    /\ disk' = [disk EXCEPT ![file[c]] = Empty]
    /\ at' = [at EXCEPT ![c] = "writing"]
    /\ UNCHANGED <<made, file, key, used, twice>>

\* Every key has the same length, so that the last one written is what the file holds.
WriteKey(c) ==
    /\ at[c] = "writing"
    /\ made' = made + 1
    /\ disk' = [disk EXCEPT ![file[c]] = made']
    /\ key' = [key EXCEPT ![c] = made']
    /\ at' = [at EXCEPT ![c] = "returned"]
    /\ UNCHANGED <<file, used, twice>>

GetKey(c) == ReadKey(c) \/ OpenKey(c) \/ WriteKey(c)

\* The caller has its key, and keeps something under it unless it is empty.
TakeKey(c, f) ==
    /\ at[c] = "returned"
    /\ file[c] = f
    /\ used' = [used EXCEPT ![f] = @ \cup ({key[c]} \ {Empty})]
    /\ at' = [at EXCEPT ![c] = "idle"]
    /\ file' = [file EXCEPT ![c] = None]
    /\ key' = [key EXCEPT ![c] = Empty]
    /\ UNCHANGED <<disk, made, twice>>

\* Callers that are killed leave the files as they are.
Forget(C) ==
    /\ at' = [c \in Callers |-> IF c \in C THEN "idle" ELSE at[c]]
    /\ file' = [c \in Callers |-> IF c \in C THEN None ELSE file[c]]
    /\ key' = [c \in Callers |-> IF c \in C THEN Empty ELSE key[c]]
    /\ UNCHANGED <<disk, made, used, twice>>

-----------------------------------------------------------------------------
(* Properties *)

\* What is kept under a key can be read with the file after any restart, unless two
\* callers made the file at the same time: an interrupted write loses no key that
\* anything depends on.
KeysAreOnDisk == \A f \in Files : ~twice[f] => used[f] \subseteq {disk[f]}

\* "a random 32-byte passphrase generated once and stored in <DATA_DIR>/rest.key"
\* (restenc.py:167-168): when nobody is making it, the file opens every archive that has
\* been sealed.
ArchivesStayReadable == Making("rest") = {} => used["rest"] \subseteq {disk["rest"]}
=============================================================================
