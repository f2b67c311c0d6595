---------------------------- MODULE DataDirProofs ----------------------------
(***************************************************************************)
(* Proofs about the data directory: the files that booting workers make in *)
(* it (Boot), for any number of workers, threads, tables and columns, and  *)
(* the room that archives have on its volume (Volume), for any number of   *)
(* request threads, sizes and limits.                                      *)
(***************************************************************************)
EXTENDS Boot, Volume, FiniteSetTheorems, TLAPS


-----------------------------------------------------------------------------
(* The key files *)

KeyTypeOK ==
    /\ disk \in [Files -> {Missing, Empty} \cup Nat]
    /\ made \in Nat
    /\ at \in [Callers -> {"idle", "reading", "opening", "writing", "returned"}]
    /\ file \in [Callers -> Files \cup {None}]
    /\ key \in [Callers -> {Missing, Empty} \cup Nat]
    /\ \A c \in Callers : at[c] # "idle" => file[c] \in Files
    /\ used \in [Files -> SUBSET ({Missing, Empty} \cup Nat)]
    /\ twice \in [Files -> BOOLEAN]

\* As long as no two callers have made a file at the same time: one makes it, and then
\* there is no key yet; what is kept, and what is handed out, is under the key on disk.
OneMaker(f) ==
    /\ \A c, d \in Making(f) : c = d
    /\ Making(f) # {} => disk[f] \notin Nat
    /\ used[f] \subseteq {disk[f]} \cap Nat
    /\ \A c \in Callers : file[c] = f =>
          /\ at[c] = "returned" => key[c] \in {Empty} \cup ({disk[f]} \cap Nat)
          /\ at[c] = "reading" => disk[f] # Missing

KeyInv == KeyTypeOK /\ \A f \in Files : ~twice[f] => OneMaker(f)

\* A caller goes on to generate a key that is not there.
LEMMA GenerateStep ==
    ASSUME KeyInv, NEW c \in Callers, NEW f \in Files, Generate(c, f),
           disk[f] \notin Nat, at[c] \in {"idle", "reading"}, file' = [file EXCEPT ![c] = f],
           UNCHANGED <<disk, made, key, used>>
    PROVE  KeyInv'
<1>1. KeyTypeOK'
  BY DEF KeyInv, KeyTypeOK, Generate
<1>2. ASSUME NEW g \in Files, ~twice'[g]
      PROVE  OneMaker(g)'
  <2>1. ~twice[g] /\ OneMaker(g)
    BY <1>2 DEF KeyInv, KeyTypeOK, Generate
  <2>2. /\ at'[c] = "opening" /\ file'[c] = f
        /\ \A d \in Callers \ {c} : at'[d] = at[d] /\ file'[d] = file[d]
    BY DEF KeyInv, KeyTypeOK, Generate
  <2>3. CASE g = f
    <3>1. Making(f) = {}
      BY <1>2, <2>3 DEF KeyInv, KeyTypeOK, Generate
    <3>2. \A d \in Making(f)' : d = c
      BY <2>2, <3>1 DEF Making
    <3> QED
      BY <2>1, <2>2, <2>3, <3>2 DEF OneMaker
  <2>4. CASE g # f
    <3>1. Making(g)' \subseteq Making(g)
      BY <2>2, <2>4 DEF Making
    <3> QED
      BY <2>1, <2>2, <2>4, <3>1 DEF OneMaker
  <2> QED
    BY <2>3, <2>4
<1> QED
  BY <1>1, <1>2 DEF KeyInv

\* os.path.exists finds the file, or nothing.
LEMMA LookStep ==
    ASSUME KeyInv, NEW c \in Callers, NEW f \in Files, Look(c, f)
    PROVE  KeyInv'
<1>1. CASE disk[f] = Missing
  <2>1. disk[f] \notin Nat
    BY <1>1, KeyFileAssumption
  <2> QED
    BY <1>1, <2>1, GenerateStep DEF Look
<1>2. CASE disk[f] # Missing
  <2>1. /\ at' = [at EXCEPT ![c] = "reading"] /\ file' = [file EXCEPT ![c] = f]
        /\ UNCHANGED <<disk, made, key, used, twice>> /\ at[c] = "idle"
    BY <1>2 DEF Look
  <2>2. KeyTypeOK'
    BY <2>1 DEF KeyInv, KeyTypeOK
  <2>3. ASSUME NEW g \in Files, ~twice'[g]
        PROVE  OneMaker(g)'
    <3>1. OneMaker(g)
      BY <2>1, <2>3 DEF KeyInv
    <3>2. /\ at'[c] = "reading" /\ file'[c] = f
          /\ \A d \in Callers \ {c} : at'[d] = at[d] /\ file'[d] = file[d]
      BY <2>1 DEF KeyInv, KeyTypeOK
    <3>3. Making(g)' = Making(g)
      BY <2>1, <3>2 DEF Making
    <3> QED
      BY <1>2, <2>1, <3>1, <3>2, <3>3 DEF OneMaker
  <2> QED
    BY <2>2, <2>3 DEF KeyInv
<1> QED
  BY <1>1, <1>2

\* The file is read: a key, nothing, or nothing that is to be generated again.
LEMMA ReadKeyStep ==
    ASSUME KeyInv, NEW c \in Callers, ReadKey(c)
    PROVE  KeyInv'
<1> DEFINE f == file[c]
<1>f. f \in Files /\ at[c] = "reading"
  BY DEF KeyInv, KeyTypeOK, ReadKey
<1>1. CASE disk[f] = Empty /\ Heals(f)
  <2>1. disk[f] \notin Nat /\ at[c] \in {"idle", "reading"}
    BY <1>1, <1>f, KeyFileAssumption
  <2>2. Generate(c, f) /\ UNCHANGED <<disk, made, key, used>>
    BY <1>1 DEF ReadKey
  <2>3. file' = [file EXCEPT ![c] = f]
    BY <1>1 DEF KeyInv, KeyTypeOK, ReadKey
  <2> HIDE DEF f
  <2> QED
    BY <1>f, <2>1, <2>2, <2>3, GenerateStep
<1>2. CASE ~(disk[f] = Empty /\ Heals(f))
  <2>1. /\ at' = [at EXCEPT ![c] = "returned"] /\ key' = [key EXCEPT ![c] = disk[f]]
        /\ UNCHANGED <<disk, made, file, used, twice>>
    BY <1>2 DEF ReadKey
  <2>2. KeyTypeOK'
    BY <1>f, <2>1 DEF KeyInv, KeyTypeOK
  <2>3. ASSUME NEW g \in Files, ~twice'[g]
        PROVE  OneMaker(g)'
    <3>1. OneMaker(g)
      BY <2>1, <2>3 DEF KeyInv
    <3>2. /\ at'[c] = "returned" /\ key'[c] = disk[f]
          /\ \A d \in Callers \ {c} : at'[d] = at[d] /\ key'[d] = key[d]
      BY <2>1 DEF KeyInv, KeyTypeOK
    <3>3. Making(g)' = Making(g)
      BY <1>f, <2>1, <3>2 DEF Making
    <3>4. f = g => disk[f] \in {Empty} \cup ({disk[g]} \cap Nat)
      BY <1>f, <3>1 DEF OneMaker, KeyInv, KeyTypeOK
    <3> QED
      BY <2>1, <3>1, <3>2, <3>3, <3>4 DEF OneMaker
  <2> QED
    BY <2>2, <2>3 DEF KeyInv
<1> QED
  BY <1>1, <1>2

\* The file is opened, which empties it, and then written.
LEMMA MakeKeyStep ==
    ASSUME KeyInv, NEW c \in Callers, OpenKey(c) \/ WriteKey(c)
    PROVE  KeyInv'
<1>1. PICK f \in Files : f = file[c] /\ c \in Making(f)
  BY DEF KeyInv, KeyTypeOK, OpenKey, WriteKey, Making
<1>2. PICK stage \in {"writing", "returned"}, content \in {Empty} \cup Nat :
          /\ at' = [at EXCEPT ![c] = stage] /\ disk' = [disk EXCEPT ![f] = content]
          /\ stage = "writing" => content = Empty /\ made' = made /\ key' = key
          /\ stage = "returned" => /\ content = made' /\ made' = made + 1
                                   /\ key' = [key EXCEPT ![c] = content]
          /\ UNCHANGED <<file, used, twice>>
  <2>1. made + 1 \in Nat
    BY DEF KeyInv, KeyTypeOK
  <2> QED
    BY <1>1, <2>1 DEF OpenKey, WriteKey
<1>3. KeyTypeOK'
  <2>1. made' \in Nat
    BY <1>2 DEF KeyInv, KeyTypeOK
  <2> QED
    BY <1>1, <1>2, <2>1 DEF KeyInv, KeyTypeOK
<1>4. ASSUME NEW g \in Files, ~twice'[g]
      PROVE  OneMaker(g)'
  <2>1. OneMaker(g)
    BY <1>2, <1>4 DEF KeyInv
  <2>2. /\ at'[c] = stage /\ file'[c] = f
        /\ \A d \in Callers \ {c} : at'[d] = at[d] /\ file'[d] = file[d] /\ key'[d] = key[d]
    BY <1>1, <1>2 DEF KeyInv, KeyTypeOK
  <2>3. CASE g = f
    <3>1. Making(f) = {c} /\ disk[f] \notin Nat /\ used[f] = {}
      BY <1>1, <2>1, <2>3 DEF OneMaker
    <3>2. \A d \in Callers \ {c} : file[d] = f /\ at[d] = "returned" => key[d] = Empty
      BY <2>1, <2>3, <3>1 DEF OneMaker
    <3>3. disk'[f] = content /\ content # Missing
      BY <1>1, <1>2, KeyFileAssumption DEF KeyInv, KeyTypeOK
    <3>4. Making(f)' \subseteq {c} /\ (stage = "returned" => Making(f)' = {})
      BY <2>2, <3>1 DEF Making
    <3>5. stage = "writing" => content \notin Nat
      BY <1>2, KeyFileAssumption
    <3>6. stage = "returned" => key'[c] = content /\ content \in Nat
      BY <1>2, <1>3 DEF KeyInv, KeyTypeOK
    <3>7. \A d \in Callers : file'[d] = f /\ at'[d] = "returned"
                             => key'[d] \in {Empty} \cup ({disk'[f]} \cap Nat)
      BY <2>2, <3>2, <3>3, <3>6
    <3>8. used'[f] = {} /\ (Making(f)' # {} => disk'[f] \notin Nat)
      BY <1>2, <3>1, <3>3, <3>4, <3>5
    <3>9. \A d, e \in Making(f)' : d = e
      BY <3>4
    <3> QED
      BY <2>3, <3>3, <3>7, <3>8, <3>9 DEF OneMaker
  <2>4. CASE g # f
    <3>1. Making(g)' = Making(g)
      BY <1>1, <2>2, <2>4 DEF Making
    <3>2. disk'[g] = disk[g]
      BY <1>2, <2>4 DEF KeyInv, KeyTypeOK
    <3> QED
      BY <1>2, <2>1, <2>2, <2>4, <3>1, <3>2 DEF OneMaker
  <2> QED
    BY <2>3, <2>4
<1> QED
  BY <1>3, <1>4 DEF KeyInv

\* What is kept is under the key that the caller was handed.
LEMMA TakeKeyStep ==
    ASSUME KeyInv, NEW c \in Callers, NEW f \in Files, TakeKey(c, f)
    PROVE  KeyInv'
<1>1. KeyTypeOK'
  BY DEF KeyInv, KeyTypeOK, TakeKey
<1>2. ASSUME NEW g \in Files, ~twice'[g]
      PROVE  OneMaker(g)'
  <2>1. OneMaker(g)
    BY <1>2 DEF KeyInv, TakeKey
  <2>2. /\ at'[c] = "idle"
        /\ \A d \in Callers \ {c} : at'[d] = at[d] /\ file'[d] = file[d] /\ key'[d] = key[d]
        /\ disk' = disk
    BY DEF KeyInv, KeyTypeOK, TakeKey
  <2>3. Making(g)' \subseteq Making(g)
    BY <2>2 DEF Making
  <2>4. used'[g] \subseteq {disk[g]} \cap Nat
    BY <2>1 DEF OneMaker, KeyInv, KeyTypeOK, TakeKey
  <2> QED
    BY <2>1, <2>2, <2>3, <2>4 DEF OneMaker
<1> QED
  BY <1>1, <1>2 DEF KeyInv

\* A caller that is killed has made nothing, and hands nothing out.
LEMMA ForgetStep ==
    ASSUME KeyInv, NEW C, Forget(C)
    PROVE  KeyInv'
<1>1. KeyTypeOK'
  BY DEF KeyInv, KeyTypeOK, Forget
<1>2. ASSUME NEW g \in Files, ~twice'[g]
      PROVE  OneMaker(g)'
  <2>1. OneMaker(g)
    BY <1>2 DEF KeyInv, Forget
  <2>2. \A d \in Callers :
            \/ at'[d] = "idle"
            \/ at'[d] = at[d] /\ file'[d] = file[d] /\ key'[d] = key[d]
    BY DEF Forget
  <2>3. Making(g)' \subseteq Making(g)
    BY <2>2 DEF Making
  <2>4. disk' = disk /\ used' = used
    BY DEF Forget
  <2> QED
    BY <2>1, <2>2, <2>3, <2>4 DEF OneMaker
<1> QED
  BY <1>1, <1>2 DEF KeyInv

\* Nobody touches the files.
LEMMA KeysUntouched ==
    ASSUME KeyInv, UNCHANGED keyfile
    PROVE  KeyInv'
  BY DEF KeyInv, KeyTypeOK, OneMaker, Making, keyfile

\* Booting workers and sealing threads keep the invariant of the key files.
LEMMA KeyInvariant == BootSpec => []KeyInv
<1>1. BootInit => KeyInv
  <2> SUFFICES ASSUME NEW content \in [Files -> {Missing, 0}], KeyFileInit(content)
               PROVE  KeyInv
    BY DEF BootInit
  <2>1. KeyTypeOK
    BY DEF KeyFileInit, KeyTypeOK
  <2>2. \A f \in Files : OneMaker(f)
    BY DEF KeyFileInit, OneMaker, Making
  <2> QED
    BY <2>1, <2>2 DEF KeyInv
<1>2. KeyInv /\ [BootNext]_bootVars => KeyInv'
  <2> SUFFICES ASSUME KeyInv, [BootNext]_bootVars
               PROVE  KeyInv'
    OBVIOUS
  <2>1. Workers \subseteq Callers /\ Threads \subseteq Callers
    BY BootAssumption
  <2>2. ASSUME NEW c \in Callers, GetKey(c)
        PROVE  KeyInv'
    BY <2>2, ReadKeyStep, MakeKeyStep DEF GetKey
  <2>3. ASSUME NEW w \in Workers, Work(w)
        PROVE  KeyInv'
    <3>1. CASE LookForKey(w)
      BY <2>1, <3>1, LookStep DEF LookForKey, Files
    <3>2. CASE HaveSessionKey(w) \/ HaveSecretKey(w)
      BY <2>1, <3>2, TakeKeyStep DEF HaveSessionKey, HaveSecretKey, Files
    <3>3. CASE GetKey(w)
      BY <2>1, <2>2, <3>3
    <3>4. CASE UNCHANGED keyfile
      BY <3>4, KeysUntouched
    <3> QED
      BY <2>3, <3>1, <3>2, <3>3, <3>4
      DEF Work, ListTables, BeginMigration, CreateTable, ColumnPresent, ColumnAbsent,
          AddColumn, LookForSettings, InsertSettings, LookForAccounts
  <2>4. ASSUME NEW w \in Workers, GoWrong(w)
        PROVE  KeyInv'
    <3>1. CASE KillWorker(w)
      BY <3>1, ForgetStep DEF KillWorker
    <3>2. CASE UNCHANGED keyfile
      BY <3>2, KeysUntouched
    <3> QED
      BY <2>4, <3>1, <3>2 DEF GoWrong, AddColumnFails, MigrationFails, BootFails
  <2>5. ASSUME NEW t \in Threads, Seal(t)
        PROVE  KeyInv'
    BY <2>1, <2>2, <2>5, LookStep, TakeKeyStep DEF Seal, Files
  <2>6. CASE Halt
    BY <2>6, ForgetStep DEF Halt
  <2>7. CASE UNCHANGED bootVars
    BY <2>7, KeysUntouched DEF bootVars
  <2> QED
    BY <2>3, <2>4, <2>5, <2>6, <2>7 DEF BootNext
<1> QED
  BY <1>1, <1>2, PTL DEF BootSpec

\* What is kept under a key can be read with the file after any restart, unless two
\* callers have made the file at the same time.
THEOREM KeysStayOnDisk == BootSpec => []KeysAreOnDisk
<1>1. KeyInv => KeysAreOnDisk
  BY DEF KeyInv, OneMaker, KeysAreOnDisk
<1> QED
  BY <1>1, KeyInvariant, PTL

-----------------------------------------------------------------------------
(* The tables, their columns and the settings row *)

Present(c) == c[2] \in schema[c[1]]
Done(c) == Present(c) \/ c \in skipped

\* What a worker has found or made in the database by the time it has got somewhere.
WorkerInv(w) ==
    /\ phase[w] = "creating" =>
          todo[w] \subseteq Tables /\ Tables \ DOMAIN schema \subseteq todo[w]
    /\ phase[w] \in {"migrating", "adding", "inserting", "seeding", "serving"} =>
          DOMAIN schema = Tables
    /\ phase[w] \in {"migrating", "adding"} =>
          todo[w] \subseteq AllColumns /\ \A c \in AllColumns \ todo[w] : Done(c)
    /\ phase[w] = "adding" => column[w] \in todo[w]
    /\ phase[w] \in {"inserting", "seeding", "serving"} =>
          Whole("setting") /\ \A c \in AllColumns : Done(c)
    /\ phase[w] \in {"seeding", "serving"} => settings
    /\ phase[w] = "serving" => Whole("admin_user")

SchemaInv ==
    /\ \E T \in SUBSET Tables : schema \in [T -> SUBSET UNION {Columns[t] : t \in Tables}]
    /\ \A t \in DOMAIN schema : schema[t] \subseteq Columns[t]
    /\ DOMAIN phase = Workers /\ DOMAIN todo = Workers /\ DOMAIN column = Workers
    /\ \A w \in Workers : WorkerInv(w)

\* A column is a pair of a table and the name of one of its columns.
LEMMA ColumnsArePairs ==
    /\ \A c \in AllColumns : c[1] \in Tables /\ c[2] \in Columns[c[1]]
    /\ \A t \in Tables : \A name \in Columns[t] : <<t, name>> \in AllColumns
  BY DEF AllColumns

\* A worker goes on, the database stays; its invariant is that of the place it goes to.
LEMMA EnterStep ==
    ASSUME SchemaInv, NEW w \in Workers, NEW label, NEW what, Enter(w, label, what),
           schema' = schema, settings' = settings \/ settings', skipped \subseteq skipped',
           WorkerInv(w)'
    PROVE  SchemaInv'
<1>1. /\ phase' = [phase EXCEPT ![w] = label] /\ todo' = [todo EXCEPT ![w] = what]
      /\ column' = [column EXCEPT ![w] = None]
  BY DEF Enter
<1>2. ASSUME NEW v \in Workers \ {w}
      PROVE  WorkerInv(v)'
  <2>1. phase'[v] = phase[v] /\ todo'[v] = todo[v] /\ column'[v] = column[v]
    BY <1>1, <1>2 DEF SchemaInv
  <2>2. WorkerInv(v)
    BY <1>2 DEF SchemaInv
  <2>3. /\ \A c : Done(c) => Done(c)'
        /\ \A t : Whole(t)' = Whole(t)
    BY DEF Done, Present, Whole
  <2> QED
    BY <2>1, <2>2, <2>3 DEF WorkerInv
<1> QED
  BY <1>1, <1>2 DEF SchemaInv

\* Everything starts again, or the database has nothing to do with the step.
LEMMA DatabaseUntouched ==
    ASSUME SchemaInv, UNCHANGED <<database, skipped>>,
           \/ UNCHANGED worker
           \/ /\ phase' = [w \in Workers |-> "session"]
              /\ todo' = [w \in Workers |-> {}]
              /\ column' = [w \in Workers |-> None]
    PROVE  SchemaInv'
  BY DEF SchemaInv, WorkerInv, Done, Present, Whole, database, worker

\* A worker that has found a table missing creates it; another cannot have got past that.
LEMMA CreateTableStep ==
    ASSUME SchemaInv, NEW w \in Workers, NEW t \in todo[w], CreateTable(w, t)
    PROVE  SchemaInv'
<1>1. phase[w] = "creating" /\ t \in Tables /\ WorkerInv(w)
  BY DEF SchemaInv, WorkerInv, CreateTable
<1>2. CASE t \in DOMAIN schema
  <2>1. Enter(w, "failed", {}) /\ UNCHANGED <<schema, settings, skipped>>
    BY <1>2 DEF CreateTable, trouble
  <2>2. phase'[w] = "failed"
    BY <2>1 DEF Enter, SchemaInv
  <2>3. WorkerInv(w)'
    BY <2>2 DEF WorkerInv
  <2> QED
    BY <2>1, <2>3, EnterStep
<1>3. CASE t \notin DOMAIN schema
  <2>1. /\ phase' = [phase EXCEPT ![w] = "creating"]
        /\ todo' = [todo EXCEPT ![w] = todo[w] \ {t}]
        /\ column' = [column EXCEPT ![w] = None]
        /\ schema' = [u \in DOMAIN schema \cup {t} |->
                         IF u = t THEN Columns[t] ELSE schema[u]]
        /\ settings' = settings
    BY <1>3 DEF CreateTable, Enter
  <2>2. PICK T \in SUBSET Tables : schema \in [T -> SUBSET UNION {Columns[u] : u \in Tables}]
    BY DEF SchemaInv
  <2>3. T \cup {t} \in SUBSET Tables /\ DOMAIN schema' = T \cup {t} /\ DOMAIN schema = T
    BY <1>1, <2>1, <2>2
  <2>4. schema' \in [T \cup {t} -> SUBSET UNION {Columns[u] : u \in Tables}]
    BY <1>1, <2>1, <2>2
  <2>5. \A u \in DOMAIN schema' : schema'[u] \subseteq Columns[u]
    BY <2>1, <2>3 DEF SchemaInv
  <2>6. WorkerInv(w)'
    <3>1. phase'[w] = "creating" /\ todo'[w] = todo[w] \ {t}
      BY <2>1 DEF SchemaInv
    <3> QED
      BY <1>1, <2>3, <3>1 DEF WorkerInv
  <2>7. ASSUME NEW v \in Workers \ {w}
        PROVE  WorkerInv(v)'
    <3>1. phase'[v] = phase[v] /\ todo'[v] = todo[v] /\ column'[v] = column[v]
      BY <2>1, <2>7 DEF SchemaInv
    <3>2. /\ WorkerInv(v)
          /\ phase[v] \notin {"migrating", "adding", "inserting", "seeding", "serving"}
      BY <1>1, <1>3, <2>7 DEF SchemaInv, WorkerInv
    <3> QED
      BY <2>3, <3>1, <3>2 DEF WorkerInv
  <2> QED
    BY <2>1, <2>3, <2>4, <2>5, <2>6, <2>7 DEF SchemaInv
<1> QED
  BY <1>2, <1>3

\* A column that is added, or that another worker has added since, is there; none goes.
LEMMA AddColumnStep ==
    ASSUME SchemaInv, NEW w \in Workers, AddColumn(w)
    PROVE  SchemaInv'
<1>1. PICK c \in AllColumns : /\ phase[w] = "adding" /\ c = column[w] /\ c \in todo[w]
                              /\ DOMAIN schema = Tables
  BY DEF SchemaInv, WorkerInv, AddColumn
<1>2. c[1] \in Tables /\ c[2] \in Columns[c[1]]
  BY <1>1, ColumnsArePairs
<1>3. /\ phase' = [phase EXCEPT ![w] = "migrating"]
      /\ todo' = [todo EXCEPT ![w] = todo[w] \ {c}]
      /\ column' = [column EXCEPT ![w] = None]
      /\ schema' = [schema EXCEPT ![c[1]] = @ \cup {c[2]}]
      /\ UNCHANGED <<settings, skipped>>
  BY <1>1 DEF AddColumn, Enter, trouble
<1>4. schema \in [Tables -> SUBSET UNION {Columns[u] : u \in Tables}]
  BY <1>1 DEF SchemaInv
<1>5. schema' \in [Tables -> SUBSET UNION {Columns[u] : u \in Tables}]
  BY <1>2, <1>3, <1>4
<1>6. /\ \A u \in Tables : schema[u] \subseteq schema'[u] /\ schema'[u] \subseteq Columns[u]
      /\ c[2] \in schema'[c[1]]
  BY <1>1, <1>2, <1>3, <1>4 DEF SchemaInv
<1>7. /\ \A d \in AllColumns : Done(d) => Done(d)'
      /\ Done(c)'
      /\ \A t \in Tables : Whole(t) => Whole(t)'
  BY <1>3, <1>6, ColumnsArePairs DEF Done, Present, Whole
<1>8. DOMAIN schema' = Tables
  BY <1>1, <1>3
<1>9. WorkerInv(w)'
  <2>1. phase'[w] = "migrating" /\ todo'[w] = todo[w] \ {c}
    BY <1>3 DEF SchemaInv
  <2>2. todo[w] \subseteq AllColumns /\ \A d \in AllColumns \ todo[w] : Done(d)
    BY <1>1 DEF SchemaInv, WorkerInv
  <2> QED
    BY <1>7, <1>8, <2>1, <2>2 DEF WorkerInv
<1>10. ASSUME NEW v \in Workers \ {w}
       PROVE  WorkerInv(v)'
  <2>1. phase'[v] = phase[v] /\ todo'[v] = todo[v] /\ column'[v] = column[v]
    BY <1>3, <1>10 DEF SchemaInv
  <2>2. WorkerInv(v)
    BY <1>10 DEF SchemaInv
  <2>3. {"setting", "admin_user"} \subseteq Tables
    BY BootAssumption
  <2> QED
    BY <1>1, <1>3, <1>7, <1>8, <2>1, <2>2, <2>3 DEF WorkerInv
<1> QED
  BY <1>3, <1>5, <1>6, <1>8, <1>9, <1>10 DEF SchemaInv

\* The other steps of a booting worker only look.
LEMMA BootStep ==
    ASSUME SchemaInv, NEW w \in Workers, Work(w)
    PROVE  SchemaInv'
<1>1. WorkerInv(w)
  BY DEF SchemaInv
<1>2. CASE LookForKey(w) \/ (GetKey(w) /\ UNCHANGED <<database, worker, trouble>>)
  BY <1>2, DatabaseUntouched DEF LookForKey, trouble
<1>3. CASE HaveSessionKey(w) \/ HaveSecretKey(w)
  <2>1. PICK label \in {"secret", "failed", "listing"} :
            Enter(w, label, {}) /\ UNCHANGED <<schema, settings, skipped>>
    BY <1>3 DEF HaveSessionKey, HaveSecretKey, database, trouble
  <2>2. phase'[w] = label
    BY <2>1 DEF Enter, SchemaInv
  <2>3. WorkerInv(w)'
    BY <2>2 DEF WorkerInv
  <2> QED
    BY <2>1, <2>3, EnterStep
<1>4. CASE ListTables(w)
  <2>1. Enter(w, "creating", Tables \ DOMAIN schema) /\ UNCHANGED <<schema, settings, skipped>>
    BY <1>4 DEF ListTables, database, trouble
  <2>2. phase'[w] = "creating" /\ todo'[w] = Tables \ DOMAIN schema
    BY <2>1 DEF Enter, SchemaInv
  <2>3. WorkerInv(w)'
    BY <2>1, <2>2 DEF WorkerInv
  <2> QED
    BY <2>1, <2>3, EnterStep
<1>5. CASE BeginMigration(w)
  <2>1. Enter(w, "migrating", AllColumns) /\ UNCHANGED <<schema, settings, skipped>>
    BY <1>5 DEF BeginMigration, database, trouble
  <2>2. phase'[w] = "migrating" /\ todo'[w] = AllColumns
    BY <2>1 DEF Enter, SchemaInv
  <2>3. DOMAIN schema = Tables
    BY <1>1, <1>5 DEF SchemaInv, WorkerInv, BeginMigration
  <2>4. WorkerInv(w)'
    BY <2>1, <2>2, <2>3 DEF WorkerInv
  <2> QED
    BY <2>1, <2>4, EnterStep
<1>6. ASSUME NEW c \in AllColumns, ColumnPresent(w, c)
      PROVE  SchemaInv'
  <2>1. Enter(w, "migrating", todo[w] \ {c}) /\ UNCHANGED <<schema, settings, skipped>>
    BY <1>6 DEF ColumnPresent, database, trouble
  <2>2. phase'[w] = "migrating" /\ todo'[w] = todo[w] \ {c}
    BY <2>1 DEF Enter, SchemaInv
  <2>3. /\ DOMAIN schema = Tables /\ Present(c)
        /\ todo[w] \subseteq AllColumns /\ \A d \in AllColumns \ todo[w] : Done(d)
    BY <1>1, <1>6 DEF WorkerInv, ColumnPresent, Present
  <2>4. \A d \in AllColumns \ todo'[w] : Done(d)'
    BY <2>1, <2>2, <2>3 DEF Done, Present
  <2>5. WorkerInv(w)'
    BY <2>1, <2>2, <2>3, <2>4 DEF WorkerInv
  <2> QED
    BY <2>1, <2>5, EnterStep
<1>7. ASSUME NEW c \in AllColumns, ColumnAbsent(w, c)
      PROVE  SchemaInv'
  <2>1. /\ phase[w] = "migrating" /\ c \in todo[w]
        /\ phase' = [phase EXCEPT ![w] = "adding"] /\ column' = [column EXCEPT ![w] = c]
        /\ UNCHANGED <<schema, settings, todo, skipped>>
    BY <1>7 DEF ColumnAbsent, database, trouble
  <2>2. ASSUME NEW v \in Workers
        PROVE  WorkerInv(v)'
    <3>1. WorkerInv(v)
      BY DEF SchemaInv
    <3>2. CASE v = w
      <4>1. phase'[v] = "adding" /\ column'[v] = c
        BY <2>1, <3>2 DEF SchemaInv
      <4> QED
        BY <2>1, <3>1, <3>2, <4>1 DEF WorkerInv, Done, Present
    <3>3. CASE v # w
      <4>1. phase'[v] = phase[v] /\ column'[v] = column[v]
        BY <2>1, <3>3 DEF SchemaInv
      <4> QED
        BY <2>1, <3>1, <4>1 DEF WorkerInv, Done, Present, Whole
    <3> QED
      BY <3>2, <3>3
  <2> QED
    BY <2>1, <2>2 DEF SchemaInv
<1>8. CASE LookForSettings(w)
  <2>1. PICK label \in {"failed", "seeding", "inserting"} :
            /\ Enter(w, label, {}) /\ UNCHANGED <<schema, settings, skipped>>
            /\ label # "failed" => Whole("setting")
            /\ label = "seeding" => settings
    BY <1>8 DEF LookForSettings, database, trouble
  <2>2. phase'[w] = label
    BY <2>1 DEF Enter, SchemaInv
  <2>3. DOMAIN schema = Tables /\ \A d \in AllColumns : Done(d)
    BY <1>1, <1>8 DEF WorkerInv, LookForSettings
  <2>4. WorkerInv(w)'
    BY <2>1, <2>2, <2>3 DEF WorkerInv, Done, Present, Whole
  <2> QED
    BY <2>1, <2>4, EnterStep
<1>9. CASE InsertSettings(w)
  <2>1. Enter(w, "seeding", {}) /\ UNCHANGED <<schema, skipped>> /\ settings'
    BY <1>9 DEF InsertSettings, trouble
  <2>2. phase'[w] = "seeding"
    BY <2>1 DEF Enter, SchemaInv
  <2>3. DOMAIN schema = Tables /\ Whole("setting") /\ \A d \in AllColumns : Done(d)
    BY <1>1, <1>9 DEF WorkerInv, InsertSettings
  <2>4. WorkerInv(w)'
    BY <2>1, <2>2, <2>3 DEF WorkerInv, Done, Present, Whole
  <2> QED
    BY <2>1, <2>4, EnterStep
<1>10. CASE LookForAccounts(w)
  <2>1. PICK label \in {"serving", "failed"} :
            /\ Enter(w, label, {}) /\ UNCHANGED <<schema, settings, skipped>>
            /\ label = "serving" => Whole("admin_user")
    BY <1>10 DEF LookForAccounts, database, trouble
  <2>2. phase'[w] = label
    BY <2>1 DEF Enter, SchemaInv
  <2>3. /\ DOMAIN schema = Tables /\ Whole("setting") /\ settings
        /\ \A d \in AllColumns : Done(d)
    BY <1>1, <1>10 DEF WorkerInv, LookForAccounts
  <2>4. WorkerInv(w)'
    BY <2>1, <2>2, <2>3 DEF WorkerInv, Done, Present, Whole
  <2> QED
    BY <2>1, <2>4, EnterStep
<1> QED
  BY <1>2, <1>3, <1>4, <1>5, <1>6, <1>7, <1>8, <1>9, <1>10, CreateTableStep, AddColumnStep
  DEF Work

\* A worker that meets an error leaves columns out, or starts again.
LEMMA BootGoesWrong ==
    ASSUME SchemaInv, NEW w \in Workers, GoWrong(w)
    PROVE  SchemaInv'
<1>1. WorkerInv(w)
  BY DEF SchemaInv
<1>2. CASE AddColumnFails(w) \/ MigrationFails(w)
  <2>1. PICK left \in SUBSET AllColumns :
            /\ phase[w] \in {"migrating", "adding"} /\ todo[w] \subseteq AllColumns
            /\ left \subseteq todo[w]
            /\ Enter(w, "migrating", todo[w] \ left) /\ UNCHANGED <<schema, settings>>
            /\ skipped' = skipped \cup left
    <3>1. CASE AddColumnFails(w)
      <4>1. {column[w]} \in SUBSET AllColumns /\ {column[w]} \subseteq todo[w]
        BY <1>1, <3>1 DEF WorkerInv, AddColumnFails
      <4> QED
        BY <1>1, <3>1, <4>1 DEF WorkerInv, AddColumnFails, database
    <3>2. CASE MigrationFails(w)
      <4>1. todo[w] \in SUBSET AllColumns /\ todo[w] \ todo[w] = {}
        BY <1>1, <3>2 DEF WorkerInv, MigrationFails
      <4> QED
        BY <3>2, <4>1 DEF MigrationFails, database
    <3> QED
      BY <1>2, <3>1, <3>2
  <2>2. phase'[w] = "migrating" /\ todo'[w] = todo[w] \ left
    BY <2>1 DEF Enter, SchemaInv
  <2>3. DOMAIN schema = Tables /\ \A d \in AllColumns \ todo[w] : Done(d)
    BY <1>1, <2>1 DEF WorkerInv
  <2>4. \A d \in AllColumns \ todo'[w] : Done(d)'
    BY <2>1, <2>2, <2>3 DEF Done, Present
  <2>5. WorkerInv(w)'
    BY <2>1, <2>2, <2>3, <2>4 DEF WorkerInv
  <2> QED
    BY <2>1, <2>5, EnterStep
<1>3. CASE BootFails(w) \/ KillWorker(w)
  <2>1. PICK label \in {"failed", "session"} :
            Enter(w, label, {}) /\ UNCHANGED <<schema, settings, skipped>>
    BY <1>3 DEF BootFails, KillWorker, database
  <2>2. phase'[w] = label
    BY <2>1 DEF Enter, SchemaInv
  <2>3. WorkerInv(w)'
    BY <2>2 DEF WorkerInv
  <2> QED
    BY <2>1, <2>3, EnterStep
<1> QED
  BY <1>2, <1>3 DEF GoWrong

\* No worker gets past what another has still to make.
LEMMA SchemaInvariant == BootSpec => []SchemaInv
<1>1. BootInit => SchemaInv
  <2> SUFFICES ASSUME BootInit
               PROVE  SchemaInv
    OBVIOUS
  <2>1. \A w \in Workers : WorkerInv(w)
    BY DEF BootInit, WorkerInv
  <2>2. DOMAIN phase = Workers /\ DOMAIN todo = Workers /\ DOMAIN column = Workers
    BY DEF BootInit
  <2>3. CASE schema = << >>
    <3>1. DOMAIN schema = {} /\ schema \in [{} -> SUBSET UNION {Columns[t] : t \in Tables}]
      BY <2>3
    <3> QED
      BY <2>1, <2>2, <3>1 DEF SchemaInv
  <2>4. ASSUME NEW T \in SUBSET Tables,
               schema \in [T -> SUBSET UNION {Columns[t] : t \in Tables}],
               \A t \in T : schema[t] \subseteq Columns[t]
        PROVE  SchemaInv
    BY <2>1, <2>2, <2>4 DEF SchemaInv
  <2> QED
    BY <2>3, <2>4 DEF BootInit
<1>2. SchemaInv /\ [BootNext]_bootVars => SchemaInv'
  <2> SUFFICES ASSUME SchemaInv, [BootNext]_bootVars
               PROVE  SchemaInv'
    OBVIOUS
  <2>1. ASSUME NEW w \in Workers, Work(w)
        PROVE  SchemaInv'
    BY <2>1, BootStep
  <2>2. ASSUME NEW w \in Workers, GoWrong(w)
        PROVE  SchemaInv'
    BY <2>2, BootGoesWrong
  <2>3. ASSUME NEW t \in Threads, Seal(t)
        PROVE  SchemaInv'
    BY <2>3, DatabaseUntouched DEF Seal, trouble
  <2>4. CASE Halt
    BY <2>4, DatabaseUntouched DEF Halt, trouble
  <2>5. CASE UNCHANGED bootVars
    BY <2>5, DatabaseUntouched DEF bootVars, trouble
  <2> QED
    BY <2>1, <2>2, <2>3, <2>4, <2>5 DEF BootNext
<1> QED
  BY <1>1, <1>2, PTL DEF BootSpec

\* No worker serves before everything its models need is in the database, but for the
\* columns that an error of the database has kept a worker from adding; and the boot never
\* gets past the settings and the accounts without their columns.
THEOREM SchemaIsComplete == BootSpec => []SchemaComplete
<1>1. SchemaInv => SchemaComplete
  <2> SUFFICES ASSUME SchemaInv, NEW w \in Workers, phase[w] = "serving"
               PROVE  /\ settings /\ DOMAIN schema = Tables
                      /\ \A t \in Tables : \A c \in Columns[t] \ schema[t] : <<t, c>> \in skipped
                      /\ Whole("setting") /\ Whole("admin_user")
    BY DEF SchemaComplete
  <2>1. /\ settings /\ DOMAIN schema = Tables /\ Whole("setting") /\ Whole("admin_user")
        /\ \A c \in AllColumns : Done(c)
    BY DEF SchemaInv, WorkerInv
  <2>2. ASSUME NEW t \in Tables, NEW name \in Columns[t] \ schema[t]
        PROVE  <<t, name>> \in skipped
    <3>1. Done(<<t, name>>)
      BY <2>1, <2>2, ColumnsArePairs
    <3> QED
      BY <2>2, <3>1 DEF Done, Present
  <2> QED
    BY <2>1, <2>2
<1> QED
  BY <1>1, SchemaInvariant, PTL
-----------------------------------------------------------------------------
(* Sums over finite sets *)

\* A set of natural numbers has a least one: what an induction over them comes down to.
LEMMA LeastNumber ==
    ASSUME NEW B \in SUBSET Nat, B # {}
    PROVE  \E n \in B : \A m \in B : n <= m
<1> DEFINE R == {p \in Nat \X Nat : p[1] < p[2]}
<1>1. IsWellFoundedOn(R, Nat)
  BY NatLessThanWellFounded DEF OpToRel
<1> HIDE DEF R
<1>2. \E n \in B : \A m \in B : ~(<<m, n>> \in R)
  BY <1>1, WFMin
<1>3. \A m, n \in B : ~(<<m, n>> \in R) => n <= m
  BY DEF R
<1> QED
  BY <1>2, <1>3

\* So has a set of subsets of a finite set, for the order of inclusion.
LEMMA LeastSubset ==
    ASSUME NEW S, IsFiniteSet(S), NEW B \in SUBSET SUBSET S, B # {}
    PROVE  \E T \in B : \A U \in B : U \subseteq T => U = T
<1> DEFINE sizes == {Cardinality(T) : T \in B}
<1>1. \A T \in B : IsFiniteSet(T) /\ Cardinality(T) \in Nat
  BY FS_Subset, FS_CardinalityType
<1>2. sizes \in SUBSET Nat /\ sizes # {}
  BY <1>1
<1> HIDE DEF sizes
<1>3. PICK n \in sizes : \A m \in sizes : n <= m
  BY <1>2, LeastNumber
<1>4. PICK T \in B : n = Cardinality(T)
  BY DEF sizes
<1>5. ASSUME NEW U \in B, U \subseteq T
      PROVE  U = T
  <2>1. IsFiniteSet(T) /\ U \in SUBSET T
    BY <1>1, <1>5
  <2>2. Cardinality(U) <= Cardinality(T) /\ (Cardinality(T) = Cardinality(U) => T = U)
    BY <2>1, FS_Subset
  <2>3. Cardinality(T) <= Cardinality(U)
    BY <1>3, <1>4 DEF sizes
  <2> QED
    BY <1>1, <2>2, <2>3
<1> QED
  BY <1>5

\* The equation by which SumFunctionOnSet adds one element of a set after another.
Pick(s) == CHOOSE x \in s : TRUE
SumsUp(g, f, S) ==
    g = [s \in SUBSET S |-> IF s = {} THEN 0 ELSE f[Pick(s)] + g[s \ {Pick(s)}]]

\* A non-empty set has the element that is picked.
LEMMA Picked == \A s : s # {} => Pick(s) \in s
  BY DEF Pick

\* The equation has a solution: one for all subsets of up to n elements gives one for
\* those of n + 1.
LEMMA SumExists ==
    ASSUME NEW f, NEW S, IsFiniteSet(S)
    PROVE  \E g : SumsUp(g, f, S)
<1> DEFINE Value(g, s) == IF s = {} THEN 0 ELSE f[Pick(s)] + g[s \ {Pick(s)}]
           UpTo(g, n) == \A s \in SUBSET S : Cardinality(s) <= n => g[s] = Value(g, s)
           bad == {n \in Nat : ~ \E g : UpTo(g, n)}
<1>0. \A s \in SUBSET S : IsFiniteSet(s) /\ Cardinality(s) \in Nat
  BY FS_Subset, FS_CardinalityType
<1>1. bad = {}
  <2> SUFFICES ASSUME bad # {}
               PROVE  FALSE
    OBVIOUS
  <2>1. PICK n \in bad : \A m \in bad : n <= m
    BY LeastNumber
  <2>2. PICK g : \A s \in SUBSET S : Cardinality(s) <= n - 1 => g[s] = Value(g, s)
    <3>1. CASE n = 0
      <4>1. \A s \in SUBSET S : ~ (Cardinality(s) <= n - 1)
        BY <1>0, <3>1
      <4> QED
        BY <4>1
    <3>2. CASE n # 0
      <4>1. n \in Nat
        OBVIOUS
      <4>2. n - 1 \in Nat /\ ~ (n <= n - 1)
        BY <3>2, <4>1
      <4>3. n - 1 \notin bad
        BY <2>1, <4>2
      <4> QED
        BY <4>2, <4>3
    <3> QED
      BY <3>1, <3>2
  <2> DEFINE h == [s \in SUBSET S |-> IF Cardinality(s) <= n - 1 THEN g[s] ELSE Value(g, s)]
  <2>3. ASSUME NEW s \in SUBSET S, Cardinality(s) <= n
        PROVE  h[s] = Value(h, s)
    <3>1. CASE s = {}
      BY <2>2, <3>1
    <3>2. CASE s # {}
      <4> DEFINE r == s \ {Pick(s)}
      <4>1. Cardinality(r) = Cardinality(s) - 1
        BY <1>0, <3>2, Picked, FS_RemoveElement
      <4>2. Cardinality(r) <= n - 1 /\ r \in SUBSET S
        BY <1>0, <2>3, <4>1
      <4>3. h[r] = g[r]
        BY <4>2
      <4>4. h[s] = Value(g, s)
        BY <2>2
      <4> QED
        BY <3>2, <4>3, <4>4
    <3> QED
      BY <3>1, <3>2
  <2>4. UpTo(h, n)
    BY <2>3
  <2> QED
    BY <2>1, <2>4
<1>2. Cardinality(S) \in Nat /\ Cardinality(S) \notin bad
  BY <1>0, <1>1
<1>3. PICK g : UpTo(g, Cardinality(S))
  BY <1>2
<1>4. \A s \in SUBSET S : g[s] = Value(g, s)
  BY <1>0, <1>3, FS_Subset
<1> DEFINE h == [s \in SUBSET S |-> g[s]]
<1>5. \A s \in SUBSET S : h[s] = Value(h, s)
  <2>1. \A s \in SUBSET S : h[s] = g[s] /\ s \ {Pick(s)} \in SUBSET S
    OBVIOUS
  <2> QED
    BY <1>4, <2>1
<1>6. SumsUp(h, f, S)
  BY <1>5 DEF SumsUp
<1> QED
  BY <1>6

\* Two solutions agree on the subsets that both know.
LEMMA SumsAgree ==
    ASSUME NEW f, NEW S, IsFiniteSet(S), NEW T, NEW g, NEW h,
           SumsUp(g, f, S), SumsUp(h, f, T), NEW U, U \subseteq S, U \subseteq T
    PROVE  g[U] = h[U]
<1> DEFINE bad == {V \in SUBSET U : g[V] # h[V]}
<1>1. SUFFICES ASSUME bad # {}
               PROVE  FALSE
  OBVIOUS
<1>2. PICK V \in bad : \A W \in bad : W \subseteq V => W = V
  <2>1. IsFiniteSet(U) /\ bad \in SUBSET SUBSET U
    BY FS_Subset
  <2> HIDE DEF bad
  <2> QED
    BY <1>1, <2>1, LeastSubset
<1>3. V \in SUBSET S /\ V \in SUBSET T
  OBVIOUS
<1>4. CASE V = {}
  BY <1>3, <1>4 DEF SumsUp
<1>5. CASE V # {}
  <2>1. Pick(V) \in V
    BY <1>5, Picked
  <2>2. g[V \ {Pick(V)}] = h[V \ {Pick(V)}]
    <3>1. V \ {Pick(V)} \in SUBSET U /\ V \ {Pick(V)} # V
      BY <2>1
    <3> QED
      BY <1>2, <3>1
  <2> QED
    BY <1>3, <1>5, <2>2 DEF SumsUp
<1> QED
  BY <1>4, <1>5

\* The sum over no element is 0; over some, it is that of the others and the one picked.
LEMMA SumEquation ==
    ASSUME NEW f, NEW S, IsFiniteSet(S)
    PROVE  SumFunctionOnSet(f, S) =
               IF S = {} THEN 0
               ELSE f[Pick(S)] + SumFunctionOnSet(f, S \ {Pick(S)})
<1> DEFINE Solution(T) == CHOOSE g : SumsUp(g, f, T)
<1>1. \A T : SumFunctionOnSet(f, T) = Solution(T)[T]
  BY DEF SumFunctionOnSet, FoldFunctionOnSet, MapThenFoldSet, SumsUp, Pick
<1>2. SumsUp(Solution(S), f, S)
  BY SumExists
<1>3. CASE S = {}
  <2> HIDE DEF Solution
  <2>1. Solution(S)[S] = 0
    BY <1>2, <1>3 DEF SumsUp
  <2> QED
    BY <1>1, <1>3, <2>1
<1>4. CASE S # {}
  <2> DEFINE R == S \ {Pick(S)}
  <2>1. IsFiniteSet(R)
    BY FS_Subset
  <2>2. SumsUp(Solution(R), f, R)
    BY <2>1, SumExists
  <2> HIDE DEF Solution
  <2>3. Solution(S)[R] = Solution(R)[R]
    BY <1>2, <2>2, SumsAgree
  <2>4. Solution(S)[S] = f[Pick(S)] + Solution(S)[R]
    BY <1>2, <1>4 DEF SumsUp
  <2> QED
    BY <1>1, <1>4, <2>3, <2>4
<1> QED
  BY <1>3, <1>4

\* Any element can be added last.
LEMMA SumSplit ==
    ASSUME NEW f, NEW S, IsFiniteSet(S), \A x \in S : f[x] \in Int
    PROVE  /\ SumFunctionOnSet(f, S) \in Int
           /\ \A x \in S : SumFunctionOnSet(f, S) = f[x] + SumFunctionOnSet(f, S \ {x})
<1> DEFINE Sum(T) == SumFunctionOnSet(f, T)
           Good(T) == Sum(T) \in Int /\ \A x \in T : Sum(T) = f[x] + Sum(T \ {x})
           bad == {T \in SUBSET S : ~Good(T)}
<1>e. Sum({}) = 0
  BY FS_EmptySet, SumEquation
<1>0. \A T \in SUBSET S : T # {} => Sum(T) = f[Pick(T)] + Sum(T \ {Pick(T)})
  BY FS_Subset, SumEquation
<1> HIDE DEF Sum
<1>1. SUFFICES ASSUME bad # {}
               PROVE  FALSE
  BY DEF Sum
<1>2. PICK T \in bad : \A U \in bad : U \subseteq T => U = T
  <2>1. bad \in SUBSET SUBSET S
    OBVIOUS
  <2> HIDE DEF bad
  <2> QED
    BY <1>1, <2>1, LeastSubset
<1>3. \A U \in SUBSET T : U # T => Good(U)
  <2>1. \A U \in SUBSET T : U \in SUBSET S
    OBVIOUS
  <2> QED
    BY <1>2, <2>1
<1>4. CASE T = {}
  <2>1. Good({})
    BY <1>e
  <2> QED
    BY <1>4, <2>1
<1>5. CASE T # {}
  <2> DEFINE p == Pick(T)
  <2>1. p \in T /\ Sum(T) = f[p] + Sum(T \ {p})
    BY <1>0, <1>5, Picked
  <2> HIDE DEF p
  <2>2. Sum(T \ {p}) \in Int /\ Sum(T) \in Int
    <3>1. T \ {p} # T
      BY <2>1
    <3> QED
      BY <1>3, <2>1, <3>1
  <2>3. ASSUME NEW x \in T, x # p
        PROVE  Sum(T) = f[x] + Sum(T \ {x})
    <3> DEFINE Rest == T \ {p, x}
    <3>1. /\ (T \ {p}) \ {x} = Rest /\ (T \ {x}) \ {p} = Rest
          /\ T \ {p} # T /\ T \ {x} # T /\ Rest # T
          /\ x \in T \ {p} /\ p \in T \ {x}
      BY <2>1, <2>3
    <3>2. Sum(T \ {p}) = f[x] + Sum(Rest)
      BY <1>3, <3>1
    <3>3. Sum(T \ {x}) = f[p] + Sum(Rest)
      BY <1>3, <3>1
    <3>4. Sum(Rest) \in Int /\ f[x] \in Int /\ f[p] \in Int
      BY <1>3, <2>1, <3>1
    <3> QED
      BY <2>1, <3>2, <3>3, <3>4
  <2>4. Good(T)
    BY <2>1, <2>2, <2>3
  <2> QED
    BY <2>4
<1> QED
  BY <1>4, <1>5

\* Functions that agree on a set have the same sum over it; one that is nowhere above
\* another has no larger one.
LEMMA SumMonotone ==
    ASSUME NEW f, NEW g, NEW S, IsFiniteSet(S),
           \A x \in S : f[x] \in Int /\ g[x] \in Int /\ f[x] <= g[x]
    PROVE  SumFunctionOnSet(f, S) <= SumFunctionOnSet(g, S)
<1> DEFINE F(T) == SumFunctionOnSet(f, T)
           G(T) == SumFunctionOnSet(g, T)
           bad == {T \in SUBSET S : ~(F(T) <= G(T))}
<1>1. \A T \in SUBSET S :
          /\ F(T) \in Int /\ G(T) \in Int
          /\ \A x \in T : F(T) = f[x] + F(T \ {x}) /\ G(T) = g[x] + G(T \ {x})
  BY FS_Subset, SumSplit
<1>2. F({}) = 0 /\ G({}) = 0
  BY FS_EmptySet, SumEquation
<1> HIDE DEF F, G
<1>3. SUFFICES ASSUME bad # {}
               PROVE  FALSE
  BY DEF F, G
<1>4. PICK T \in bad : \A U \in bad : U \subseteq T => U = T
  <2>1. bad \in SUBSET SUBSET S
    OBVIOUS
  <2> HIDE DEF bad
  <2> QED
    BY <1>3, <2>1, LeastSubset
<1>5. T \in SUBSET S /\ ~(F(T) <= G(T))
  OBVIOUS
<1>6. T # {}
  <2>1. F({}) <= G({})
    BY <1>2
  <2> QED
    BY <1>5, <2>1
<1>7. PICK x \in T : TRUE
  BY <1>6
<1>8. F(T \ {x}) <= G(T \ {x})
  <2>1. T \ {x} # T /\ T \ {x} \in SUBSET S
    BY <1>5
  <2> QED
    BY <1>4, <2>1
<1>9. /\ F(T) = f[x] + F(T \ {x}) /\ G(T) = g[x] + G(T \ {x})
      /\ F(T \ {x}) \in Int /\ G(T \ {x}) \in Int
      /\ f[x] \in Int /\ g[x] \in Int /\ f[x] <= g[x]
  <2>1. T \ {x} \in SUBSET S
    BY <1>5
  <2> QED
    BY <1>1, <1>5, <2>1
<1> QED
  BY <1>5, <1>8, <1>9

\* One value changes, and the sum with it.
LEMMA SumUpdate ==
    ASSUME NEW f, NEW g, NEW S, IsFiniteSet(S), NEW x \in S,
           \A y \in S : f[y] \in Int /\ g[y] \in Int,
           \A y \in S \ {x} : g[y] = f[y]
    PROVE  /\ SumFunctionOnSet(f, S) \in Int
           /\ SumFunctionOnSet(g, S) = SumFunctionOnSet(f, S) - f[x] + g[x]
<1> DEFINE R == S \ {x}
<1>1. IsFiniteSet(R)
  BY FS_Subset
<1>2. \A y \in R : f[y] \in Int /\ g[y] \in Int /\ f[y] = g[y]
  OBVIOUS
<1>3. SumFunctionOnSet(f, R) \in Int /\ SumFunctionOnSet(g, R) \in Int
  BY <1>1, <1>2, SumSplit
<1>4. SumFunctionOnSet(f, R) <= SumFunctionOnSet(g, R)
  BY <1>1, <1>2, SumMonotone
<1>5. SumFunctionOnSet(g, R) <= SumFunctionOnSet(f, R)
  BY <1>1, <1>2, SumMonotone
<1>6. /\ SumFunctionOnSet(f, S) \in Int
      /\ SumFunctionOnSet(f, S) = f[x] + SumFunctionOnSet(f, R)
  BY SumSplit
<1>7. SumFunctionOnSet(g, S) = g[x] + SumFunctionOnSet(g, R)
  BY SumSplit
<1> QED
  BY <1>3, <1>4, <1>5, <1>6, <1>7

\* A sum of n equal values is n times one of them.
LEMMA SumOfEqual ==
    ASSUME NEW S, IsFiniteSet(S), NEW k \in Int
    PROVE  SumFunctionOnSet([x \in S |-> k], S) = Cardinality(S) * k
<1> DEFINE f == [x \in S |-> k]
           F(T) == SumFunctionOnSet(f, T)
           bad == {T \in SUBSET S : F(T) # Cardinality(T) * k}
<1>1. \A T \in SUBSET S :
          /\ IsFiniteSet(T) /\ Cardinality(T) \in Nat
          /\ \A x \in T : /\ F(T) = k + F(T \ {x})
                         /\ Cardinality(T \ {x}) = Cardinality(T) - 1
  <2> SUFFICES ASSUME NEW T \in SUBSET S
               PROVE  /\ IsFiniteSet(T) /\ Cardinality(T) \in Nat
                      /\ \A x \in T : /\ F(T) = k + F(T \ {x})
                                     /\ Cardinality(T \ {x}) = Cardinality(T) - 1
    OBVIOUS
  <2>1. IsFiniteSet(T)
    BY FS_Subset
  <2>2. \A x \in T : f[x] = k
    OBVIOUS
  <2> HIDE DEF f
  <2>3. \A x \in T : F(T) = f[x] + F(T \ {x})
    BY <2>1, <2>2, SumSplit
  <2> QED
    BY <2>1, <2>2, <2>3, FS_CardinalityType, FS_RemoveElement
<1>2. F({}) = 0 /\ Cardinality({}) = 0
  BY FS_EmptySet, SumEquation
<1> HIDE DEF f, F
<1>3. SUFFICES ASSUME bad # {}
               PROVE  FALSE
  BY DEF F, f
<1>4. PICK T \in bad : \A U \in bad : U \subseteq T => U = T
  <2>1. bad \in SUBSET SUBSET S
    OBVIOUS
  <2> HIDE DEF bad
  <2> QED
    BY <1>3, <2>1, LeastSubset
<1>5. T \in SUBSET S /\ F(T) # Cardinality(T) * k
  OBVIOUS
<1>6. T # {}
  <2>1. F({}) = Cardinality({}) * k
    BY <1>2
  <2> QED
    BY <1>5, <2>1
<1>7. PICK x \in T : TRUE
  BY <1>6
<1>8. F(T \ {x}) = Cardinality(T \ {x}) * k
  <2>1. T \ {x} # T /\ T \ {x} \in SUBSET S
    BY <1>5
  <2> QED
    BY <1>4, <2>1
<1>9. F(T) = k + (Cardinality(T) - 1) * k /\ Cardinality(T) \in Nat
  BY <1>1, <1>5, <1>8
<1>10. \A c \in Nat : k + (c - 1) * k = c * k
  OBVIOUS
<1> QED
  BY <1>5, <1>9, <1>10

-----------------------------------------------------------------------------
(* Room on the volume *)

N == Cardinality(Requests)

Places == {"idle", "checking", "chunk", "saved", "assembling", "admitted", "placed",
           "leaving"}

VolumeTypeOK ==
    /\ rows \in [Sizes -> Nat]
    /\ staged \in Nat /\ strayUp \in Nat /\ strayDown \in Nat /\ stranded \in Nat
    /\ faults \in 0 .. MaxFaults
    /\ pc \in [Requests -> Places]
    /\ size \in [Requests -> Nat] /\ prior \in [Requests -> Nat]
    /\ claim \in [Requests -> Nat]
    /\ tmp \in [Requests -> Nat] /\ part \in [Requests -> Nat]
    /\ overrun \in BOOLEAN /\ blind \in BOOLEAN /\ largest \in 0 .. MaxBytes

\* The files of a request follow from where it is: at p, with an archive or chunk of size
\* s, it has taken up c of chunks, its copy is of size t and its .part file of size w, when
\* nothing larger than l has been sent.
FilesOf(p, s, c, t, w, l) ==
    /\ s <= l /\ c <= l /\ t <= l
    /\ p # "idle" => s > 0
    /\ p # "placed" => w = 0
    /\ p = "placed" => w = Stored(s)
    /\ p \in {"idle", "chunk", "saved", "checking"} => c = 0
    /\ p \in {"idle", "chunk", "saved", "assembling"} => t = 0
    /\ p \in {"checking", "admitted", "placed"} => t = s

Phases ==
    /\ \A r \in Requests : FilesOf(pc[r], size[r], claim[r], tmp[r], part[r], largest)
    /\ \A s \in Sizes : rows[s] > 0 => s <= largest

\* What an archive will take up that has passed the quota check and is not a row yet.
PromiseOf(p, s) == IF p \in {"assembling", "admitted", "placed"} THEN Stored(s) ELSE 0
Promised(r) == PromiseOf(pc[r], size[r])

QuotaInv ==
    Quota > 0 =>
        Used + SumFunctionOnSet([r \in Requests |-> Promised(r)], Requests)
            <= Quota + (N - 1) * Stored(MaxBytes) + Overhead

\* When nothing is larger than L: what a request may still write before the next check of
\* its own, and the unchecked copy that its thread can begin with after it.
AheadOf(p, s, c, t, L) ==
    CASE p \in {"idle", "saved"} -> L
      [] p = "chunk" -> s + L
      [] p \in {"checking", "placed"} -> L - t
      [] p = "assembling" -> L + Stored(s)
      [] p = "admitted" -> L - t + Stored(s)
      [] p = "leaving" -> IF c + t <= L THEN L - c - t ELSE 0
Ahead(r, L) == AheadOf(pc[r], size[r], claim[r], tmp[r], L)
AllAhead(L) == SumFunctionOnSet([r \in Requests |-> Ahead(r, L)], Requests)
MostAhead(L) == L + Stored(L)

\* The copies that faults may still leave behind, of F faults in all.
FaultsAhead(L, F) == (F - faults) * L

\* The margin covers what the check cannot see of archives up to L and of F faults, and no
\* more than these have been met.
Covered(L, F) ==
    /\ largest <= L /\ faults <= F /\ ~blind
    /\ Margin >= UnseenOf(L, F)

Pending == \E r \in Requests : pc[r] \in {"chunk", "assembling", "admitted"}
Room(L, F) ==
    /\ ~overrun
    /\ Pending => Free >= AllAhead(L) + FaultsAhead(L, F)
RoomInv == \A L \in 0 .. MaxBytes, F \in 0 .. MaxFaults : Covered(L, F) => Room(L, F)

\* What has been met stays met.
Ages == largest <= largest' /\ faults <= faults' /\ (blind => blind')

VolumeInv == VolumeTypeOK /\ Phases /\ Free >= 0 /\ QuotaInv /\ RoomInv /\ StrandedIsBounded

\* The constants of the volume are numbers.
LEMMA VolumeConstants ==
    /\ {Disk, Margin, Quota, MaxBytes, Overhead, MaxFaults} \subseteq Nat
    /\ \A s \in Nat : Stored(s) \in Nat /\ Stored(s) = s + Overhead /\ s <= Stored(s)
    /\ IsFiniteSet(Sizes) /\ Sizes \subseteq Nat
    /\ N \in Nat /\ N >= 1
<1>1. {Disk, Margin, Quota, MaxBytes, Overhead, MaxFaults} \subseteq Nat
  BY VolumeAssumption
<1>2. IsFiniteSet(Sizes) /\ Sizes \subseteq Nat
  <2>1. 1 \in Int /\ MaxBytes \in Int
    BY <1>1
  <2>2. IsFiniteSet(1 .. MaxBytes)
    BY <2>1, FS_Interval
  <2>3. 1 .. MaxBytes \subseteq Nat
    BY <2>1
  <2> QED
    BY <2>2, <2>3 DEF Sizes
<1>3. N \in Nat /\ N # 0
  BY VolumeAssumption, FS_CardinalityType, FS_EmptySet DEF N
<1> QED
  BY <1>1, <1>2, <1>3 DEF Stored

\* The smaller of two numbers.
LEMMA MinOfTwo ==
    ASSUME NEW a \in Int, NEW b \in Int
    PROVE  Min({a, b}) = IF a <= b THEN a ELSE b
  BY DEF Min

\* Of two amounts it is the smaller that is taken.
LEMMA TakenFacts ==
    ASSUME NEW a \in Nat, NEW b \in Nat
    PROVE  /\ Min({a, b}) \in Nat /\ Min({a, b}) <= a /\ Min({a, b}) <= b
           /\ a <= b => Min({a, b}) = a
  BY MinOfTwo

\* The larger of two numbers.
LEMMA MaxOfTwo ==
    ASSUME NEW a \in Int, NEW b \in Int
    PROVE  Max({a, b}) = IF a >= b THEN a ELSE b
  BY DEF Max

\* What archives take up is a number, whichever there are.
LEMMA WeightIsANumber ==
    ASSUME NEW w \in [Sizes -> Nat]
    PROVE  SumFunctionOnSet([s \in Sizes |-> w[s] * Stored(s)], Sizes) \in Nat
<1> DEFINE weights == [s \in Sizes |-> w[s] * Stored(s)]
           zeros == [s \in Sizes |-> 0]
<1>1. \A s \in Sizes : weights[s] \in Int /\ zeros[s] \in Int /\ zeros[s] <= weights[s]
  <2>1. \A a, b \in Nat : a * b \in Nat
    OBVIOUS
  <2> QED
    BY <2>1, VolumeConstants
<1>2. SumFunctionOnSet(zeros, Sizes) = 0
  <2>1. 0 \in Int /\ IsFiniteSet(Sizes)
    BY VolumeConstants
  <2>2. SumFunctionOnSet(zeros, Sizes) = Cardinality(Sizes) * 0
    BY <2>1, SumOfEqual
  <2>3. Cardinality(Sizes) \in Nat
    BY <2>1, FS_CardinalityType
  <2> QED
    BY <2>2, <2>3
<1>3. IsFiniteSet(Sizes)
  BY VolumeConstants
<1> HIDE DEF weights, zeros
<1>4. SumFunctionOnSet(weights, Sizes) \in Int
  BY <1>1, <1>3, SumSplit
<1>5. SumFunctionOnSet(zeros, Sizes) <= SumFunctionOnSet(weights, Sizes)
  BY <1>1, <1>3, SumMonotone
<1> QED
  BY <1>2, <1>4, <1>5 DEF weights

\* What the archives take up, and what is free, are numbers.
LEMMA SpaceIsANumber ==
    ASSUME VolumeTypeOK
    PROVE  Used \in Nat /\ Free \in Int
<1> DEFINE holdings == [r \in Requests |-> claim[r] + tmp[r] + part[r]]
<1>1. Used \in Nat
  BY WeightIsANumber DEF Used, SumFunction, VolumeTypeOK
<1>2. \A r \in Requests : holdings[r] \in Int
  BY DEF VolumeTypeOK
<1>3. DOMAIN holdings = Requests
  OBVIOUS
<1> HIDE DEF holdings
<1>4. SumFunctionOnSet(holdings, Requests) \in Int
  BY <1>2, VolumeAssumption, SumSplit
<1> QED
  BY <1>1, <1>3, <1>4, VolumeConstants DEF Free, SumFunction, VolumeTypeOK, holdings

\* A sum of natural numbers is at least each of them, and at most one of them and as
\* often the largest as there are others.
LEMMA SumBounds ==
    ASSUME NEW f, NEW S, IsFiniteSet(S), NEW k \in Int, NEW x \in S,
           \A y \in S : f[y] \in Nat /\ f[y] <= k
    PROVE  /\ SumFunctionOnSet(f, S) \in Int
           /\ f[x] <= SumFunctionOnSet(f, S)
           /\ SumFunctionOnSet(f, S) <= f[x] + (Cardinality(S) - 1) * k
<1> DEFINE R == S \ {x}
           zeros == [y \in R |-> 0]
           most == [y \in R |-> k]
<1>1. IsFiniteSet(R) /\ Cardinality(R) = Cardinality(S) - 1 /\ Cardinality(R) \in Nat
  BY FS_RemoveElement, FS_CardinalityType
<1>2. /\ SumFunctionOnSet(f, S) \in Int
      /\ SumFunctionOnSet(f, S) = f[x] + SumFunctionOnSet(f, R)
  BY SumSplit
<1>3. \A y \in R : /\ f[y] \in Int /\ zeros[y] \in Int /\ most[y] \in Int
                   /\ zeros[y] <= f[y] /\ f[y] <= most[y]
  OBVIOUS
<1>4. SumFunctionOnSet(zeros, R) = Cardinality(R) * 0
  <2>1. 0 \in Int
    OBVIOUS
  <2> QED
    BY <1>1, <2>1, SumOfEqual
<1>5. SumFunctionOnSet(most, R) = Cardinality(R) * k
  BY <1>1, SumOfEqual
<1> HIDE DEF zeros, most
<1>6. SumFunctionOnSet(zeros, R) <= SumFunctionOnSet(f, R)
  BY <1>1, <1>3, SumMonotone
<1>7. SumFunctionOnSet(f, R) <= SumFunctionOnSet(most, R)
  BY <1>1, <1>3, SumMonotone
<1>8. SumFunctionOnSet(f, R) \in Int
  BY <1>1, <1>3, SumSplit
<1>9. SumFunctionOnSet(zeros, R) = 0
  BY <1>1, <1>4
<1>10. SumFunctionOnSet(f, R) <= (Cardinality(S) - 1) * k
  BY <1>1, <1>5, <1>7
<1>11. f[x] \in Nat
  OBVIOUS
<1>12. (Cardinality(S) - 1) * k \in Int
  <2>1. \A a, b \in Int : a * b \in Int
    OBVIOUS
  <2>2. Cardinality(S) - 1 \in Int
    BY <1>1
  <2> QED
    BY <2>1, <2>2
<1> QED
  BY <1>2, <1>6, <1>8, <1>9, <1>10, <1>11, <1>12

-----------------------------------------------------------------------------
\* A step of one request leaves the others where they are.
OthersAsBefore(r) ==
    \A q \in Requests \ {r} :
        /\ pc'[q] = pc[q] /\ size'[q] = size[q]
        /\ claim'[q] = claim[q] /\ tmp'[q] = tmp[q] /\ part'[q] = part[q]

HeldBy(r) == claim[r] + tmp[r] + part[r]

\* What is free changes by what the archives, the strays and the one request take or
\* give back.
LEMMA FreeChange ==
    ASSUME VolumeTypeOK, VolumeTypeOK', NEW r \in Requests, OthersAsBefore(r)
    PROVE  Free' = Free - (Used' - Used) - (staged' - staged) - (strayUp' - strayUp)
                       - (strayDown' - strayDown) - (stranded' - stranded)
                       - (HeldBy(r)' - HeldBy(r))
<1> DEFINE before == [q \in Requests |-> claim[q] + tmp[q] + part[q]]
           after == [q \in Requests |-> claim'[q] + tmp'[q] + part'[q]]
<1>1. \A q \in Requests : before[q] \in Int /\ after[q] \in Int
  BY DEF VolumeTypeOK
<1>2. \A q \in Requests \ {r} : after[q] = before[q]
  BY DEF OthersAsBefore
<1>3. before[r] = HeldBy(r) /\ after[r] = HeldBy(r)'
  BY DEF HeldBy
<1>4. DOMAIN before = Requests /\ DOMAIN after = Requests
  OBVIOUS
<1>5. Free = Disk - Used - staged - strayUp - strayDown - stranded
                 - SumFunctionOnSet(before, Requests)
  BY <1>4 DEF Free, SumFunction
<1>6. Free' = Disk - Used' - staged' - strayUp' - strayDown' - stranded'
                  - SumFunctionOnSet(after, Requests)
  BY <1>4 DEF Free, SumFunction
<1> HIDE DEF before, after
<1>7. /\ SumFunctionOnSet(before, Requests) \in Int
      /\ SumFunctionOnSet(after, Requests)
             = SumFunctionOnSet(before, Requests) - before[r] + after[r]
  BY <1>1, <1>2, VolumeAssumption, SumUpdate
<1>8. /\ Used \in Int /\ Used' \in Int
      /\ {staged, strayUp, strayDown, stranded} \subseteq Int
      /\ {staged', strayUp', strayDown', stranded'} \subseteq Int
      /\ Disk \in Int
  <2>1. Used \in Nat /\ Used' \in Nat
    BY WeightIsANumber DEF Used, SumFunction, VolumeTypeOK
  <2> QED
    BY <2>1, VolumeConstants DEF VolumeTypeOK
<1> QED
  BY <1>1, <1>3, <1>5, <1>6, <1>7, <1>8

\* The quota is used more when an archive is added and less when one is deleted.
LEMMA UsedChange ==
    ASSUME VolumeTypeOK, VolumeTypeOK', NEW s \in Sizes, NEW d \in {-1, 1},
           rows' = [rows EXCEPT ![s] = @ + d]
    PROVE  Used' = Used + d * Stored(s)
<1> DEFINE before == [q \in Sizes |-> rows[q] * Stored(q)]
           after == [q \in Sizes |-> rows'[q] * Stored(q)]
<1>1. \A a, b \in Int : a * b \in Int
  OBVIOUS
<1>2. \A q \in Sizes : rows[q] \in Int /\ rows'[q] \in Int /\ Stored(q) \in Int
  BY VolumeConstants DEF VolumeTypeOK
<1>3. \A q \in Sizes : before[q] \in Int /\ after[q] \in Int
  BY <1>1, <1>2
<1>4. \A q \in Sizes \ {s} : after[q] = before[q]
  BY DEF VolumeTypeOK
<1>5. before[s] = rows[s] * Stored(s) /\ after[s] = (rows[s] + d) * Stored(s)
  BY DEF VolumeTypeOK
<1>6. \A a, b \in Int : (a + d) * b - a * b = d * b
  OBVIOUS
<1>7. after[s] - before[s] = d * Stored(s)
  BY <1>2, <1>5, <1>6
<1>8. Used = SumFunctionOnSet(before, Sizes) /\ Used' = SumFunctionOnSet(after, Sizes)
  BY DEF Used, SumFunction
<1> HIDE DEF before, after
<1>9. /\ SumFunctionOnSet(before, Sizes) \in Int
      /\ SumFunctionOnSet(after, Sizes) = SumFunctionOnSet(before, Sizes) - before[s] + after[s]
  <2>1. IsFiniteSet(Sizes)
    BY VolumeConstants
  <2> QED
    BY <1>3, <1>4, <2>1, SumUpdate
<1>10. before[s] \in Int /\ after[s] \in Int /\ d * Stored(s) \in Int
  BY <1>1, <1>2, <1>3
<1> QED
  BY <1>7, <1>8, <1>9, <1>10

\* What a request still may write is at most the copies of an archive that was admitted
\* and the copy of the next.
LEMMA AheadIsBounded ==
    ASSUME NEW p \in Places, NEW s \in Nat, NEW c \in Nat, NEW t \in Nat, NEW w \in Nat,
           NEW l \in Nat, NEW L \in Nat, l <= L, FilesOf(p, s, c, t, w, l)
    PROVE  /\ AheadOf(p, s, c, t, L) \in Nat /\ AheadOf(p, s, c, t, L) <= MostAhead(L)
           /\ PromiseOf(p, s) \in Nat /\ PromiseOf(p, s) <= Stored(L)
           /\ MostAhead(L) \in Nat /\ Stored(L) \in Nat
<1>1. Overhead \in Nat
  BY VolumeConstants
<1> QED
  BY <1>1 DEF Places, AheadOf, PromiseOf, FilesOf, MostAhead, Stored

\* What has been met has been met before only in part.
LEMMA CoveredBefore ==
    ASSUME VolumeTypeOK, VolumeTypeOK', Ages, NEW L \in 0 .. MaxBytes,
           NEW F \in 0 .. MaxFaults, Covered(L, F)'
    PROVE  Covered(L, F) /\ largest' <= L /\ largest <= L
<1>1. largest \in Int /\ largest' \in Int /\ faults \in Int /\ faults' \in Int
      /\ L \in Int /\ F \in Int
  BY VolumeConstants DEF VolumeTypeOK
<1>2. UnseenOf(L, F)' = UnseenOf(L, F)
  BY DEF UnseenOf
<1> QED
  BY <1>1, <1>2 DEF Ages, Covered

\* The faults that are left can leave no more behind than all of them, and with each
\* there is one less.
LEMMA FaultsAheadChange ==
    ASSUME VolumeTypeOK, VolumeTypeOK', NEW L \in 0 .. MaxBytes, NEW F \in 0 .. MaxFaults,
           faults <= F
    PROVE  /\ FaultsAhead(L, F) \in Nat /\ FaultsAhead(L, F)' \in Int
           /\ FaultsAhead(L, F) <= F * L /\ F * L \in Nat
           /\ faults' = faults => FaultsAhead(L, F)' = FaultsAhead(L, F)
           /\ faults' = faults + 1 => FaultsAhead(L, F)' = FaultsAhead(L, F) - L
<1>1. L \in Nat /\ F \in Nat /\ faults \in Nat /\ faults <= F /\ faults' \in Nat
  BY VolumeConstants DEF VolumeTypeOK
<1>2. \A a, b \in Nat : a * b \in Nat
  OBVIOUS
<1>3. \A a, b, c \in Nat : (a - c) * b = a * b - c * b
  OBVIOUS
<1>4. \A a, b, c \in Int : (a - (c + 1)) * b = (a - c) * b - b
  OBVIOUS
<1>5. F - faults \in Nat
  BY <1>1
<1>6. FaultsAhead(L, F) = F * L - faults * L
  BY <1>1, <1>3 DEF FaultsAhead
<1>7. FaultsAhead(L, F) \in Nat /\ F * L \in Nat /\ faults * L \in Nat
  BY <1>1, <1>2, <1>5 DEF FaultsAhead
<1>8. faults' = faults + 1 => FaultsAhead(L, F)' = FaultsAhead(L, F) - L
  BY <1>1, <1>4 DEF FaultsAhead
<1>9. faults' = faults => FaultsAhead(L, F)' = FaultsAhead(L, F)
  BY DEF FaultsAhead
<1>10. FaultsAhead(L, F)' \in Int
  <2>1. \A a, b \in Int : a * b \in Int
    OBVIOUS
  <2>2. F - faults' \in Int /\ L \in Int
    BY <1>1
  <2> QED
    BY <2>1, <2>2 DEF FaultsAhead
<1> QED
  BY <1>6, <1>7, <1>8, <1>9, <1>10

\* How the sum of the promises changes when one request takes a step, and what bounds it.
LEMMA PromisesChange ==
    ASSUME VolumeTypeOK, Phases, VolumeTypeOK', Phases', NEW r \in Requests, OthersAsBefore(r)
    PROVE  LET promises == SumFunctionOnSet([q \in Requests |-> Promised(q)], Requests)
           IN  /\ promises \in Int /\ promises' = promises - Promised(r) + Promised(r)'
               /\ promises' <= Promised(r)' + (N - 1) * Stored(MaxBytes)
               /\ Promised(r) \in Nat /\ Promised(r)' \in Nat
<1> DEFINE p == [q \in Requests |-> Promised(q)]
           pn == [q \in Requests |-> Promised(q)']
<1>a. /\ MaxBytes \in Nat /\ largest \in Nat /\ largest' \in Nat
      /\ largest <= MaxBytes /\ largest' <= MaxBytes
  BY VolumeConstants DEF VolumeTypeOK
<1>1. \A q \in Requests : p[q] \in Nat /\ p[q] <= Stored(MaxBytes)
  BY <1>a, AheadIsBounded DEF VolumeTypeOK, Phases, Promised
<1>2. \A q \in Requests : pn[q] \in Nat /\ pn[q] <= Stored(MaxBytes)
  BY <1>a, AheadIsBounded DEF VolumeTypeOK, Phases, Promised
<1>3. \A q \in Requests \ {r} : pn[q] = p[q]
  BY DEF OthersAsBefore, Promised
<1>4. p[r] = Promised(r) /\ pn[r] = Promised(r)'
  OBVIOUS
<1>5. Stored(MaxBytes) \in Int /\ IsFiniteSet(Requests)
  BY VolumeConstants, VolumeAssumption
<1> HIDE DEF p, pn
<1>6. /\ SumFunctionOnSet(p, Requests) \in Int
      /\ SumFunctionOnSet(pn, Requests) = SumFunctionOnSet(p, Requests) - p[r] + pn[r]
  BY <1>1, <1>2, <1>3, <1>5, SumUpdate
<1>7. SumFunctionOnSet(pn, Requests) <= pn[r] + (N - 1) * Stored(MaxBytes)
  BY <1>2, <1>5, SumBounds DEF N
<1> QED
  BY <1>1, <1>2, <1>4, <1>6, <1>7 DEF p, pn

\* The same of what the requests have ahead of them.
LEMMA AheadsChange ==
    ASSUME VolumeTypeOK, Phases, VolumeTypeOK', Phases', Ages,
           NEW r \in Requests, OthersAsBefore(r), NEW L \in 0 .. MaxBytes, largest' <= L
    PROVE  /\ AllAhead(L) \in Int
           /\ AllAhead(L)' = AllAhead(L) - Ahead(r, L) + Ahead(r, L)'
           /\ AllAhead(L)' <= Ahead(r, L)' + (N - 1) * MostAhead(L)
           /\ Ahead(r, L) \in Nat /\ Ahead(r, L)' \in Nat
<1> DEFINE a == [q \in Requests |-> Ahead(q, L)]
           an == [q \in Requests |-> Ahead(q, L)']
<1>a. largest \in Nat /\ largest' \in Nat /\ L \in Nat /\ largest <= L /\ largest' <= L
  BY VolumeConstants DEF VolumeTypeOK, Ages
<1>1. \A q \in Requests : a[q] \in Nat /\ a[q] <= MostAhead(L)
  BY <1>a, AheadIsBounded DEF VolumeTypeOK, Phases, Ahead
<1>2. \A q \in Requests : an[q] \in Nat /\ an[q] <= MostAhead(L)
  BY <1>a, AheadIsBounded DEF VolumeTypeOK, Phases, Ahead
<1>3. \A q \in Requests \ {r} : an[q] = a[q]
  BY DEF OthersAsBefore, Ahead
<1>4. a[r] = Ahead(r, L) /\ an[r] = Ahead(r, L)'
  OBVIOUS
<1>5. MostAhead(L) \in Int /\ IsFiniteSet(Requests)
  BY <1>a, VolumeConstants, VolumeAssumption DEF MostAhead
<1>6. /\ AllAhead(L) = SumFunctionOnSet(a, Requests)
      /\ AllAhead(L)' = SumFunctionOnSet(an, Requests)
  BY DEF AllAhead
<1> HIDE DEF a, an
<1>7. /\ SumFunctionOnSet(a, Requests) \in Int
      /\ SumFunctionOnSet(an, Requests) = SumFunctionOnSet(a, Requests) - a[r] + an[r]
  BY <1>1, <1>2, <1>3, <1>5, SumUpdate
<1>8. SumFunctionOnSet(an, Requests) <= an[r] + (N - 1) * MostAhead(L)
  BY <1>2, <1>5, SumBounds DEF N
<1> QED
  BY <1>1, <1>2, <1>4, <1>6, <1>7, <1>8

\* A request that adds no more than it was promised keeps the bound on the quota.
LEMMA QuotaKept ==
    ASSUME VolumeTypeOK, Phases, VolumeTypeOK', Phases', NEW r \in Requests, OthersAsBefore(r),
           QuotaInv, Used' + Promised(r)' <= Used + Promised(r)
    PROVE  QuotaInv'
<1> DEFINE promises == SumFunctionOnSet([q \in Requests |-> Promised(q)], Requests)
           others == (N - 1) * Stored(MaxBytes)
<1> SUFFICES ASSUME Quota > 0
             PROVE  Used' + promises' <= Quota + others + Overhead
  BY DEF QuotaInv
<1>1. /\ promises \in Int /\ promises' = promises - Promised(r) + Promised(r)'
      /\ Promised(r) \in Nat /\ Promised(r)' \in Nat
  BY PromisesChange
<1>2. Used \in Nat /\ Used' \in Nat
  BY WeightIsANumber DEF Used, SumFunction, VolumeTypeOK
<1>3. others \in Int /\ Quota \in Int /\ Overhead \in Int
  <2>1. \A a, b \in Int : a * b \in Int
    OBVIOUS
  <2>2. N - 1 \in Int /\ Stored(MaxBytes) \in Int
    BY VolumeConstants
  <2> QED
    BY <2>1, <2>2, VolumeConstants
<1>4. Used + promises <= Quota + others + Overhead
  BY DEF QuotaInv
<1>5. Used' + promises' <= Quota + others + Overhead
  <2> HIDE DEF promises, others
  <2> QED
    BY <1>1, <1>2, <1>3, <1>4
<1> QED
  BY <1>5

\* One that passes the check is within the quota but for what encryption adds, and all
\* others have been promised no more than an archive each.
LEMMA QuotaAdmitted ==
    ASSUME VolumeTypeOK, Phases, VolumeTypeOK', Phases', NEW r \in Requests, OthersAsBefore(r),
           NEW s \in Nat, Quota > 0 => Used' <= Quota - s, Promised(r)' <= Stored(s)
    PROVE  QuotaInv'
<1> DEFINE promises == SumFunctionOnSet([q \in Requests |-> Promised(q)], Requests)
           others == (N - 1) * Stored(MaxBytes)
<1> SUFFICES ASSUME Quota > 0
             PROVE  Used' + promises' <= Quota + others + Overhead
  BY DEF QuotaInv
<1>1. /\ promises \in Int /\ promises' <= Promised(r)' + others
      /\ promises' = promises - Promised(r) + Promised(r)'
      /\ Promised(r) \in Nat /\ Promised(r)' \in Nat
  BY PromisesChange
<1>2. Used' \in Nat
  BY WeightIsANumber DEF Used, SumFunction, VolumeTypeOK
<1>3. others \in Int /\ Quota \in Int /\ Overhead \in Int /\ Stored(s) = s + Overhead
  <2>1. \A a, b \in Int : a * b \in Int
    OBVIOUS
  <2>2. N - 1 \in Int /\ Stored(MaxBytes) \in Int
    BY VolumeConstants
  <2> QED
    BY <2>1, <2>2, VolumeConstants
<1>4. Used' + promises' <= Quota + others + Overhead
  <2> HIDE DEF promises, others
  <2>1. promises' \in Int
    BY <1>1
  <2>2. promises' <= s + Overhead + others
    BY <1>1, <1>3, <2>1
  <2>3. PICK u \in Nat : u = Used'
    BY <1>2
  <2>4. PICK q \in Int : q = promises'
    BY <2>1
  <2>5. u <= Quota - s /\ q <= s + Overhead + others
    BY <2>2, <2>3, <2>4
  <2>6. u + q <= Quota + others + Overhead
    BY <1>3, <2>5
  <2> QED
    BY <2>3, <2>4, <2>6, Zenon
<1> QED
  BY <1>4

\* As long as the margin covers the unseen, there is room for what each request and each
\* fault may write.
LEMMA RoomForEach ==
    ASSUME VolumeTypeOK, Phases, RoomInv, NEW L \in 0 .. MaxBytes, NEW F \in 0 .. MaxFaults,
           Covered(L, F), Pending, NEW r \in Requests
    PROVE  /\ Free >= Ahead(r, L) + FaultsAhead(L, F)
           /\ Ahead(r, L) \in Nat /\ FaultsAhead(L, F) \in Nat
<1> DEFINE a == [q \in Requests |-> Ahead(q, L)]
<1>a. largest \in Nat /\ L \in Nat /\ largest <= L
  BY VolumeConstants DEF VolumeTypeOK, Covered
<1>1. \A q \in Requests : a[q] \in Nat /\ a[q] <= MostAhead(L)
  BY <1>a, AheadIsBounded DEF VolumeTypeOK, Phases, Ahead
<1>2. MostAhead(L) \in Int /\ IsFiniteSet(Requests)
  BY <1>a, VolumeConstants, VolumeAssumption DEF MostAhead
<1>3. AllAhead(L) = SumFunctionOnSet(a, Requests) /\ a[r] = Ahead(r, L)
  BY DEF AllAhead
<1> HIDE DEF a
<1>4. a[r] <= SumFunctionOnSet(a, Requests) /\ SumFunctionOnSet(a, Requests) \in Int
  BY <1>1, <1>2, SumBounds
<1>5. FaultsAhead(L, F) \in Nat
  <2>1. \A b, c \in Nat : b * c \in Nat
    OBVIOUS
  <2>2. F - faults \in Nat /\ L \in Nat
    BY VolumeConstants DEF VolumeTypeOK, Covered
  <2> QED
    BY <2>1, <2>2 DEF FaultsAhead
<1>6. Free >= AllAhead(L) + FaultsAhead(L, F) /\ Free \in Int
  BY SpaceIsANumber DEF RoomInv, Room
<1> QED
  BY <1>1, <1>3, <1>4, <1>5, <1>6

\* What is free is a number again.
LEMMA FreeAfter ==
    ASSUME VolumeTypeOK, VolumeTypeOK', NEW r \in Requests, OthersAsBefore(r)
    PROVE  Free \in Int /\ Free' \in Int
<1>1. /\ HeldBy(r) \in Int /\ HeldBy(r)' \in Int
      /\ {staged, strayUp, strayDown, stranded} \subseteq Int
      /\ {staged', strayUp', strayDown', stranded'} \subseteq Int
  BY DEF VolumeTypeOK, HeldBy
<1>2. Used \in Nat /\ Used' \in Nat
  BY WeightIsANumber DEF Used, SumFunction, VolumeTypeOK
<1>3. Free \in Int
  BY SpaceIsANumber
<1> QED
  BY <1>1, <1>2, <1>3, FreeChange

\* The room stays when a request writes no more than what was ahead of it.
LEMMA RoomKept ==
    ASSUME VolumeTypeOK, Phases, VolumeTypeOK', Phases', Ages,
           NEW r \in Requests, OthersAsBefore(r), RoomInv,
           \A L \in 0 .. MaxBytes, F \in 0 .. MaxFaults :
               Covered(L, F) /\ largest' <= L /\ faults' <= F =>
                   /\ ~overrun'
                   /\ Pending' =>
                         /\ Pending
                         /\ Free' - Ahead(r, L)' - FaultsAhead(L, F)'
                                >= Free - Ahead(r, L) - FaultsAhead(L, F)
    PROVE  RoomInv'
<1> SUFFICES ASSUME NEW L \in 0 .. MaxBytes, NEW F \in 0 .. MaxFaults, Covered(L, F)'
             PROVE  Room(L, F)'
  BY DEF RoomInv
<1>1. Covered(L, F) /\ largest' <= L /\ faults <= F /\ faults' <= F
  BY CoveredBefore DEF Covered
<1>2. ~overrun'
  BY <1>1
<1> SUFFICES ASSUME Pending'
             PROVE  Free' >= AllAhead(L)' + FaultsAhead(L, F)'
  BY <1>2 DEF Room
<1>3. /\ AllAhead(L) \in Int /\ AllAhead(L)' = AllAhead(L) - Ahead(r, L) + Ahead(r, L)'
      /\ Ahead(r, L) \in Nat /\ Ahead(r, L)' \in Nat
  BY <1>1, AheadsChange
<1>4. FaultsAhead(L, F) \in Int /\ FaultsAhead(L, F)' \in Int
  BY <1>1, FaultsAheadChange
<1>5. Free \in Int /\ Free' \in Int
  BY FreeAfter
<1>6. Free' - Ahead(r, L)' - FaultsAhead(L, F)' >= Free - Ahead(r, L) - FaultsAhead(L, F)
      /\ Pending
  BY <1>1
<1>7. Free >= AllAhead(L) + FaultsAhead(L, F)
  BY <1>1, <1>6 DEF RoomInv, Room
<1> QED
  BY <1>3, <1>4, <1>5, <1>6, <1>7

\* A request that has just been checked leaves the margin free, which covers what all
\* others can still write.
LEMMA RoomAdmitted ==
    ASSUME VolumeTypeOK, Phases, VolumeTypeOK', Phases', Ages,
           NEW r \in Requests, OthersAsBefore(r), RoomInv, overrun' = overrun,
           NEW extra \in Nat, blind' \/ Free' >= extra + Margin,
           \A L \in 0 .. MaxBytes : largest' <= L => Ahead(r, L)' <= extra + Stored(L),
           faults' = faults
    PROVE  RoomInv'
<1> SUFFICES ASSUME NEW L \in 0 .. MaxBytes, NEW F \in 0 .. MaxFaults, Covered(L, F)'
             PROVE  Room(L, F)'
  BY DEF RoomInv
<1> DEFINE others == (N - 1) * MostAhead(L)
           copies == F * L
<1>1. Covered(L, F) /\ largest' <= L /\ faults <= F
  BY CoveredBefore DEF Covered
<1>2. ~overrun'
  BY <1>1 DEF RoomInv, Room
<1>3. /\ AllAhead(L) \in Int /\ AllAhead(L)' = AllAhead(L) - Ahead(r, L) + Ahead(r, L)'
      /\ AllAhead(L)' <= Ahead(r, L)' + others
      /\ Ahead(r, L) \in Nat /\ Ahead(r, L)' \in Nat
  BY <1>1, AheadsChange
<1>4. /\ FaultsAhead(L, F) \in Nat /\ FaultsAhead(L, F)' = FaultsAhead(L, F)
      /\ FaultsAhead(L, F) <= copies /\ copies \in Nat
  BY <1>1, FaultsAheadChange
<1>5. others \in Int /\ Margin \in Int /\ Stored(L) \in Int
  <2>1. \A a, b \in Int : a * b \in Int
    OBVIOUS
  <2>2. N - 1 \in Int /\ MostAhead(L) \in Int /\ Stored(L) \in Int
    BY VolumeConstants DEF MostAhead
  <2> QED
    BY <2>1, <2>2, VolumeConstants
<1>6. Margin >= others + Stored(L) + copies
  BY <1>1 DEF Covered, UnseenOf, N, MostAhead
<1>7. Free' \in Int /\ Free' >= extra + Margin /\ Ahead(r, L)' <= extra + Stored(L)
  BY <1>1, FreeAfter DEF Covered
<1> HIDE DEF others, copies
<1>8. Free' >= AllAhead(L)' + FaultsAhead(L, F)'
  BY <1>3, <1>4, <1>5, <1>6, <1>7
<1> QED
  BY <1>2, <1>8 DEF Room

-----------------------------------------------------------------------------
\* Every step keeps the files of each request what its place says they are.
LEMMA VolumeTypeStep ==
    ASSUME VolumeTypeOK, Phases, Free >= 0, [Next]_vars
    PROVE  VolumeTypeOK' /\ Phases' /\ Ages
<1> DEFINE OK == VolumeTypeOK' /\ Phases' /\ Ages
<1>c. /\ MaxBytes \in Nat /\ MaxFaults \in Nat
      /\ \A s \in Nat : Stored(s) \in Nat
      /\ \A s \in Sizes : s \in Nat /\ s > 0 /\ s <= MaxBytes
  <2>1. MaxBytes \in Nat /\ MaxFaults \in Nat
    BY VolumeConstants
  <2>2. \A s \in Sizes : s \in Nat /\ s > 0 /\ s <= MaxBytes
    BY <2>1 DEF Sizes
  <2> QED
    BY <2>1, <2>2, VolumeConstants
<1>f. Free \in Nat
  BY SpaceIsANumber
<1>m. ASSUME NEW a \in Nat, NEW b \in Nat
      PROVE  /\ Min({a, b}) \in Nat /\ Min({a, b}) <= a /\ Min({a, b}) <= b
             /\ a <= b => Min({a, b}) = a
  BY TakenFacts
<1>l. ASSUME NEW r \in Requests, NEW s \in Sizes, Carry(r, s)
      PROVE  /\ size' = [size EXCEPT ![r] = s]
             /\ largest' \in 0 .. MaxBytes /\ largest <= largest' /\ s <= largest'
  <2>1. largest \in Int /\ s \in Int
    BY <1>c DEF VolumeTypeOK
  <2>2. largest' = IF largest >= s THEN largest ELSE s
    BY <2>1, <1>l, MaxOfTwo DEF Carry
  <2> QED
    BY <1>c, <1>l, <2>1, <2>2 DEF Carry, VolumeTypeOK
<1>a. ASSUME NEW i, NEW k, Admit(i, k)
      PROVE  blind' \in BOOLEAN /\ (blind => blind')
  BY <1>a DEF Admit, VolumeTypeOK
<1> USE <1>c, <1>f DEF VolumeTypeOK, Phases, FilesOf, Places, Goto, Gone, request, strays,
                       history, Ages
<1>1. ASSUME NEW r \in Requests, NEW s \in Sizes, Receive(r, s)
      PROVE  OK
  <2> DEFINE taken == Min({s, Free})
  <2>1. taken \in Nat /\ taken <= s /\ (s <= Free => taken = s)
    BY <1>f, <1>m
  <2> HIDE DEF taken
  <2>2. /\ pc[r] = "idle" /\ Carry(r, s) /\ tmp' = [tmp EXCEPT ![r] = taken]
        /\ Free < s => pc' = [pc EXCEPT ![r] = "leaving"]
        /\ ~ (Free < s) => pc' = [pc EXCEPT ![r] = "checking"]
        /\ UNCHANGED <<rows, staged, prior, claim, part, strays, faults, overrun, blind>>
    BY <1>1 DEF Receive, taken
  <2>3. /\ size' = [size EXCEPT ![r] = s]
        /\ largest' \in 0 .. MaxBytes /\ largest <= largest' /\ s <= largest'
    BY <2>2, <1>l
  <2>4. Free < s \/ s <= Free
    OBVIOUS
  <2> QED
    BY <2>1, <2>2, <2>3, <2>4
<1>2. ASSUME NEW r \in Requests, Check(r)
      PROVE  OK
  <2>1. blind' \in BOOLEAN /\ (blind => blind')
    BY <1>2, <1>a DEF Check
  <2> QED
    BY <1>2, <2>1 DEF Check
<1>3. ASSUME NEW r \in Requests, Fail(r)
      PROVE  OK
  BY <1>3 DEF Fail
<1>4. ASSUME NEW r \in Requests, NEW s \in Sizes, Estimate(r, s)
      PROVE  OK
  <2>1. blind' \in BOOLEAN /\ (blind => blind')
    BY <1>4, <1>a DEF Estimate
  <2>2. /\ size' = [size EXCEPT ![r] = s]
        /\ largest' \in 0 .. MaxBytes /\ largest <= largest' /\ s <= largest'
    BY <1>4, <1>l DEF Estimate
  <2> QED
    BY <1>4, <2>1, <2>2 DEF Estimate
<1>5. ASSUME NEW r \in Requests, NEW p \in 0 .. MaxBytes, SaveChunk(r, p)
      PROVE  OK
  <2> DEFINE taken == Min({size[r], Free + p})
  <2>1. taken \in Nat /\ p \in Nat
    <3>1. size[r] \in Nat /\ p \in Nat /\ Free + p \in Nat
      BY <1>f
    <3> QED
      BY <3>1, <1>m
  <2> HIDE DEF taken
  <2>2. staged' = staged - p + taken /\ p <= staged
    BY <1>5 DEF SaveChunk, taken
  <2>3. staged' \in Nat
    BY <2>1, <2>2
  <2> QED
    BY <1>5, <2>1, <2>3 DEF SaveChunk
<1>6. ASSUME NEW r \in Requests, KeepChunk(r)
      PROVE  OK
  <2>1. Min({size[r], staged}) \in Nat /\ Min({size[r], staged}) <= staged
    BY <1>m
  <2>2. staged - Min({size[r], staged}) \in Nat
    BY <2>1
  <2>3. staged' \in Nat
    BY <1>6, <2>2 DEF KeepChunk
  <2> QED
    BY <1>6, <2>3 DEF KeepChunk
<1>7. ASSUME NEW s \in Sizes, ReapStaging(s)
      PROVE  OK
  BY <1>7 DEF ReapStaging
<1>8. ASSUME NEW r \in Requests, NEW s \in Sizes, Finalize(r, s)
      PROVE  OK
  <2>1. blind' \in BOOLEAN /\ (blind => blind')
    BY <1>8, <1>a DEF Finalize
  <2>2. /\ size' = [size EXCEPT ![r] = s]
        /\ largest' \in 0 .. MaxBytes /\ largest <= largest' /\ s <= largest'
    BY <1>8, <1>l DEF Finalize
  <2> QED
    BY <1>8, <2>1, <2>2 DEF Finalize
<1>9. ASSUME NEW r \in Requests, Assemble(r)
      PROVE  OK
  <2> DEFINE taken == Min({size[r], Free})
  <2>1. taken \in Nat /\ taken <= size[r] /\ (size[r] <= Free => taken = size[r])
    BY <1>f, <1>m
  <2> HIDE DEF taken
  <2>2. /\ pc[r] = "assembling" /\ tmp' = [tmp EXCEPT ![r] = taken]
        /\ Free < size[r] => pc' = [pc EXCEPT ![r] = "leaving"]
        /\ ~ (Free < size[r]) => pc' = [pc EXCEPT ![r] = "admitted"]
        /\ overrun' \in BOOLEAN
        /\ UNCHANGED <<rows, staged, size, prior, claim, part, strays, faults, blind, largest>>
    BY <1>9 DEF Assemble, taken
  <2>3. Free < size[r] \/ size[r] <= Free
    OBVIOUS
  <2> QED
    BY <2>1, <2>2, <2>3
<1>10. ASSUME NEW r \in Requests, WritePart(r)
       PROVE  OK
  BY <1>10 DEF WritePart
<1>11. ASSUME NEW r \in Requests, Commit(r)
       PROVE  OK
  <2>1. size[r] \in Nat /\ size[r] > 0 /\ size[r] <= MaxBytes /\ size[r] <= largest
    BY <1>11 DEF Commit
  <2>2. size[r] \in Sizes
    BY <2>1 DEF Sizes
  <2>3. /\ rows' \in [Sizes -> Nat]
        /\ \A s \in Sizes : rows'[s] > 0 => s <= largest
    BY <1>11, <2>1, <2>2 DEF Commit
  <2> QED
    BY <1>11, <2>3 DEF Commit
<1>12. ASSUME NEW r \in Requests, CommitFails(r)
       PROVE  OK
  BY <1>12 DEF CommitFails
<1>13. ASSUME NEW r \in Requests, Leave(r)
       PROVE  OK
  BY <1>13 DEF Leave
<1>14. ASSUME NEW r \in Requests, NEW s \in Sizes, Download(r, s)
       PROVE  OK
  BY <1>14 DEF Download
<1>15. ASSUME NEW r \in Requests, NEW s \in Sizes, DownloadCorrupt(r, s)
       PROVE  OK
  <2> DEFINE taken == Min({s, Free})
  <2>1. taken \in Nat /\ taken <= s /\ (s <= Free => taken = s)
    BY <1>f, <1>m
  <2> HIDE DEF taken
  <2>2. strayDown' = strayDown + taken
    BY <1>15 DEF DownloadCorrupt, taken
  <2> QED
    BY <1>15, <2>1, <2>2 DEF DownloadCorrupt
<1>16. ASSUME NEW s \in Sizes, Delete(s)
       PROVE  OK
  BY <1>16 DEF Delete
<1>17. ASSUME NEW r \in Requests, Kill(r)
       PROVE  OK
  BY <1>17 DEF Kill
<1>18. ASSUME NEW u \in 0 .. strayUp, NEW d \in 0 .. strayDown, SweepTmp(u, d)
       PROVE  OK
  <2>1. strayUp' \in Nat /\ strayDown' \in Nat
    BY <1>18 DEF SweepTmp
  <2> QED
    BY <1>18, <2>1 DEF SweepTmp
<1>19. CASE UNCHANGED vars
  BY <1>19 DEF vars
<1> QED
  BY <1>1, <1>2, <1>3, <1>4, <1>5, <1>6, <1>7, <1>8, <1>9, <1>10, <1>11, <1>12, <1>13,
     <1>14, <1>15, <1>16, <1>17, <1>18, <1>19 DEF Next, Serve

-----------------------------------------------------------------------------
\* The facts that every step starts from.
LEMMA VolumeFacts ==
    ASSUME VolumeInv
    PROVE  /\ VolumeTypeOK /\ Phases /\ QuotaInv /\ RoomInv /\ StrandedIsBounded
           /\ Free \in Int /\ Free >= 0 /\ Used \in Int
           /\ staged \in Int /\ strayUp \in Int /\ strayDown \in Int /\ stranded \in Int
           /\ MaxBytes \in Int /\ MaxBytes >= 0 /\ Overhead \in Int /\ Overhead >= 0
           /\ Margin \in Int /\ Margin >= 0
           /\ \A s \in Int : Stored(s) = s + Overhead
           /\ \A s \in Sizes : s \in Nat /\ s <= MaxBytes
           /\ largest \in Int /\ largest >= 0 /\ largest <= MaxBytes
<1>1. /\ VolumeTypeOK /\ Phases /\ QuotaInv /\ RoomInv /\ StrandedIsBounded
      /\ Free \in Int /\ Free >= 0 /\ Used \in Int
  BY SpaceIsANumber DEF VolumeInv
<1>2. staged \in Int /\ strayUp \in Int /\ strayDown \in Int /\ stranded \in Int
  BY <1>1 DEF VolumeTypeOK
<1>3. /\ MaxBytes \in Int /\ MaxBytes >= 0 /\ Overhead \in Int /\ Overhead >= 0
      /\ Margin \in Int /\ Margin >= 0
  BY VolumeConstants
<1>4. \A s \in Sizes : s \in Nat /\ s <= MaxBytes
  BY <1>3 DEF Sizes
<1>5. largest \in Int /\ largest >= 0 /\ largest <= MaxBytes
  BY <1>1, <1>3 DEF VolumeTypeOK
<1> QED
  BY <1>1, <1>2, <1>3, <1>4, <1>5 DEF Stored

\* A step of one request without a fault that writes what had been admitted: it may take
\* of the quota what it was promised, and of the room what it had ahead.
LEMMA WritingStep ==
    ASSUME VolumeInv, VolumeTypeOK', Phases', Ages, NEW r \in Requests, OthersAsBefore(r),
           UNCHANGED <<stranded, faults>>,
           Used' + Promised(r)' <= Used + Promised(r),
           \A L \in 0 .. MaxBytes, F \in 0 .. MaxFaults :
               Covered(L, F) /\ largest' <= L =>
                   /\ ~overrun'
                   /\ Pending' => Pending /\ Free' - Ahead(r, L)' >= Free - Ahead(r, L),
           Free' >= 0
    PROVE  VolumeInv'
<1> USE VolumeFacts
<1>1. QuotaInv'
  BY QuotaKept
<1>2. RoomInv'
  <2>1. ASSUME NEW L \in 0 .. MaxBytes, NEW F \in 0 .. MaxFaults,
               Covered(L, F), largest' <= L, faults' <= F
        PROVE  /\ ~overrun'
               /\ Pending' => /\ Pending
                              /\ Free' - Ahead(r, L)' - FaultsAhead(L, F)'
                                     >= Free - Ahead(r, L) - FaultsAhead(L, F)
    <3>1. FaultsAhead(L, F)' = FaultsAhead(L, F) /\ FaultsAhead(L, F) \in Int
      BY <2>1, FaultsAheadChange DEF Covered
    <3>2. Free' \in Int /\ Ahead(r, L) \in Int /\ Ahead(r, L)' \in Int
      BY <2>1, FreeAfter, AheadsChange
    <3>3. /\ ~overrun'
          /\ Pending' => Pending /\ Free' - Ahead(r, L)' >= Free - Ahead(r, L)
      BY <2>1
    <3> QED
      BY <3>1, <3>2, <3>3
  <2> QED
    BY <2>1, RoomKept
<1>3. StrandedIsBounded'
  BY DEF StrandedIsBounded
<1> QED
  BY <1>1, <1>2, <1>3 DEF VolumeInv

\* Any other step of one request without a fault.
LEMMA OrdinaryStep ==
    ASSUME VolumeInv, VolumeTypeOK', Phases', Ages, NEW r \in Requests, OthersAsBefore(r),
           UNCHANGED <<stranded, faults, overrun>>,
           Used' + Promised(r)' <= Used + Promised(r), Pending' => Pending,
           \A L \in 0 .. MaxBytes : largest' <= L => Free' - Ahead(r, L)' >= Free - Ahead(r, L),
           Free' >= 0
    PROVE  VolumeInv'
<1>1. \A L \in 0 .. MaxBytes, F \in 0 .. MaxFaults : Covered(L, F) => ~overrun'
  BY VolumeFacts DEF RoomInv, Room
<1> QED
  BY <1>1, WritingStep

\* A step in which a request passes the check, for an archive of size s that takes extra.
LEMMA AdmittedStep ==
    ASSUME VolumeInv, VolumeTypeOK', Phases', Ages, NEW r \in Requests, OthersAsBefore(r),
           UNCHANGED <<stranded, faults, overrun>>, NEW s \in Nat, NEW extra \in Nat,
           Quota > 0 => Used' <= Quota - s, Promised(r)' <= Stored(s),
           Free' = Free, blind' \/ Free >= extra + Margin,
           \A L \in 0 .. MaxBytes : largest' <= L => Ahead(r, L)' <= extra + Stored(L)
    PROVE  VolumeInv'
<1> USE VolumeFacts
<1>1. QuotaInv'
  BY QuotaAdmitted
<1>2. RoomInv'
  <2>1. blind' \/ Free' >= extra + Margin
    OBVIOUS
  <2> QED
    BY <2>1, RoomAdmitted
<1>3. StrandedIsBounded' /\ Free' >= 0
  BY DEF StrandedIsBounded
<1> QED
  BY <1>1, <1>2, <1>3 DEF VolumeInv

\* What _capacity_error() has admitted fits, but for a disk that could not be asked.
LEMMA AdmitFacts ==
    ASSUME NEW i \in Int, NEW k \in Int, Admit(i, k)
    PROVE  (blind' \/ Free >= k + Margin) /\ (Quota > 0 => Used + i <= Quota)
  BY DEF Admit, Fits

\* upload() saves a copy before anything is checked: as much of what its thread has ahead.
LEMMA ReceiveStep ==
    ASSUME VolumeInv, VolumeTypeOK', Phases', Ages, NEW r \in Requests, NEW s \in Sizes,
           Receive(r, s)
    PROVE  VolumeInv'
<1>0. s \in Nat /\ Free \in Nat
  BY VolumeFacts
<1>1. PICK t \in Nat : t = Min({s, Free}) /\ t <= s /\ t <= Free
  BY <1>0, TakenFacts
<1> USE VolumeFacts
<1>2. /\ pc[r] = "idle" /\ claim[r] = 0 /\ tmp[r] = 0 /\ part[r] = 0
      /\ pc'[r] \in {"checking", "leaving"}
      /\ claim'[r] = 0 /\ tmp'[r] = t /\ part'[r] = 0
      /\ UNCHANGED <<rows, staged, strayUp, strayDown, stranded, faults, overrun>>
      /\ OthersAsBefore(r)
  BY <1>1 DEF Receive, Carry, Goto, VolumeTypeOK, Phases, FilesOf, OthersAsBefore, strays
<1>3. Used' = Used
  BY <1>2 DEF Used
<1>4. Free' = Free - t
  <2>1. HeldBy(r) = 0 /\ HeldBy(r)' = t
    BY <1>2 DEF HeldBy
  <2> QED
    BY <1>2, <1>3, <2>1, FreeChange
<1>5. ASSUME NEW L \in 0 .. MaxBytes, largest' <= L
      PROVE  Free' - Ahead(r, L)' >= Free - Ahead(r, L)
  <2>1. t <= L /\ L \in Int
    <3>1. t <= largest' /\ largest' \in Int
      BY <1>1, <1>2 DEF VolumeTypeOK, Phases, FilesOf
    <3> QED
      BY <1>1, <1>5, <3>1
  <2>2. Ahead(r, L) = L /\ Ahead(r, L)' = L - t
    BY <1>1, <1>2, <2>1 DEF Ahead, AheadOf
  <2> QED
    BY <1>1, <1>4, <2>1, <2>2
<1>6. Promised(r) = 0 /\ Promised(r)' = 0
  BY <1>2 DEF Promised, PromiseOf
<1>7. Used' + Promised(r)' <= Used + Promised(r)
  BY <1>3, <1>6
<1>8. Free' >= 0
  BY <1>1, <1>4
<1>9. Pending' => Pending
  BY <1>2 DEF Pending, OthersAsBefore
<1> QED
  BY <1>2, <1>5, <1>7, <1>8, <1>9, OrdinaryStep

\* A request that leaves without having written more: the check refuses, or what follows
\* it fails.
LEMMA RefusedStep ==
    ASSUME VolumeInv, VolumeTypeOK', Phases', Ages, NEW r \in Requests,
           pc[r] \in {"checking", "admitted"}, pc' = [pc EXCEPT ![r] = "leaving"],
           UNCHANGED <<rows, staged, size, claim, tmp, part, strays, faults, history>>
    PROVE  VolumeInv'
<1> USE VolumeFacts
<1>1. /\ pc'[r] = "leaving" /\ OthersAsBefore(r)
      /\ UNCHANGED <<rows, staged, strayUp, strayDown, stranded, faults, overrun, largest>>
  BY DEF VolumeTypeOK, OthersAsBefore, strays, history
<1>2. Used' = Used
  BY <1>1 DEF Used
<1>3. Free' = Free
  BY DEF Free, Used, strays
<1>4. ASSUME NEW L \in 0 .. MaxBytes, largest' <= L
      PROVE  Free' - Ahead(r, L)' >= Free - Ahead(r, L)
  <2>1. /\ claim[r] \in Nat /\ tmp[r] \in Nat /\ size[r] \in Nat /\ tmp[r] = size[r]
        /\ tmp[r] <= largest /\ (pc[r] = "checking" => claim[r] = 0)
    BY DEF VolumeTypeOK, Phases, FilesOf
  <2>2. tmp[r] <= L /\ L \in Int
    BY <1>1, <1>4, <2>1
  <2>3. Ahead(r, L)' <= Ahead(r, L) /\ Ahead(r, L) \in Int /\ Ahead(r, L)' \in Int
    BY <1>1, <2>1, <2>2 DEF Ahead, AheadOf
  <2> QED
    BY <1>3, <2>3
<1>5. Promised(r)' = 0 /\ Promised(r) \in Nat
  BY <1>1, PromisesChange DEF Promised, PromiseOf
<1>6. Used' + Promised(r)' <= Used + Promised(r)
  BY <1>2, <1>5
<1>7. Free' >= 0
  BY <1>3
<1>8. Pending' => Pending
  BY <1>1 DEF Pending, OthersAsBefore
<1> QED
  BY <1>1, <1>4, <1>6, <1>7, <1>8, OrdinaryStep

\* _capacity_error() of upload(): it admits what fits, with the margin to spare.
LEMMA CheckStep ==
    ASSUME VolumeInv, VolumeTypeOK', Phases', Ages, NEW r \in Requests, Check(r)
    PROVE  VolumeInv'
<1> USE VolumeFacts
<1>1. /\ pc'[r] = "admitted" /\ OthersAsBefore(r)
      /\ UNCHANGED <<rows, staged, size, claim, tmp, part, strays, faults, overrun>>
  BY DEF Check, Goto, VolumeTypeOK, OthersAsBefore
<1>2. /\ size[r] \in Nat /\ tmp'[r] = size[r] /\ size'[r] = size[r]
  BY <1>1 DEF Check, VolumeTypeOK, Phases, FilesOf
<1>3. Used' = Used /\ Free' = Free
  BY <1>1 DEF Free, Used, strays
<1>4. /\ blind' \/ Free >= size[r] + Margin
      /\ Quota > 0 => Used + size[r] <= Quota
  BY <1>2, AdmitFacts DEF Check
<1>5. Quota > 0 => Used' <= Quota - size[r]
  BY <1>2, <1>3, <1>4, VolumeConstants
<1>6. Promised(r)' <= Stored(size[r])
  BY <1>1, <1>2 DEF Promised, PromiseOf
<1>7. ASSUME NEW L \in 0 .. MaxBytes
      PROVE  Ahead(r, L)' <= size[r] + Stored(L)
  BY <1>1, <1>2 DEF Ahead, AheadOf
<1> QED
  BY <1>1, <1>2, <1>3, <1>4, <1>5, <1>6, <1>7, AdmittedStep DEF strays

\* The estimate of upload_chunk(): what fits, and no promise, as no row will come of it.
LEMMA EstimateStep ==
    ASSUME VolumeInv, VolumeTypeOK', Phases', Ages, NEW r \in Requests, NEW s \in Sizes,
           Estimate(r, s)
    PROVE  VolumeInv'
<1> USE VolumeFacts
<1>1. /\ pc'[r] = "chunk" /\ size'[r] = s /\ OthersAsBefore(r)
      /\ UNCHANGED <<rows, staged, claim, tmp, part, strays, faults, overrun>>
  BY DEF Estimate, Carry, Goto, VolumeTypeOK, OthersAsBefore
<1>2. Used' = Used /\ Free' = Free
  BY <1>1 DEF Free, Used, strays
<1>3. (blind' \/ Free >= s + Margin) /\ (Quota > 0 => Used + s <= Quota)
  BY AdmitFacts DEF Estimate
<1>4. Quota > 0 => Used' <= Quota - s
  BY <1>2, <1>3, VolumeConstants
<1>5. Promised(r)' <= Stored(s)
  BY <1>1 DEF Promised, PromiseOf
<1>6. ASSUME NEW L \in 0 .. MaxBytes
      PROVE  Ahead(r, L)' <= s + Stored(L)
  BY <1>1 DEF Ahead, AheadOf
<1> QED
  BY <1>1, <1>2, <1>3, <1>4, <1>5, <1>6, AdmittedStep DEF strays

\* upload_finalize() takes up the chunks, and asks for two copies more.
LEMMA FinalizeStep ==
    ASSUME VolumeInv, VolumeTypeOK', Phases', Ages, NEW r \in Requests, NEW s \in Sizes,
           Finalize(r, s)
    PROVE  VolumeInv'
<1> USE VolumeFacts
<1>1. /\ pc[r] = "idle" /\ claim[r] = 0 /\ tmp[r] = 0 /\ part[r] = 0
      /\ pc'[r] = "assembling" /\ size'[r] = s /\ claim'[r] = s /\ tmp'[r] = 0 /\ part'[r] = 0
      /\ OthersAsBefore(r) /\ staged' = staged - s
      /\ UNCHANGED <<rows, strayUp, strayDown, stranded, faults, overrun>>
  BY DEF Finalize, Carry, Goto, VolumeTypeOK, Phases, FilesOf, OthersAsBefore, strays
<1>2. Used' = Used
  BY <1>1 DEF Used
<1>3. Free' = Free
  <2>1. HeldBy(r) = 0 /\ HeldBy(r)' = s
    BY <1>1 DEF HeldBy
  <2> QED
    BY <1>1, <1>2, <2>1, FreeChange
<1>4. (blind' \/ Free >= 2 * s + Margin) /\ (Quota > 0 => Used + s <= Quota)
  <2>1. s \in Int /\ 2 * s \in Int
    OBVIOUS
  <2> QED
    BY <2>1, AdmitFacts DEF Finalize
<1>5. Quota > 0 => Used' <= Quota - s
  BY <1>2, <1>4, VolumeConstants
<1>6. Promised(r)' <= Stored(s)
  BY <1>1 DEF Promised, PromiseOf
<1>7. ASSUME NEW L \in 0 .. MaxBytes
      PROVE  Ahead(r, L)' <= 2 * s + Stored(L)
  BY <1>1 DEF Ahead, AheadOf
<1>8. 2 * s \in Nat
  OBVIOUS
<1> QED
  BY <1>1, <1>3, <1>4, <1>5, <1>6, <1>7, <1>8, AdmittedStep

\* A fault leaves behind no more than an archive, and of the copies that were set aside
\* for the faults to come it takes one.
LEMMA FaultyStep ==
    ASSUME VolumeInv, VolumeTypeOK', Phases', Ages, NEW r \in Requests, OthersAsBefore(r),
           UNCHANGED <<rows, overrun>>, faults' = faults + 1,
           NEW d \in Nat, stranded' = stranded + d, d <= Stored(MaxBytes),
           Promised(r)' <= Promised(r), Pending' => Pending,
           \A L \in 0 .. MaxBytes :
               largest' <= L => Free' - Ahead(r, L)' + L >= Free - Ahead(r, L),
           Free' >= 0
    PROVE  VolumeInv'
<1> USE VolumeFacts
<1>1. QuotaInv'
  <2>1. Used' = Used
    BY DEF Used
  <2>2. Promised(r) \in Nat /\ Promised(r)' \in Nat
    BY PromisesChange
  <2>3. Used' + Promised(r)' <= Used + Promised(r)
    BY <2>1, <2>2
  <2> QED
    BY <2>3, QuotaKept
<1>2. RoomInv'
  <2>1. ASSUME NEW L \in 0 .. MaxBytes, NEW F \in 0 .. MaxFaults,
               Covered(L, F), largest' <= L, faults' <= F
        PROVE  /\ ~overrun'
               /\ Pending' => /\ Pending
                              /\ Free' - Ahead(r, L)' - FaultsAhead(L, F)'
                                     >= Free - Ahead(r, L) - FaultsAhead(L, F)
    <3>1. FaultsAhead(L, F)' = FaultsAhead(L, F) - L /\ FaultsAhead(L, F) \in Int
      BY <2>1, FaultsAheadChange DEF Covered
    <3>2. /\ Free' \in Int /\ Ahead(r, L) \in Int /\ Ahead(r, L)' \in Int
          /\ L \in Int
      BY <2>1, FreeAfter, AheadsChange
    <3>3. Free' - Ahead(r, L)' + L >= Free - Ahead(r, L)
      BY <2>1
    <3>4. ~overrun'
      BY <2>1 DEF RoomInv, Room
    <3> QED
      BY <3>1, <3>2, <3>3, <3>4
  <2> QED
    BY <2>1, RoomKept
<1>3. StrandedIsBounded'
  <2>1. faults \in Int /\ stranded <= faults * Stored(MaxBytes) /\ Stored(MaxBytes) \in Int
    BY VolumeConstants DEF StrandedIsBounded, VolumeTypeOK
  <2>2. \A a, b \in Int : (a + 1) * b = a * b + b /\ a * b \in Int
    OBVIOUS
  <2>3. (faults + 1) * Stored(MaxBytes) = faults * Stored(MaxBytes) + Stored(MaxBytes)
    BY <2>1, <2>2
  <2>4. stranded + d <= (faults + 1) * Stored(MaxBytes)
    BY <2>1, <2>2, <2>3
  <2> QED
    BY <2>4 DEF StrandedIsBounded
<1> QED
  BY <1>1, <1>2, <1>3 DEF VolumeInv

\* upload_chunk() writes what it asked room for; it does not find the volume full when the
\* margin covers the unseen.
LEMMA SaveChunkStep ==
    ASSUME VolumeInv, VolumeTypeOK', Phases', Ages, NEW r \in Requests,
           NEW p \in 0 .. MaxBytes, SaveChunk(r, p)
    PROVE  VolumeInv'
<1> USE VolumeFacts
<1>1. PICK s \in Nat : s = size[r]
  BY DEF VolumeTypeOK
<1>2. PICK t \in Nat : /\ t = Min({size[r], Free + p}) /\ t <= Free + p
                       /\ (s <= Free + p => t = s) /\ p \in Int /\ p >= 0
  <2>1. p \in Int /\ p >= 0
    OBVIOUS
  <2>2. s \in Int /\ s >= 0 /\ Free + p \in Int /\ Free + p >= 0
    BY <1>1, <2>1
  <2>3. Min({s, Free + p}) = IF s <= Free + p THEN s ELSE Free + p
    BY <2>2, MinOfTwo
  <2>4. /\ Min({s, Free + p}) \in Nat /\ Min({s, Free + p}) <= Free + p
        /\ s <= Free + p => Min({s, Free + p}) = s
    <3> HIDE VolumeFacts
    <3> QED
      BY <2>2, <2>3
  <2> QED
    BY <1>1, <2>1, <2>4
<1>3. /\ pc[r] = "chunk" /\ staged' = staged - p + t
      /\ Free + p < s => pc'[r] = "idle" /\ size'[r] = 0
      /\ s <= Free + p => pc'[r] = "saved" /\ size'[r] = s /\ overrun' = overrun
      /\ UNCHANGED <<rows, claim, tmp, part, strayUp, strayDown, stranded, faults>>
      /\ OthersAsBefore(r)
  BY <1>1, <1>2 DEF SaveChunk, Goto, VolumeTypeOK, OthersAsBefore, strays
<1>4. Used' = Used /\ Promised(r) = 0 /\ Promised(r)' = 0
  BY <1>1, <1>2, <1>3 DEF Used, Promised, PromiseOf
<1>5. Used' + Promised(r)' <= Used + Promised(r)
  BY <1>4
<1>6. Free' = Free + p - t
  <2>1. HeldBy(r)' = HeldBy(r) /\ HeldBy(r) \in Int
    BY <1>3 DEF HeldBy, VolumeTypeOK
  <2> QED
    BY <1>2, <1>3, <1>4, <2>1, FreeChange
<1>7. Pending
  BY <1>3 DEF Pending
<1>8. ASSUME NEW L \in 0 .. MaxBytes, NEW F \in 0 .. MaxFaults, Covered(L, F)
      PROVE  ~overrun' /\ Free' - Ahead(r, L)' >= Free - Ahead(r, L)
  <2>1. Ahead(r, L) = s + L
    BY <1>1, <1>3 DEF Ahead, AheadOf
  <2>2. s <= Free + p
    BY <1>1, <1>2, <1>7, <1>8, <2>1, RoomForEach
  <2>3. Ahead(r, L)' = L /\ t = s
    BY <1>2, <1>3, <2>2 DEF Ahead, AheadOf
  <2>4. ~overrun'
    BY <1>3, <1>8, <2>2 DEF RoomInv, Room
  <2> QED
    BY <1>1, <1>2, <1>6, <2>1, <2>3, <2>4
<1>9. Free' >= 0
  BY <1>2, <1>6
<1> QED
  BY <1>3, <1>5, <1>7, <1>8, <1>9, WritingStep

\* The check after the write keeps the chunk or removes it.
LEMMA KeepChunkStep ==
    ASSUME VolumeInv, VolumeTypeOK', Phases', Ages, NEW r \in Requests, KeepChunk(r)
    PROVE  VolumeInv'
<1>1. PICK t \in Nat : staged' = staged - t
  <2>1. PICK a \in Nat, b \in Nat : a = size[r] /\ b = staged
    BY VolumeFacts DEF VolumeTypeOK
  <2>2. Min({a, b}) \in Nat
    BY TakenFacts
  <2>3. staged' = staged - 0 \/ staged' = staged - Min({size[r], staged})
    BY VolumeFacts DEF KeepChunk
  <2> QED
    BY <2>1, <2>2, <2>3, VolumeFacts
<1> USE VolumeFacts
<1>2. /\ pc[r] = "saved" /\ pc'[r] = "idle"
      /\ UNCHANGED <<rows, claim, tmp, part, strayUp, strayDown, stranded, faults, overrun>>
      /\ OthersAsBefore(r)
  BY DEF KeepChunk, Goto, VolumeTypeOK, OthersAsBefore, strays, history
<1>3. Used' = Used /\ Promised(r) = 0 /\ Promised(r)' = 0
  BY <1>2 DEF Used, Promised, PromiseOf
<1>4. Used' + Promised(r)' <= Used + Promised(r)
  BY <1>3
<1>5. Free' = Free + t
  <2>1. HeldBy(r)' = HeldBy(r) /\ HeldBy(r) \in Int
    BY <1>2 DEF HeldBy, VolumeTypeOK
  <2> QED
    BY <1>1, <1>2, <1>3, <2>1, FreeChange
<1>6. ASSUME NEW L \in 0 .. MaxBytes, largest' <= L
      PROVE  Free' - Ahead(r, L)' >= Free - Ahead(r, L)
  <2>1. Ahead(r, L) = L /\ Ahead(r, L)' = L
    BY <1>2 DEF Ahead, AheadOf
  <2> QED
    BY <1>1, <1>5, <2>1
<1>7. Free' >= 0
  BY <1>1, <1>5
<1>8. Pending' => Pending
  BY <1>2 DEF Pending, OthersAsBefore
<1> QED
  BY <1>2, <1>4, <1>6, <1>7, <1>8, OrdinaryStep

\* The chunks of a finalize become a copy in tmp.
LEMMA AssembleStep ==
    ASSUME VolumeInv, VolumeTypeOK', Phases', Ages, NEW r \in Requests, Assemble(r)
    PROVE  VolumeInv'
<1> USE VolumeFacts
<1>1. PICK s \in Nat : s = size[r] /\ s <= largest
  BY DEF VolumeTypeOK, Phases, FilesOf
<1>2. PICK t \in Nat : t = Min({size[r], Free}) /\ t <= Free /\ (s <= Free => t = s)
  BY <1>1, MinOfTwo
<1>3. /\ pc[r] = "assembling" /\ tmp[r] = 0 /\ tmp'[r] = t /\ size'[r] = s
      /\ Free < s => pc'[r] = "leaving"
      /\ s <= Free => pc'[r] = "admitted" /\ overrun' = overrun
      /\ UNCHANGED <<rows, staged, claim, part, strayUp, strayDown, stranded, faults>>
      /\ OthersAsBefore(r)
  BY <1>1, <1>2 DEF Assemble, Goto, VolumeTypeOK, Phases, FilesOf, OthersAsBefore, strays
<1>4. /\ Used' = Used /\ Promised(r) = Stored(s)
      /\ Promised(r)' = 0 \/ Promised(r)' = Stored(s)
  BY <1>1, <1>3 DEF Used, Promised, PromiseOf
<1>5. Used' + Promised(r)' <= Used + Promised(r)
  BY <1>1, <1>4
<1>6. Free' = Free - t
  <2>1. PICK c \in Nat : c = claim[r] + part[r]
    BY DEF VolumeTypeOK
  <2>2. HeldBy(r) = c /\ HeldBy(r)' = c + t
    BY <1>3, <2>1 DEF HeldBy, VolumeTypeOK
  <2> QED
    BY <1>3, <1>4, <2>2, FreeChange
<1>7. Pending
  BY <1>3 DEF Pending
<1>8. ASSUME NEW L \in 0 .. MaxBytes, NEW F \in 0 .. MaxFaults, Covered(L, F)
      PROVE  ~overrun' /\ Free' - Ahead(r, L)' >= Free - Ahead(r, L)
  <2>1. Ahead(r, L) = L + Stored(s) /\ L \in Int /\ Stored(s) \in Nat /\ s <= L
    BY <1>1, <1>3, <1>8 DEF Ahead, AheadOf, Covered
  <2>2. s <= Free
    BY <1>1, <1>7, <1>8, <2>1, RoomForEach
  <2>3. Ahead(r, L)' = L - s + Stored(s) /\ t = s
    BY <1>1, <1>2, <1>3, <2>2 DEF Ahead, AheadOf
  <2>4. ~overrun'
    BY <1>3, <1>8, <2>2 DEF RoomInv, Room
  <2> QED
    BY <1>1, <1>6, <2>1, <2>3, <2>4
<1>9. Free' >= 0
  BY <1>2, <1>6
<1> QED
  BY <1>3, <1>5, <1>7, <1>8, <1>9, WritingStep

\* ingest() writes the archive that is to be a row.
LEMMA WritePartStep ==
    ASSUME VolumeInv, VolumeTypeOK', Phases', Ages, NEW r \in Requests, WritePart(r)
    PROVE  VolumeInv'
<1> USE VolumeFacts
<1>1. PICK s \in Nat : s = size[r] /\ s <= largest
  BY DEF VolumeTypeOK, Phases, FilesOf
<1>2. PICK w \in Nat : w = IF Free < Stored(s) THEN 0 ELSE Stored(s)
  BY <1>1
<1>3. /\ pc[r] = "admitted" /\ tmp[r] = s /\ tmp'[r] = s /\ part[r] = 0 /\ part'[r] = w
      /\ size'[r] = s
      /\ Free < Stored(s) => pc'[r] = "leaving"
      /\ ~(Free < Stored(s)) => pc'[r] = "placed" /\ overrun' = overrun
      /\ UNCHANGED <<rows, staged, claim, strayUp, strayDown, stranded, faults>>
      /\ OthersAsBefore(r)
  BY <1>1, <1>2 DEF WritePart, Goto, VolumeTypeOK, Phases, FilesOf, OthersAsBefore, strays
<1>4. /\ Used' = Used /\ Promised(r) = Stored(s)
      /\ Promised(r)' = 0 \/ Promised(r)' = Stored(s)
  BY <1>1, <1>3 DEF Used, Promised, PromiseOf
<1>5. Used' + Promised(r)' <= Used + Promised(r)
  BY <1>1, <1>4
<1>6. Free' = Free - w /\ w <= Free
  <2>1. HeldBy(r)' - HeldBy(r) = w /\ HeldBy(r) \in Int /\ HeldBy(r)' \in Int
    BY <1>3 DEF HeldBy, VolumeTypeOK
  <2>2. w <= Free
    BY <1>1, <1>2
  <2> QED
    BY <1>2, <1>3, <1>4, <2>1, <2>2, FreeChange
<1>7. Pending
  BY <1>3 DEF Pending
<1>8. ASSUME NEW L \in 0 .. MaxBytes, NEW F \in 0 .. MaxFaults, Covered(L, F)
      PROVE  ~overrun' /\ Free' - Ahead(r, L)' >= Free - Ahead(r, L)
  <2>1. Ahead(r, L) = L - s + Stored(s) /\ L \in Int /\ Stored(s) \in Nat /\ s <= L
    BY <1>1, <1>3, <1>8 DEF Ahead, AheadOf, Covered
  <2>2. ~(Free < Stored(s))
    BY <1>1, <1>7, <1>8, <2>1, RoomForEach
  <2>3. Ahead(r, L)' = L - s /\ w = Stored(s)
    BY <1>1, <1>2, <1>3, <2>2 DEF Ahead, AheadOf
  <2>4. ~overrun'
    BY <1>3, <1>8, <2>2 DEF RoomInv, Room
  <2> QED
    BY <1>1, <1>6, <2>1, <2>3, <2>4
<1>9. Free' >= 0
  BY <1>6
<1> QED
  BY <1>3, <1>5, <1>7, <1>8, <1>9, WritingStep

\* A row takes up what its archive was promised, and what its .part file held.
LEMMA CommitStep ==
    ASSUME VolumeInv, VolumeTypeOK', Phases', Ages, NEW r \in Requests, Commit(r)
    PROVE  VolumeInv'
<1> USE VolumeFacts
<1>1. PICK s \in Sizes : s = size[r]
  <2>1. size[r] \in Nat /\ size[r] > 0 /\ size[r] <= MaxBytes
    BY DEF Commit, VolumeTypeOK, Phases, FilesOf
  <2> QED
    BY <2>1 DEF Sizes
<1>2. PICK c \in Nat : c = claim[r]
  BY DEF VolumeTypeOK
<1>3. /\ pc[r] = "placed" /\ pc'[r] = "leaving" /\ tmp[r] = s
      /\ part[r] = Stored(s) /\ part'[r] = 0
      /\ rows' = [rows EXCEPT ![s] = @ + 1]
      /\ UNCHANGED <<staged, size, claim, tmp, strayUp, strayDown, stranded, faults, overrun>>
      /\ UNCHANGED largest
      /\ OthersAsBefore(r)
  BY <1>1 DEF Commit, history, Goto, VolumeTypeOK, Phases, FilesOf, OthersAsBefore, strays
<1>4. PICK k \in Nat : k = Stored(s)
  BY <1>1
<1>5. Used' = Used + k
  <2>1. rows' = [rows EXCEPT ![s] = @ + 1] /\ 1 \in {-1, 1}
    BY <1>3
  <2>2. Used' = Used + 1 * Stored(s)
    BY <2>1, UsedChange
  <2> QED
    BY <1>4, <2>2
<1>6. Promised(r) = k /\ Promised(r)' = 0
  BY <1>1, <1>3, <1>4 DEF Promised, PromiseOf
<1>7. Used' + Promised(r)' <= Used + Promised(r)
  BY <1>5, <1>6
<1>8. Free' = Free
  <2>1. HeldBy(r) = c + s + k /\ HeldBy(r)' = c + s
    BY <1>2, <1>3, <1>4 DEF HeldBy
  <2> QED
    BY <1>3, <1>5, <2>1, FreeChange
<1>9. ASSUME NEW L \in 0 .. MaxBytes, largest' <= L
      PROVE  Free' - Ahead(r, L)' >= Free - Ahead(r, L)
  <2>1. s <= L /\ L \in Int
    <3>1. s <= largest
      BY <1>1 DEF Phases, FilesOf
    <3> QED
      BY <1>3, <1>9, <3>1
  <2>2. Ahead(r, L) = L - s
    BY <1>3 DEF Ahead, AheadOf
  <2>3. Ahead(r, L)' = IF c + s <= L THEN L - c - s ELSE 0
    BY <1>2, <1>3 DEF Ahead, AheadOf
  <2> QED
    BY <1>8, <2>1, <2>2, <2>3
<1>10. Pending' => Pending
  BY <1>3 DEF Pending, OthersAsBefore
<1>11. Free' >= 0
  BY <1>8
<1> QED
  BY <1>3, <1>7, <1>9, <1>10, <1>11, OrdinaryStep

\* What a request leaves behind when its commit fails is the archive that it has placed.
LEMMA CommitFailsStep ==
    ASSUME VolumeInv, VolumeTypeOK', Phases', Ages, NEW r \in Requests, CommitFails(r)
    PROVE  VolumeInv'
<1> USE VolumeFacts
<1>1. PICK s \in Nat, c \in Nat : s = size[r] /\ s <= largest /\ c = claim[r]
  BY DEF VolumeTypeOK, Phases, FilesOf
<1>2. PICK k \in Nat : k = Stored(s) /\ k <= Stored(MaxBytes)
  BY <1>1
<1>3. /\ pc[r] = "placed" /\ pc'[r] = "leaving" /\ tmp[r] = s
      /\ part[r] = k /\ part'[r] = 0
      /\ faults' = faults + 1 /\ stranded' = stranded + k
      /\ UNCHANGED <<rows, staged, size, claim, tmp, strayUp, strayDown, overrun, largest>>
      /\ OthersAsBefore(r)
  BY <1>1, <1>2 DEF CommitFails, history, Goto, VolumeTypeOK, Phases, FilesOf, OthersAsBefore
<1>4. Used' = Used
  BY <1>3 DEF Used
<1>5. Free' = Free
  <2>1. HeldBy(r) = c + s + k /\ HeldBy(r)' = c + s
    BY <1>1, <1>3 DEF HeldBy
  <2> QED
    BY <1>3, <1>4, <2>1, FreeChange
<1>6. ASSUME NEW L \in 0 .. MaxBytes, largest' <= L
      PROVE  Free' - Ahead(r, L)' + L >= Free - Ahead(r, L)
  <2>0. s <= L /\ L \in Int
    BY <1>1, <1>3, <1>6
  <2>1. Ahead(r, L) = L - s
    BY <1>3 DEF Ahead, AheadOf
  <2>2. Ahead(r, L)' = IF c + s <= L THEN L - c - s ELSE 0
    BY <1>1, <1>3 DEF Ahead, AheadOf
  <2> QED
    BY <1>1, <1>5, <2>0, <2>1, <2>2
<1>7. Promised(r)' <= Promised(r)
  BY <1>1, <1>3 DEF Promised, PromiseOf
<1>8. Pending' => Pending
  BY <1>3 DEF Pending, OthersAsBefore
<1>9. Free' >= 0
  BY <1>5
<1> QED
  BY <1>2, <1>3, <1>6, <1>7, <1>8, <1>9, FaultyStep

\* The `finally' gives back what the request holds, and its thread is free for the next.
LEMMA LeaveStep ==
    ASSUME VolumeInv, VolumeTypeOK', Phases', Ages, NEW r \in Requests, Leave(r)
    PROVE  VolumeInv'
<1> USE VolumeFacts
<1>1. PICK c \in Nat, t \in Nat : c = claim[r] /\ t = tmp[r]
  BY DEF VolumeTypeOK
<1>2. /\ pc[r] = "leaving" /\ pc'[r] = "idle" /\ part[r] = 0
      /\ claim'[r] = 0 /\ tmp'[r] = 0 /\ part'[r] = 0
      /\ UNCHANGED <<rows, staged, strayUp, strayDown, stranded, faults, overrun>>
      /\ OthersAsBefore(r)
  BY DEF Leave, history, Gone, Goto, VolumeTypeOK, Phases, FilesOf, OthersAsBefore, strays
<1>3. Used' = Used /\ Promised(r) = 0 /\ Promised(r)' = 0
  BY <1>2 DEF Used, Promised, PromiseOf
<1>4. Used' + Promised(r)' <= Used + Promised(r)
  BY <1>3
<1>5. Free' = Free + c + t
  <2>1. HeldBy(r) = c + t /\ HeldBy(r)' = 0
    BY <1>1, <1>2 DEF HeldBy
  <2> QED
    BY <1>2, <1>3, <2>1, FreeChange
<1>6. ASSUME NEW L \in 0 .. MaxBytes, largest' <= L
      PROVE  Free' - Ahead(r, L)' >= Free - Ahead(r, L)
  <2>1. Ahead(r, L) = IF c + t <= L THEN L - c - t ELSE 0
    BY <1>1, <1>2 DEF Ahead, AheadOf
  <2>2. Ahead(r, L)' = L
    BY <1>2 DEF Ahead, AheadOf
  <2> QED
    BY <1>5, <2>1, <2>2
<1>7. Pending' => Pending
  BY <1>2 DEF Pending, OthersAsBefore
<1>8. Free' >= 0
  BY <1>5
<1> QED
  BY <1>2, <1>4, <1>6, <1>7, <1>8, OrdinaryStep

\* A download asks for no room: its copy is what its thread has ahead.
LEMMA DownloadStep ==
    ASSUME VolumeInv, VolumeTypeOK', Phases', Ages, NEW r \in Requests, NEW s \in Sizes,
           Download(r, s)
    PROVE  VolumeInv'
<1> USE VolumeFacts
<1>1. /\ pc[r] = "idle" /\ claim[r] = 0 /\ tmp[r] = 0 /\ part[r] = 0
      /\ s <= largest /\ Promised(r) = 0
  BY DEF Download, VolumeTypeOK, Phases, FilesOf, Promised, PromiseOf
<1>2. UNCHANGED <<rows, staged, claim, part, strayUp, stranded, faults, overrun, largest>>
  BY DEF Download, history
<1>3. Used' = Used
  BY <1>2 DEF Used
<1>5. CASE Free < s
  <2>1. /\ strayDown' = strayDown + Free /\ UNCHANGED <<pc, size, tmp>>
        /\ OthersAsBefore(r)
    BY <1>2, <1>5 DEF Download, OthersAsBefore
  <2>2. Used' + Promised(r)' <= Used + Promised(r)
    BY <1>1, <1>3, <2>1 DEF Promised, PromiseOf
  <2>3. Free' = 0
    <3>1. HeldBy(r) = 0 /\ HeldBy(r)' = 0
      BY <1>1, <1>2, <2>1 DEF HeldBy
    <3> QED
      BY <1>2, <1>3, <2>1, <3>1, FreeChange
  <2>4. ASSUME NEW L \in 0 .. MaxBytes, NEW F \in 0 .. MaxFaults, Covered(L, F)
        PROVE  ~overrun' /\ ~Pending'
    <3>1. Pending' => Pending
      BY <2>1 DEF Pending
    <3>2. Ahead(r, L) = L /\ L \in Int
      BY <1>1 DEF Ahead, AheadOf
    <3>3. ~(L <= Free)
      BY <1>1, <1>5, <2>4 DEF Covered
    <3>4. ~overrun'
      BY <1>2, <2>4 DEF RoomInv, Room
    <3> QED
      BY <2>4, <3>1, <3>2, <3>3, <3>4, RoomForEach
  <2>5. Free' >= 0
    BY <2>3
  <2> QED
    BY <1>2, <2>1, <2>2, <2>4, <2>5, WritingStep
<1>6. CASE ~(Free < s)
  <2>1. /\ strayDown' = strayDown /\ OthersAsBefore(r)
        /\ pc'[r] = "leaving" /\ tmp'[r] = s /\ claim'[r] = 0 /\ part'[r] = 0
    BY <1>1, <1>2, <1>6 DEF Download, Goto, VolumeTypeOK, OthersAsBefore
  <2>2. Promised(r)' = 0
    BY <2>1 DEF Promised, PromiseOf
  <2>3. Used' + Promised(r)' <= Used + Promised(r)
    BY <1>1, <1>3, <2>2
  <2>4. Free' = Free - s
    <3>1. HeldBy(r) = 0 /\ HeldBy(r)' = s
      BY <1>1, <2>1 DEF HeldBy
    <3> QED
      BY <1>2, <1>3, <2>1, <3>1, FreeChange
  <2>5. ASSUME NEW L \in 0 .. MaxBytes, largest' <= L
        PROVE  Free' - Ahead(r, L)' >= Free - Ahead(r, L)
    <3>1. s <= L /\ L \in Int
      BY <1>1, <1>2, <2>5
    <3>2. Ahead(r, L) = L /\ Ahead(r, L)' = L - s
      BY <1>1, <2>1, <3>1 DEF Ahead, AheadOf
    <3> QED
      BY <2>4, <3>1, <3>2
  <2>6. Free' >= 0
    BY <1>6, <2>4
  <2>7. Pending' => Pending
    BY <2>1 DEF Pending, OthersAsBefore
  <2> QED
    BY <1>2, <2>1, <2>3, <2>5, <2>6, <2>7, OrdinaryStep
<1> QED
  BY <1>5, <1>6

\* A copy that does not decrypt stays, and is one of those that faults leave behind.
LEMMA DownloadCorruptStep ==
    ASSUME VolumeInv, VolumeTypeOK', Phases', Ages, NEW r \in Requests, NEW s \in Sizes,
           DownloadCorrupt(r, s)
    PROVE  VolumeInv'
<1>0. s \in Nat /\ Free \in Nat
  BY VolumeFacts
<1>1. PICK t \in Nat : t = Min({s, Free}) /\ t <= s /\ t <= Free
  BY <1>0, TakenFacts
<1> USE VolumeFacts
<1>2. /\ UNCHANGED <<rows, staged, pc, size, claim, tmp, part, strayUp, stranded, overrun>>
      /\ UNCHANGED largest /\ s <= largest
      /\ faults' = faults + 1 /\ strayDown' = strayDown + t
      /\ stranded' = stranded + 0 /\ OthersAsBefore(r)
  BY <1>1 DEF DownloadCorrupt, request, OthersAsBefore, history, Phases
<1>3. Used' = Used
  BY <1>2 DEF Used
<1>4. Free' = Free - t
  <2>1. PICK h \in Int : h = HeldBy(r)
    BY DEF HeldBy, VolumeTypeOK
  <2>2. HeldBy(r)' = h
    BY <1>2, <2>1 DEF HeldBy
  <2> QED
    BY <1>2, <1>3, <2>1, <2>2, FreeChange
<1>5. ASSUME NEW L \in 0 .. MaxBytes, largest' <= L
      PROVE  Free' - Ahead(r, L)' + L >= Free - Ahead(r, L)
  <2>1. PICK a \in Nat : a = Ahead(r, L) /\ a = Ahead(r, L)'
    <3>1. Ahead(r, L)' = Ahead(r, L)
      BY <1>2 DEF Ahead
    <3> QED
      BY <1>2, <1>5, <3>1, AheadsChange
  <2>2. t <= L /\ L \in Int
    BY <1>1, <1>2, <1>5
  <2> QED
    BY <1>1, <1>4, <2>1, <2>2
<1>6. Free' >= 0
  BY <1>1, <1>4
<1>7. Promised(r)' <= Promised(r)
  <2>1. Promised(r) \in Nat /\ Promised(r)' = Promised(r)
    BY <1>2, PromisesChange DEF Promised
  <2> QED
    BY <2>1
<1>8. (Pending' => Pending) /\ 0 <= Stored(MaxBytes)
  BY <1>2 DEF Pending
<1> QED
  BY <1>2, <1>5, <1>6, <1>7, <1>8, FaultyStep

\* A kill leaves the files of its request behind, and its thread is free for the next.
LEMMA KillStep ==
    ASSUME VolumeInv, VolumeTypeOK', Phases', Ages, NEW r \in Requests, Kill(r)
    PROVE  VolumeInv'
<1> USE VolumeFacts
<1>1. PICK c \in Nat, t \in Nat, k \in Nat :
          c = claim[r] /\ t = tmp[r] /\ k = part[r] /\ k <= Stored(MaxBytes)
  <2>1. part[r] = 0 \/ (part[r] = Stored(size[r]) /\ size[r] \in Nat /\ size[r] <= largest)
    BY DEF VolumeTypeOK, Phases, FilesOf
  <2>2. part[r] \in Nat /\ part[r] <= Stored(MaxBytes)
    BY <2>1
  <2> QED
    BY <2>2 DEF VolumeTypeOK
<1>2. /\ pc'[r] = "idle" /\ claim'[r] = 0 /\ tmp'[r] = 0 /\ part'[r] = 0
      /\ faults' = faults + 1 /\ stranded' = stranded + k
      /\ staged' = staged + c /\ strayUp' = strayUp + t
      /\ UNCHANGED <<rows, strayDown, overrun>>
      /\ OthersAsBefore(r)
  BY <1>1 DEF Kill, history, Gone, Goto, VolumeTypeOK, OthersAsBefore
<1>3. Used' = Used
  BY <1>2 DEF Used
<1>4. Free' = Free
  <2>1. HeldBy(r) = c + t + k /\ HeldBy(r)' = 0
    BY <1>1, <1>2 DEF HeldBy
  <2> QED
    BY <1>2, <1>3, <2>1, FreeChange
<1>5. ASSUME NEW L \in 0 .. MaxBytes, largest' <= L
      PROVE  Free' - Ahead(r, L)' + L >= Free - Ahead(r, L)
  <2>1. Ahead(r, L)' = L
    BY <1>2 DEF Ahead, AheadOf
  <2>2. Ahead(r, L) \in Nat
    BY <1>2, <1>5, AheadsChange
  <2> QED
    BY <1>4, <2>1, <2>2
<1>6. Promised(r)' <= Promised(r)
  <2>1. Promised(r) \in Nat /\ Promised(r)' = 0
    BY <1>2, PromisesChange DEF Promised, PromiseOf
  <2> QED
    BY <2>1
<1>7. (Pending' => Pending) /\ Free' >= 0
  BY <1>2, <1>4 DEF Pending, OthersAsBefore
<1> QED
  BY <1>1, <1>2, <1>5, <1>6, <1>7, FaultyStep

\* A step outside of all requests that gives room back, and takes nothing of the quota.
LEMMA ReliefStep ==
    ASSUME VolumeInv, VolumeTypeOK', Phases', Ages,
           UNCHANGED <<request, stranded, faults, history>>,
           Used' <= Used, Free' >= Free
    PROVE  VolumeInv'
<1> USE VolumeFacts
<1>1. PICK r \in Requests : TRUE
  BY VolumeAssumption
<1>2. OthersAsBefore(r) /\ HeldBy(r)' = HeldBy(r)
  BY DEF OthersAsBefore, HeldBy, request
<1>3. PICK p \in Nat : p = Promised(r) /\ p = Promised(r)'
  <2>1. Promised(r)' = Promised(r)
    BY DEF Promised, request
  <2> QED
    BY <1>2, <2>1, PromisesChange
<1>4. Used' + Promised(r)' <= Used + Promised(r)
  <2>1. PICK u \in Nat : u = Used'
    BY WeightIsANumber DEF Used, SumFunction, VolumeTypeOK
  <2>2. u <= Used
    BY <2>1
  <2>3. u + p <= Used + p
    BY <2>2
  <2> QED
    BY <1>3, <2>1, <2>3, Zenon
<1>5. ASSUME NEW L \in 0 .. MaxBytes, largest' <= L
      PROVE  Free' - Ahead(r, L)' >= Free - Ahead(r, L)
  <2>1. PICK a \in Nat : a = Ahead(r, L) /\ a = Ahead(r, L)'
    <3>1. Ahead(r, L)' = Ahead(r, L)
      BY DEF Ahead, request
    <3> QED
      BY <1>2, <1>5, <3>1, AheadsChange
  <2>2. PICK f \in Int : f = Free'
    BY <1>2, FreeAfter
  <2>3. f >= Free
    BY <2>2
  <2>4. f - a >= Free - a
    BY <2>3
  <2> QED
    BY <2>1, <2>2, <2>4
<1>6. (Pending' => Pending) /\ Free' >= 0 /\ overrun' = overrun
  BY <1>2, FreeAfter DEF Pending, request, history
<1> QED
  BY <1>2, <1>4, <1>5, <1>6, OrdinaryStep

\* The reaper removes chunks, the sweep copies, and a deletion an archive.
LEMMA OutsideStep ==
    ASSUME VolumeInv, VolumeTypeOK', Phases', Ages,
           \/ \E s \in Sizes : ReapStaging(s) \/ Delete(s)
           \/ \E u \in 0 .. strayUp, d \in 0 .. strayDown : SweepTmp(u, d)
           \/ UNCHANGED vars
    PROVE  VolumeInv'
<1> USE VolumeFacts
<1>1. PICK r \in Requests : TRUE
  BY VolumeAssumption
<1>2. UNCHANGED request => OthersAsBefore(r)
  BY DEF OthersAsBefore, request
<1>3. PICK h \in Int : h = HeldBy(r)
  BY DEF HeldBy, VolumeTypeOK
<1>4. UNCHANGED request => HeldBy(r)' = h
  BY <1>3 DEF HeldBy, request
<1>5. ASSUME NEW s \in Sizes, ReapStaging(s)
      PROVE  VolumeInv'
  <2>1. /\ UNCHANGED <<rows, request, strayUp, strayDown, stranded, faults, history>>
        /\ staged' = staged - s
    BY <1>5 DEF ReapStaging, strays
  <2>2. Used' = Used
    BY <2>1 DEF Used
  <2>3. Free' = Free + s
    BY <1>2, <1>3, <1>4, <2>1, <2>2, FreeChange
  <2>4. Free' >= Free /\ Used' <= Used
    BY <2>2, <2>3
  <2> QED
    BY <2>1, <2>4, ReliefStep
<1>6. ASSUME NEW s \in Sizes, Delete(s)
      PROVE  VolumeInv'
  <2>1. UNCHANGED <<staged, request, strayUp, strayDown, stranded, faults, history>>
    BY <1>6 DEF Delete, strays
  <2>2. rows' = [rows EXCEPT ![s] = @ + (-1)]
    <3>1. rows[s] - 1 = rows[s] + (-1)
      BY DEF VolumeTypeOK
    <3> QED
      BY <1>6, <3>1 DEF Delete, VolumeTypeOK
  <2>3. Used' = Used + (-1) * Stored(s)
    <3>1. (-1) \in {-1, 1}
      OBVIOUS
    <3> QED
      BY <2>2, <3>1, UsedChange
  <2>4. PICK k \in Nat : k = Stored(s)
    OBVIOUS
  <2>5. Used' = Used - k
    BY <2>3, <2>4
  <2>6. Free' = Free + k
    BY <1>2, <1>3, <1>4, <2>1, <2>5, FreeChange
  <2>7. Free' >= Free /\ Used' <= Used
    BY <2>5, <2>6
  <2> QED
    BY <2>1, <2>7, ReliefStep
<1>7. ASSUME NEW u \in 0 .. strayUp, NEW d \in 0 .. strayDown, SweepTmp(u, d)
      PROVE  VolumeInv'
  <2>1. /\ UNCHANGED <<rows, staged, request, stranded, faults, history>>
        /\ strayUp' = strayUp - u /\ strayDown' = strayDown - d
    BY <1>7 DEF SweepTmp
  <2>2. Used' = Used
    BY <2>1 DEF Used
  <2>3. u \in Int /\ u >= 0 /\ d \in Int /\ d >= 0
    OBVIOUS
  <2>4. Free' = Free + u + d
    BY <1>2, <1>3, <1>4, <2>1, <2>2, <2>3, FreeChange
  <2>5. Free' >= Free /\ Used' <= Used
    BY <2>2, <2>3, <2>4
  <2> QED
    BY <2>1, <2>5, ReliefStep
<1>8. CASE UNCHANGED vars
  <2>1. UNCHANGED <<rows, staged, request, strays, stranded, faults, history>>
    BY <1>8 DEF vars, strays
  <2>2. Used' = Used
    BY <2>1 DEF Used
  <2>3. Free' = Free
    BY <2>1 DEF Free, Used, request, strays
  <2>4. Free' >= Free /\ Used' <= Used
    BY <2>2, <2>3
  <2> QED
    BY <2>1, <2>4, ReliefStep
<1> QED
  BY <1>5, <1>6, <1>7, <1>8

\* At the start the volume is empty, and nothing has been promised.
LEMMA VolumeInit == Init => VolumeInv
<1> SUFFICES ASSUME Init
             PROVE  VolumeInv
  OBVIOUS
<1>1. {Disk, Margin, Quota, MaxBytes, Overhead, MaxFaults} \subseteq Nat
  BY VolumeConstants
<1>2. VolumeTypeOK /\ Phases
  <2>1. 0 \in 0 .. MaxFaults /\ 0 <= MaxBytes
    BY <1>1
  <2>2. VolumeTypeOK
    <3>1. 0 \in 0 .. MaxBytes
      BY <1>1
    <3> QED
      BY <2>1, <3>1 DEF Init, VolumeTypeOK, Places
  <2>3. Phases
    BY <2>1 DEF Init, Phases, FilesOf
  <2> QED
    BY <2>2, <2>3
<1>3. Used = 0
  <2>1. IsFiniteSet(Sizes) /\ 0 \in Int /\ Cardinality(Sizes) \in Nat
    BY VolumeConstants, FS_CardinalityType
  <2>2. SumFunctionOnSet([s \in Sizes |-> 0], Sizes) = Cardinality(Sizes) * 0
    BY <2>1, SumOfEqual
  <2>3. [s \in Sizes |-> rows[s] * Stored(s)] = [s \in Sizes |-> 0]
    <3>1. \A a \in Nat : 0 * a = 0
      OBVIOUS
    <3> QED
      BY <3>1, VolumeConstants DEF Init
  <2>4. Used = SumFunctionOnSet([s \in Sizes |-> rows[s] * Stored(s)], Sizes)
    BY DEF Used, SumFunction
  <2> QED
    BY <2>1, <2>2, <2>3, <2>4
<1>4. SumFunctionOnSet([r \in Requests |-> 0], Requests) = 0
  <2>1. IsFiniteSet(Requests) /\ 0 \in Int /\ Cardinality(Requests) \in Nat
    BY VolumeAssumption, FS_CardinalityType
  <2>2. SumFunctionOnSet([r \in Requests |-> 0], Requests) = Cardinality(Requests) * 0
    BY <2>1, SumOfEqual
  <2> QED
    BY <2>1, <2>2
<1>5. Free >= 0
  <2>1. [r \in Requests |-> claim[r] + tmp[r] + part[r]] = [r \in Requests |-> 0]
    BY DEF Init
  <2>2. SumFunction([r \in Requests |-> claim[r] + tmp[r] + part[r]]) = 0
    BY <1>4, <2>1 DEF SumFunction
  <2> QED
    BY <1>1, <1>3, <2>2 DEF Free, Init
<1>6. QuotaInv
  <2>1. [r \in Requests |-> Promised(r)] = [r \in Requests |-> 0]
    BY DEF Promised, PromiseOf, Init
  <2>2. (N - 1) * Stored(MaxBytes) \in Nat
    <3>1. \A a, b \in Nat : a * b \in Nat
      OBVIOUS
    <3>2. N - 1 \in Nat /\ Stored(MaxBytes) \in Nat
      BY <1>1, VolumeConstants
    <3> QED
      BY <3>1, <3>2
  <2> QED
    BY <1>1, <1>3, <1>4, <2>1, <2>2 DEF QuotaInv
<1>7. RoomInv
  BY DEF RoomInv, Room, Pending, Init
<1>8. StrandedIsBounded
  <2>1. \A a \in Int : 0 * a = 0
    OBVIOUS
  <2>2. Stored(MaxBytes) \in Int
    BY <1>1, VolumeConstants
  <2> QED
    BY <2>1, <2>2 DEF StrandedIsBounded, Init
<1> QED
  BY <1>2, <1>5, <1>6, <1>7, <1>8 DEF VolumeInv

\* The invariant of the volume: the files of every request are those of its place, the
\* quota covers what has been promised, and the room what may still be written.
LEMMA VolumeInvariant == Spec => []VolumeInv
<1>1. VolumeInv /\ [Next]_vars => VolumeInv'
  <2> SUFFICES ASSUME VolumeInv, [Next]_vars
               PROVE  VolumeInv'
    OBVIOUS
  <2>1. VolumeTypeOK' /\ Phases' /\ Ages
    BY VolumeTypeStep DEF VolumeInv
  <2>2. ASSUME NEW r \in Requests, Serve(r)
        PROVE  VolumeInv'
    <3>1. CASE Check(r)
      BY <2>1, <3>1, CheckStep
    <3>2. CASE Fail(r)
      BY <2>1, <3>2, RefusedStep DEF Fail, Goto
    <3>3. ASSUME NEW p \in 0 .. MaxBytes, SaveChunk(r, p)
          PROVE  VolumeInv'
      BY <2>1, <3>3, SaveChunkStep
    <3>4. CASE KeepChunk(r)
      BY <2>1, <3>4, KeepChunkStep
    <3>5. CASE Assemble(r)
      BY <2>1, <3>5, AssembleStep
    <3>6. CASE WritePart(r)
      BY <2>1, <3>6, WritePartStep
    <3>7. CASE Commit(r)
      BY <2>1, <3>7, CommitStep
    <3>8. CASE CommitFails(r)
      BY <2>1, <3>8, CommitFailsStep
    <3>9. CASE Leave(r)
      BY <2>1, <3>9, LeaveStep
    <3> QED
      BY <2>2, <3>1, <3>2, <3>3, <3>4, <3>5, <3>6, <3>7, <3>8, <3>9 DEF Serve
  <2>3. ASSUME NEW r \in Requests, NEW s \in Sizes,
               \/ Receive(r, s) \/ Estimate(r, s) \/ Finalize(r, s)
               \/ Download(r, s) \/ DownloadCorrupt(r, s)
        PROVE  VolumeInv'
    BY <2>1, <2>3, ReceiveStep, EstimateStep, FinalizeStep, DownloadStep, DownloadCorruptStep
  <2>4. ASSUME NEW r \in Requests, Kill(r)
        PROVE  VolumeInv'
    BY <2>1, <2>4, KillStep
  <2>5. ASSUME \/ \E s \in Sizes : ReapStaging(s) \/ Delete(s)
               \/ \E u \in 0 .. strayUp, d \in 0 .. strayDown : SweepTmp(u, d)
               \/ UNCHANGED vars
        PROVE  VolumeInv'
    BY <2>1, <2>5, OutsideStep
  <2> QED
    BY <2>2, <2>3, <2>4, <2>5 DEF Next
<1> QED
  BY <1>1, VolumeInit, PTL DEF Spec

\* Whatever requests pass the quota check together, the archives of a site never exceed
\* its quota by more than one each but the first, and what encryption at rest adds.
THEOREM QuotaIsNearlyKept == Spec => []QuotaOvershootIsBounded
<1>1. VolumeInv => QuotaOvershootIsBounded
  <2> SUFFICES ASSUME VolumeInv
               PROVE  QuotaOvershootIsBounded
    OBVIOUS
  <2> SUFFICES ASSUME Quota > 0
               PROVE  Used <= Quota + (N - 1) * Stored(MaxBytes) + Overhead
    BY DEF QuotaOvershootIsBounded, N
  <2> DEFINE p == [r \in Requests |-> Promised(r)]
  <2>1. PICK r \in Requests : TRUE
    BY VolumeAssumption
  <2>2. \A q \in Requests : p[q] \in Nat /\ p[q] <= Stored(MaxBytes)
    <3>1. MaxBytes \in Nat /\ largest \in Nat /\ largest <= MaxBytes
      BY VolumeFacts
    <3> QED
      BY <3>1, VolumeFacts, AheadIsBounded DEF VolumeTypeOK, Phases, Promised
  <2>3. Stored(MaxBytes) \in Int /\ IsFiniteSet(Requests)
    BY VolumeConstants, VolumeAssumption
  <2>4. Used + SumFunctionOnSet(p, Requests) <= Quota + (N - 1) * Stored(MaxBytes) + Overhead
    BY VolumeFacts DEF QuotaInv
  <2> HIDE DEF p
  <2>5. SumFunctionOnSet(p, Requests) \in Int /\ p[r] <= SumFunctionOnSet(p, Requests)
    BY <2>2, <2>3, SumBounds
  <2>6. (N - 1) * Stored(MaxBytes) \in Int
    <3>1. \A a, b \in Int : a * b \in Int
      OBVIOUS
    <3>2. N - 1 \in Int
      BY VolumeConstants
    <3> QED
      BY <2>3, <3>1, <3>2
  <2>7. Used <= Quota + (N - 1) * Stored(MaxBytes) + Overhead
    <3>1. Used \in Int /\ Quota \in Int /\ Overhead \in Int /\ p[r] \in Nat
      BY <2>2, VolumeFacts, VolumeConstants
    <3> QED
      BY <2>4, <2>5, <2>6, <3>1
  <2> QED
    BY <2>7
<1> QED
  BY <1>1, VolumeInvariant, PTL

\* As long as the margin covers what the check cannot see of the archives that have been
\* sent, and the disk could be asked, no write that has been admitted finds the volume full.
THEOREM AdmittedWritesFit == Spec => []AdmittedFits
<1>1. VolumeInv => AdmittedFits
  <2> SUFFICES ASSUME VolumeInv, Margin >= Unseen, ~blind
               PROVE  ~overrun
    BY DEF AdmittedFits
  <2>1. largest \in 0 .. MaxBytes /\ faults \in 0 .. MaxFaults
    BY VolumeFacts DEF VolumeTypeOK
  <2>2. Covered(largest, faults)
    BY <2>1, VolumeConstants DEF Covered, Unseen
  <2> QED
    BY <2>1, <2>2, VolumeFacts DEF RoomInv, Room
<1> QED
  BY <1>1, VolumeInvariant, PTL

\* What nothing ever removes is one archive for each fault.
THEOREM StrandedStaysBounded == Spec => []StrandedIsBounded
<1>1. VolumeInv => StrandedIsBounded
  BY DEF VolumeInv
<1> QED
  BY <1>1, VolumeInvariant, PTL
=============================================================================
