--------------------------- MODULE StateBootstrap ---------------------------
(***************************************************************************)
(* How a start of V2.2 turns the directory it finds into a database that   *)
(* serves: recoverManagedStateTemp, prepareStateStoreInitialization and    *)
(* commitState22Sentinel of state-runtime-v22.mjs, and initialize in the   *)
(* worker.  A start may be killed between any two of its file operations,  *)
(* and as long as state.json is a schema 21 state, V2.1 may run again and  *)
(* write it.                                                               *)
(*                                                                         *)
(* A state of V2.1 is known by its version: version n + 1 contains what    *)
(* version n contained.  The bootstrap state of an empty directory is 0.   *)
(***************************************************************************)
EXTENDS Naturals, FiniteSets

CONSTANTS
    Found,       \* the state.json a first start may find
    Leftover,    \* the state.json.tmp it may find
    MaxStarts,   \* bound: starts of V2.2
    MaxEdits     \* bound: writes of V2.1 between them

State(v) == [kind |-> "state", version |-> v]
Sentinel == [kind |-> "sentinel", version |-> 0]
Torn == [kind |-> "torn", version |-> 0]
NoFile == [kind |-> "none", version |-> 0]

NoDatabase == [kind |-> "none", complete |-> FALSE, source |-> 0]
Database(complete, v) == [kind |-> "database", complete |-> complete, source |-> v]

ASSUME BootstrapAssumption ==
    /\ Found \subseteq {NoFile, State(1)}
    /\ Leftover \subseteq {NoFile, Torn, State(2)}
    /\ MaxStarts \in Nat /\ MaxEdits \in Nat

VARIABLES
    stateFile,   \* state.json
    tempFile,    \* state.json.tmp
    database,    \* state-v22.sqlite
    candidates,  \* state-v22.sqlite.migrating-*.tmp
    backups,     \* versions kept under migrations/
    latest,      \* the last version that V2.1 made its state.json
    pc,          \* the next step of the start, or off
    plan,        \* what the start has decided to do
    refusal,     \* why the last start gave up
    starts, edits

vars == <<stateFile, tempFile, database, candidates, backups, latest, pc, plan,
          refusal, starts, edits>>
files == <<stateFile, tempFile, database, candidates, backups, latest>>

Steps == {"off", "temp", "prepare", "recover", "create", "fill", "install", "open",
          "backup", "sentinel", "sync", "rename", "ready"}

Versions == 0..(MaxEdits + 2)
Exists(f) == f.kind # "none"

Init ==
    /\ stateFile \in Found
    /\ tempFile \in Leftover
    /\ database = NoDatabase
    /\ candidates = {}
    /\ backups = {}
    /\ latest = stateFile.version
    /\ pc = "off"
    /\ plan = "none"
    /\ refusal = "none"
    /\ starts = 0
    /\ edits = 0

Start ==
    /\ pc = "off"
    /\ starts < MaxStarts
    /\ starts' = starts + 1
    /\ pc' = "temp"
    /\ refusal' = "none"
    /\ UNCHANGED <<files, plan, edits>>

\* the error leaves ensureRuntime and ends the process
Refuse(why) ==
    /\ refusal' = why
    /\ pc' = "off"
    /\ plan' = "none"

-----------------------------------------------------------------------------
(* recoverManagedStateTemp                                                 *)

\* a temporary file that may be dropped: it repeats state.json, or the
\* file it was to replace is still the authority
Disposable ==
    \/ tempFile = stateFile
    \/ stateFile.kind = "sentinel" /\ Exists(database)
    \/ stateFile.kind = "state" /\ tempFile.kind \in {"torn", "state"}

RecoverTemp ==
    /\ pc = "temp"
    /\ \/ /\ ~Exists(tempFile)
          /\ pc' = "prepare"
          /\ UNCHANGED <<stateFile, tempFile, latest, plan, refusal>>
       \/ /\ Exists(tempFile) /\ ~Exists(stateFile)
          /\ tempFile.kind = "torn"
          /\ Refuse("invalid")
          /\ UNCHANGED <<stateFile, tempFile, latest>>
       \/ /\ Exists(tempFile) /\ ~Exists(stateFile)
          /\ tempFile.kind # "torn"
          /\ stateFile' = tempFile
          /\ tempFile' = NoFile
          /\ latest' = IF tempFile.kind = "state" THEN tempFile.version ELSE latest
          /\ pc' = "prepare"
          /\ UNCHANGED <<plan, refusal>>
       \/ /\ Exists(tempFile) /\ Exists(stateFile) /\ Disposable
          /\ tempFile' = NoFile
          /\ pc' = "prepare"
          /\ UNCHANGED <<stateFile, latest, plan, refusal>>
       \/ /\ Exists(tempFile) /\ Exists(stateFile) /\ ~Disposable
          /\ Refuse("ambiguous")
          /\ UNCHANGED <<stateFile, tempFile, latest>>
    /\ UNCHANGED <<database, candidates, backups, starts, edits>>

-----------------------------------------------------------------------------
(* prepareStateStoreInitialization, and initialize in the worker           *)

\* (a sentinel without its database is refused; no start leaves one)
Prepare ==
    /\ pc = "prepare"
    /\ pc' = "recover"
    /\ plan' = IF Exists(stateFile)
               THEN IF stateFile.kind = "sentinel" THEN "serve" ELSE "migrate"
               ELSE IF Exists(database) THEN "recovered" ELSE "bootstrap"
    /\ UNCHANGED <<files, refusal, starts, edits>>

\* mutant: an unfinished database is as good as a finished one
RecoverableAny ==
    {c \in candidates : plan = "migrate" => c.source = stateFile.version}

\* complete, and imported from this state.json if there is one
Recoverable ==
    {c \in candidates : c.complete /\ (plan = "migrate" => c.source = stateFile.version)}

\* mutant: the database that is there already is not looked at
UsableAny == TRUE

Usable == ~Exists(database)

RecoverDatabase ==
    /\ pc = "recover"
    /\ \/ /\ Usable
          /\ Recoverable # {}
          /\ \E c \in Recoverable : database' = c
          /\ candidates' = {}
          /\ pc' = "open"
       \/ /\ ~Usable
          /\ candidates' = {}
          /\ pc' = "open"
          /\ UNCHANGED database
       \/ /\ Usable
          /\ Recoverable = {}
          /\ candidates' = {}
          /\ pc' = IF plan \in {"migrate", "bootstrap"} THEN "create" ELSE "open"
          /\ UNCHANGED database
    /\ UNCHANGED <<stateFile, tempFile, backups, latest, plan, refusal, starts, edits>>

\* mutant: the file is created without the schema of a database
ImportedUnset == [kind |-> "file", complete |-> FALSE, source |-> stateFile.version]

Imported == Database(FALSE, stateFile.version)

CreateTemp ==
    /\ pc = "create"
    /\ candidates' = candidates \cup {Imported}
    /\ pc' = "fill"
    /\ UNCHANGED <<stateFile, tempFile, database, backups, latest, plan, refusal, starts, edits>>

\* COMMIT of the whole import
FillTemp ==
    /\ pc = "fill"
    /\ candidates' = (candidates \ {Imported}) \cup {[Imported EXCEPT !.complete = TRUE]}
    /\ pc' = "install"
    /\ UNCHANGED <<stateFile, tempFile, database, backups, latest, plan, refusal, starts, edits>>

\* ROLLBACK, a failed verification or a full disk
CreateFails ==
    /\ pc \in {"fill", "install"}
    /\ candidates' = {}
    /\ Refuse("io")
    /\ UNCHANGED <<stateFile, tempFile, database, backups, latest, starts, edits>>

InstallTemp ==
    /\ pc = "install"
    /\ database' = [Imported EXCEPT !.complete = TRUE]
    /\ candidates' = {}
    /\ pc' = "open"
    /\ UNCHANGED <<stateFile, tempFile, backups, latest, plan, refusal, starts, edits>>

\* mutant: the hash of the imported state is not compared
SourceAny == TRUE

\* source_state_hash of the database against that of state.json
SourceMatches == plan = "migrate" => database.source = stateFile.version

Open ==
    /\ pc = "open"
    /\ \/ /\ ~SourceMatches
          /\ Refuse("mismatch")
       \/ /\ SourceMatches
          /\ pc' = CASE plan = "serve" -> "ready"
                     [] plan = "migrate" -> "backup"
                     [] OTHER -> "sentinel"
          /\ UNCHANGED <<plan, refusal>>
    /\ UNCHANGED <<files, starts, edits>>

-----------------------------------------------------------------------------
(* commitState22Sentinel                                                   *)

\* the bytes that prepareStateStoreInitialization read
Kept == {stateFile.version}

Backup ==
    /\ pc = "backup"
    /\ backups' = backups \cup Kept
    /\ pc' = "sentinel"
    /\ UNCHANGED <<stateFile, tempFile, database, candidates, latest, plan, refusal, starts, edits>>

\* the temporary file is opened ...
OpenSentinel ==
    /\ pc = "sentinel"
    /\ tempFile' = Torn
    /\ pc' = "sync"
    /\ UNCHANGED <<stateFile, database, candidates, backups, latest, plan, refusal, starts, edits>>

\* ... written and synced ...
SyncSentinel ==
    /\ pc = "sync"
    /\ tempFile' = Sentinel
    /\ pc' = "rename"
    /\ UNCHANGED <<stateFile, database, candidates, backups, latest, plan, refusal, starts, edits>>

\* ... and takes the place of state.json, unless its renames keep failing
RenameSentinel ==
    /\ pc = "rename"
    /\ \/ /\ stateFile' = Sentinel
          /\ tempFile' = NoFile
          /\ pc' = "ready"
          /\ UNCHANGED <<plan, refusal>>
       \/ /\ Refuse("io")
          /\ UNCHANGED <<stateFile, tempFile>>
    /\ UNCHANGED <<database, candidates, backups, latest, starts, edits>>

-----------------------------------------------------------------------------
\* the process is killed, or stops serving
Crash ==
    /\ pc # "off"
    /\ pc' = "off"
    /\ plan' = "none"
    /\ UNCHANGED <<files, refusal, starts, edits>>

\* V2.1 writes state.json by way of the same temporary file; it refuses a
\* sentinel
V21Runs ==
    /\ pc = "off"
    /\ stateFile.kind = "state"
    /\ edits < MaxEdits
    /\ edits' = edits + 1
    /\ \/ /\ stateFile' = State(latest + 1)
          /\ latest' = latest + 1
          /\ tempFile' = NoFile
       \/ /\ tempFile' \in {Torn, State(latest + 1)}
          /\ UNCHANGED <<stateFile, latest>>
    /\ UNCHANGED <<database, candidates, backups, pc, plan, refusal, starts>>

Next ==
    \/ Start \/ RecoverTemp \/ Prepare \/ RecoverDatabase
    \/ CreateTemp \/ FillTemp \/ CreateFails \/ InstallTemp \/ Open
    \/ Backup \/ OpenSentinel \/ SyncSentinel \/ RenameSentinel
    \/ Crash \/ V21Runs

Spec == Init /\ [][Next]_vars

-----------------------------------------------------------------------------
TypeOK ==
    /\ stateFile \in [kind : {"none", "state", "sentinel"}, version : Versions]
    /\ tempFile \in [kind : {"none", "state", "sentinel", "torn"}, version : Versions]
    /\ {database} \cup candidates \subseteq
           [kind : {"none", "database"}, complete : BOOLEAN, source : Versions]
    /\ backups \subseteq Versions /\ latest \in Versions
    /\ pc \in Steps
    /\ plan \in {"none", "serve", "migrate", "recovered", "bootstrap"}
    /\ refusal \in {"none", "invalid", "ambiguous", "mismatch", "io"}

(* state.json, the last copy of what V2.1 knew, gives way to the sentinel  *)
(* only when the database was imported from exactly that state and its     *)
(* bytes are kept in the backup: wherever starts were killed and whatever  *)
(* V2.1 wrote between them.                                                *)
SourceKept ==
    stateFile.kind = "sentinel" =>
        /\ Exists(database) /\ database.source = latest
        /\ latest > 0 => latest \in backups

(* A database that serves was imported completely: none of the half-built  *)
(* ones that killed starts leave behind is ever installed.                 *)
CompleteDatabase == Exists(database) => database.complete

(* No start replaces the database another one installed                    *)
(* (recoverManagedMigrationDatabase, createDatabaseAtomically).            *)
DatabaseKept == [][Exists(database) => database' = database]_vars
=============================================================================
