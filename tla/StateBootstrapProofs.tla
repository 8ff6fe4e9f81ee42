------------------------ MODULE StateBootstrapProofs ------------------------
(***************************************************************************)
(* Proofs about a start of V2.2: what StateBootstrap says of state.json,   *)
(* its database and its backups holds for any number of starts, of kills   *)
(* and of writes of V2.1 between them.                                     *)
(***************************************************************************)
EXTENDS StateBootstrap, TLAPS

-----------------------------------------------------------------------------
(* The inductive invariant.                                                *)

(* The steps of a start after its decision, and those with a database.     *)
Begun == {"recover", "create", "fill", "install", "open", "backup", "sentinel", "sync",
          "rename"}
Opened == {"open", "backup", "sentinel", "sync", "rename", "ready"}

(* What state.json may give way to: a database of the last state that V2.1 *)
(* wrote, and a backup of it.                                              *)
Secured ==
    /\ Exists(database) /\ database.source = latest
    /\ latest > 0 => latest \in backups

(* The temporary file: a sentinel is written over a secured state only,    *)
(* and a state beside nothing is older than any database.                  *)
TempOK ==
    /\ tempFile.kind = "sentinel" => tempFile.version = 0 /\ Secured
    /\ tempFile.kind = "state" /\ ~Exists(stateFile) => ~Exists(database) /\ pc \in {"off", "temp"}
    /\ tempFile.kind = "state" => tempFile.version > 0

(* state.json is what V2.1 wrote last, or a sentinel over a secured state. *)
FilesOK ==
    /\ stateFile.kind = "state" => stateFile.version = latest /\ latest > 0
    /\ stateFile.kind = "none" => stateFile.version = 0 /\ latest = 0
    /\ stateFile.kind = "sentinel" => Secured
    /\ TempOK

(* Databases are complete, and those of an empty directory are of no       *)
(* state.                                                                  *)
DatabasesOK ==
    /\ CompleteDatabase
    /\ Exists(database) \/ database = NoDatabase
    /\ \A c \in candidates : c.kind = "database"
    /\ stateFile.kind = "none" =>
           /\ Exists(database) => database.source = 0
           /\ \A c \in candidates : c.source = 0

(* How far a start has come tells what it has found and secured.           *)
StepOK ==
    /\ pc \in Begun =>
           /\ plan = "serve" <=> stateFile.kind = "sentinel"
           /\ plan = "migrate" <=> stateFile.kind = "state"
           /\ plan = "recovered" => Exists(database)
           /\ plan # "none"
    /\ pc \in {"create", "fill", "install"} => plan \in {"migrate", "bootstrap"} /\ ~Exists(database)
    /\ pc \in Opened => Exists(database)
    /\ pc \in {"backup", "sentinel", "sync", "rename"} => database.source = latest
    /\ pc \in {"sentinel", "sync", "rename"} => Secured

(* Versions grow with the writes of V2.1, and no faster.                   *)
CountersOK ==
    /\ edits \in 0..MaxEdits
    /\ latest <= edits + 2
    /\ tempFile.version <= edits + 2

Inv == TypeOK /\ FilesOK /\ DatabasesOK /\ StepOK /\ CountersOK

(* The set of databases in TypeOK, by name.                                *)
DatabaseFile == [kind : {"none", "database"}, complete : BOOLEAN, source : Versions]

-----------------------------------------------------------------------------
(* Each step keeps the invariant.                                          *)

(* The database that is imported from state.json, unfinished and finished, *)
(* is one.                                                                 *)
LEMMA ImportedTypes ==
    ASSUME TypeOK
    PROVE  Imported \in DatabaseFile /\ [Imported EXCEPT !.complete = TRUE] \in DatabaseFile
    <1>1. stateFile.version \in Versions
        BY DEF TypeOK
    <1>2. Imported \in DatabaseFile
        BY <1>1 DEF Imported, Database, DatabaseFile
    <1>3. [Imported EXCEPT !.complete = TRUE] \in DatabaseFile
        BY <1>1 DEF Imported, Database, DatabaseFile
    <1> QED BY <1>2, <1>3

(* A start begins: nothing has changed yet.                                *)
LEMMA StartKeeps ==
    ASSUME Inv, Start
    PROVE  Inv'
    <1>1. TypeOK'
        BY DEF Inv, Start, files, Steps, TypeOK
    <1>2. FilesOK'
        BY DEF Inv, Start, FilesOK, TempOK, Secured, files
    <1>3. DatabasesOK'
        BY DEF Inv, Start, DatabasesOK, CompleteDatabase, files
    <1>4. StepOK'
        BY DEF Start, StepOK, Begun, Opened
    <1>5. CountersOK'
        BY DEF Inv, Start, CountersOK, files
    <1> QED BY <1>1, <1>2, <1>3, <1>4, <1>5 DEF Inv

(* recoverManagedStateTemp: the temporary file becomes state.json only     *)
(* when there is none, and then it is the last that V2.1 wrote.            *)
LEMMA RecoverTempKeeps ==
    ASSUME Inv, RecoverTemp
    PROVE  Inv'
    <1>1. TypeOK'
        BY BootstrapAssumption DEF Inv, RecoverTemp, NoFile, Steps, Versions, TypeOK, Refuse
    <1>2. FilesOK'
        BY DEF Inv, RecoverTemp, FilesOK, TempOK, Secured, NoFile, Exists
    <1>3. DatabasesOK'
        BY DEF Inv, RecoverTemp, DatabasesOK, CompleteDatabase, Exists
    <1>4. StepOK'
        BY DEF RecoverTemp, StepOK, Begun, Opened, Refuse
    <1>5. CountersOK'
        BY DEF Inv, RecoverTemp, CountersOK, NoFile
    <1> QED BY <1>1, <1>2, <1>3, <1>4, <1>5 DEF Inv

(* prepareStateStoreInitialization: the plan follows what was found.       *)
LEMMA PrepareKeeps ==
    ASSUME Inv, Prepare
    PROVE  Inv'
    <1>1. TypeOK'
        BY DEF Inv, Prepare, files, Steps, TypeOK
    <1>2. FilesOK'
        BY DEF Inv, Prepare, FilesOK, TempOK, Secured, files
    <1>3. DatabasesOK'
        BY DEF Inv, Prepare, DatabasesOK, CompleteDatabase, files
    <1>4. StepOK'
        BY DEF Inv, Prepare, StepOK, Opened, Exists, files, TypeOK
    <1>5. CountersOK'
        BY DEF Inv, Prepare, CountersOK, files
    <1> QED BY <1>1, <1>2, <1>3, <1>4, <1>5 DEF Inv

(* recoverManagedMigrationDatabase: only a complete candidate, imported    *)
(* from this state.json, becomes the database.                             *)
LEMMA RecoverDatabaseKeeps ==
    ASSUME Inv, RecoverDatabase
    PROVE  Inv'
    <1>1. TypeOK'
        BY DEF Inv, RecoverDatabase, Steps, TypeOK, Recoverable
    <1>2. FilesOK'
        BY DEF Inv, RecoverDatabase, FilesOK, TempOK, Secured, Usable
    <1>3. DatabasesOK'
        BY DEF Inv, RecoverDatabase, DatabasesOK, CompleteDatabase, Exists, Recoverable
    <1>4. StepOK'
        BY DEF Inv, RecoverDatabase, StepOK, Begun, Opened, DatabasesOK, FilesOK, Secured,
            Exists, TypeOK, Usable, Recoverable
    <1>5. CountersOK'
        BY DEF Inv, RecoverDatabase, CountersOK
    <1> QED BY <1>1, <1>2, <1>3, <1>4, <1>5 DEF Inv

(* createDatabaseAtomically: a new candidate is imported from what         *)
(* state.json says.                                                        *)
LEMMA CreateTempKeeps ==
    ASSUME Inv, CreateTemp
    PROVE  Inv'
    <1>1. TypeOK'
        <2>1. Imported \in DatabaseFile
            BY ImportedTypes DEF Inv
        <2>2. candidates' \subseteq DatabaseFile
            BY <2>1 DEF Inv, CreateTemp, TypeOK, DatabaseFile
        <2> QED BY <2>2 DEF Inv, CreateTemp, TypeOK, DatabaseFile, Steps
    <1>2. FilesOK'
        BY DEF Inv, CreateTemp, FilesOK, TempOK, Secured
    <1>3. DatabasesOK'
        BY DEF Inv, CreateTemp, DatabasesOK, CompleteDatabase, FilesOK, Imported, Database
    <1>4. StepOK'
        BY DEF Inv, CreateTemp, StepOK, Begun, Opened
    <1>5. CountersOK'
        BY DEF Inv, CreateTemp, CountersOK
    <1> QED BY <1>1, <1>2, <1>3, <1>4, <1>5 DEF Inv

(* The import commits: the candidate is complete.                          *)
LEMMA FillTempKeeps ==
    ASSUME Inv, FillTemp
    PROVE  Inv'
    <1>1. TypeOK'
        <2>1. [Imported EXCEPT !.complete = TRUE] \in DatabaseFile
            BY ImportedTypes DEF Inv
        <2>2. candidates' \subseteq DatabaseFile
            BY <2>1 DEF Inv, FillTemp, TypeOK, DatabaseFile
        <2> QED BY <2>2 DEF Inv, FillTemp, TypeOK, DatabaseFile, Steps
    <1>2. FilesOK'
        BY DEF Inv, FillTemp, FilesOK, TempOK, Secured
    <1>3. DatabasesOK'
        BY DEF Inv, FillTemp, DatabasesOK, CompleteDatabase, FilesOK, Imported, Database
    <1>4. StepOK'
        BY DEF Inv, FillTemp, StepOK, Begun, Opened
    <1>5. CountersOK'
        BY DEF Inv, FillTemp, CountersOK
    <1> QED BY <1>1, <1>2, <1>3, <1>4, <1>5 DEF Inv

(* A failing import leaves no candidate, and no other trace.               *)
LEMMA CreateFailsKeeps ==
    ASSUME Inv, CreateFails
    PROVE  Inv'
    <1>1. TypeOK'
        BY DEF Inv, CreateFails, Steps, TypeOK, Refuse
    <1>2. FilesOK'
        BY DEF Inv, CreateFails, FilesOK, TempOK, Secured
    <1>3. DatabasesOK'
        BY DEF Inv, CreateFails, DatabasesOK, CompleteDatabase
    <1>4. StepOK'
        BY DEF CreateFails, StepOK, Begun, Opened, Refuse
    <1>5. CountersOK'
        BY DEF Inv, CreateFails, CountersOK
    <1> QED BY <1>1, <1>2, <1>3, <1>4, <1>5 DEF Inv

(* The complete candidate becomes the database; there was none.            *)
LEMMA InstallTempKeeps ==
    ASSUME Inv, InstallTemp
    PROVE  Inv'
    <1>1. TypeOK'
        <2>1. database' \in DatabaseFile
            BY ImportedTypes DEF Inv, InstallTemp
        <2> QED BY <2>1 DEF Inv, InstallTemp, TypeOK, DatabaseFile, Steps
    <1>2. FilesOK'
        BY DEF Inv, InstallTemp, StepOK, FilesOK, TempOK, Secured
    <1>3. DatabasesOK'
        BY DEF Inv, InstallTemp, DatabasesOK, CompleteDatabase, FilesOK, Exists, Imported,
            Database
    <1>4. StepOK'
        BY DEF Inv, InstallTemp, StepOK, Begun, Exists, Imported, Database
    <1>5. CountersOK'
        BY DEF Inv, InstallTemp, CountersOK
    <1> QED BY <1>1, <1>2, <1>3, <1>4, <1>5 DEF Inv

(* validateSourceHash: a start goes on to the backup only over a database  *)
(* of this very state.json.                                                *)
LEMMA OpenKeeps ==
    ASSUME Inv, Open
    PROVE  Inv'
    <1>1. TypeOK'
        BY DEF Inv, Open, files, Steps, TypeOK, Refuse
    <1>2. FilesOK'
        BY DEF Inv, Open, FilesOK, TempOK, Secured, files
    <1>3. DatabasesOK'
        BY DEF Inv, Open, DatabasesOK, CompleteDatabase, files
    <1>4. StepOK'
        BY DEF Inv, Open, StepOK, Begun, Opened, DatabasesOK, FilesOK, Secured, files, TypeOK,
            SourceMatches, Refuse
    <1>5. CountersOK'
        BY DEF Inv, Open, CountersOK, files
    <1> QED BY <1>1, <1>2, <1>3, <1>4, <1>5 DEF Inv

(* commitState22Sentinel keeps the bytes of state.json first ...           *)
LEMMA BackupKeeps ==
    ASSUME Inv, Backup
    PROVE  Inv'
    <1>1. TypeOK'
        <2>1. Kept \subseteq Versions
            BY DEF Inv, TypeOK, Kept
        <2>2. backups' \subseteq Versions
            BY <2>1 DEF Inv, TypeOK, Backup
        <2> QED BY <2>2 DEF Inv, Backup, TypeOK, Steps
    <1>2. FilesOK'
        BY DEF Inv, Backup, FilesOK, TempOK, Secured
    <1>3. DatabasesOK'
        BY DEF Inv, Backup, DatabasesOK, CompleteDatabase
    <1>4. StepOK'
        BY DEF Inv, Backup, StepOK, Begun, Opened, FilesOK, Secured, TypeOK, Kept
    <1>5. CountersOK'
        BY DEF Inv, Backup, CountersOK
    <1> QED BY <1>1, <1>2, <1>3, <1>4, <1>5 DEF Inv

(* ... then opens the temporary sentinel ...                               *)
LEMMA OpenSentinelKeeps ==
    ASSUME Inv, OpenSentinel
    PROVE  Inv'
    <1>1. TypeOK'
        BY BootstrapAssumption DEF Inv, OpenSentinel, Steps, Versions, TypeOK, Torn
    <1>2. FilesOK'
        BY DEF Inv, OpenSentinel, FilesOK, TempOK, Secured, Torn
    <1>3. DatabasesOK'
        BY DEF Inv, OpenSentinel, DatabasesOK, CompleteDatabase
    <1>4. StepOK'
        BY DEF Inv, OpenSentinel, StepOK, Begun, Secured
    <1>5. CountersOK'
        BY DEF Inv, OpenSentinel, CountersOK, Torn
    <1> QED BY <1>1, <1>2, <1>3, <1>4, <1>5 DEF Inv

(* ... which is written and synced when database and backup are safe ...   *)
LEMMA SyncSentinelKeeps ==
    ASSUME Inv, SyncSentinel
    PROVE  Inv'
    <1>1. TypeOK'
        BY BootstrapAssumption DEF Inv, SyncSentinel, Steps, Versions, TypeOK, Sentinel
    <1>2. FilesOK'
        BY DEF Inv, SyncSentinel, StepOK, FilesOK, TempOK, Secured, Sentinel
    <1>3. DatabasesOK'
        BY DEF Inv, SyncSentinel, DatabasesOK, CompleteDatabase
    <1>4. StepOK'
        BY DEF Inv, SyncSentinel, StepOK, Begun, Secured
    <1>5. CountersOK'
        BY DEF Inv, SyncSentinel, CountersOK, Sentinel
    <1> QED BY <1>1, <1>2, <1>3, <1>4, <1>5 DEF Inv

(* ... and only then takes the place of state.json.                        *)
LEMMA RenameSentinelKeeps ==
    ASSUME Inv, RenameSentinel
    PROVE  Inv'
    <1>1. TypeOK'
        BY BootstrapAssumption DEF Inv, RenameSentinel, NoFile, Steps, Versions, TypeOK, Refuse,
            Sentinel
    <1>2. FilesOK'
        BY DEF Inv, RenameSentinel, StepOK, FilesOK, TempOK, Secured, NoFile, Sentinel
    <1>3. DatabasesOK'
        BY DEF Inv, RenameSentinel, DatabasesOK, CompleteDatabase, Sentinel
    <1>4. StepOK'
        BY DEF Inv, RenameSentinel, StepOK, Begun, Secured, Refuse
    <1>5. CountersOK'
        BY DEF Inv, RenameSentinel, CountersOK, NoFile
    <1> QED BY <1>1, <1>2, <1>3, <1>4, <1>5 DEF Inv

(* A kill leaves the files as they are.                                    *)
LEMMA CrashKeeps ==
    ASSUME Inv, Crash
    PROVE  Inv'
    <1>1. TypeOK'
        BY DEF Inv, Crash, files, Steps, TypeOK
    <1>2. FilesOK'
        BY DEF Inv, Crash, FilesOK, TempOK, Secured, files
    <1>3. DatabasesOK'
        BY DEF Inv, Crash, DatabasesOK, CompleteDatabase, files
    <1>4. StepOK'
        BY DEF Crash, StepOK, Begun, Opened
    <1>5. CountersOK'
        BY DEF Inv, Crash, CountersOK, files
    <1> QED BY <1>1, <1>2, <1>3, <1>4, <1>5 DEF Inv

(* V2.1 writes only over a state of its own, and so before the sentinel.   *)
LEMMA V21RunsKeeps ==
    ASSUME Inv, V21Runs
    PROVE  Inv'
    <1>1. TypeOK'
        BY BootstrapAssumption DEF Inv, V21Runs, CountersOK, NoFile, Versions, TypeOK, State,
            Torn
    <1>2. FilesOK'
        BY DEF Inv, V21Runs, FilesOK, TempOK, NoFile, Exists, Versions, TypeOK, State, Torn
    <1>3. DatabasesOK'
        BY DEF Inv, V21Runs, DatabasesOK, CompleteDatabase, State
    <1>4. StepOK'
        BY DEF Inv, V21Runs, StepOK, State
    <1>5. CountersOK'
        BY BootstrapAssumption DEF Inv, V21Runs, CountersOK, NoFile, Versions, TypeOK, State,
            Torn
    <1> QED BY <1>1, <1>2, <1>3, <1>4, <1>5 DEF Inv

(* A directory that V2.1 left, or an empty one, satisfies the invariant.   *)
LEMMA InvInit ==
    ASSUME Init PROVE Inv
    <1>1. TypeOK
        <2>1. stateFile \in {NoFile, State(1)} /\ tempFile \in {NoFile, Torn, State(2)}
            BY BootstrapAssumption DEF Init
        <2>2. 0 \in Versions /\ 1 \in Versions /\ 2 \in Versions
            BY BootstrapAssumption DEF Versions
        <2>3. stateFile \in [kind : {"none", "state", "sentinel"}, version : Versions]
            BY <2>1, <2>2 DEF NoFile, State
        <2>4. tempFile \in [kind : {"none", "state", "sentinel", "torn"}, version : Versions]
            BY <2>1, <2>2 DEF NoFile, State, Torn
        <2>5. database \in DatabaseFile
            BY <2>2 DEF Init, NoDatabase, DatabaseFile
        <2>6. latest \in Versions
            BY <2>3 DEF Init
        <2> QED BY <2>3, <2>4, <2>5, <2>6 DEF Init, TypeOK, DatabaseFile, Steps
    <1>2. FilesOK
        BY BootstrapAssumption
        DEF Init, FilesOK, TempOK, NoFile, State, Torn, NoDatabase, Exists
    <1>3. DatabasesOK
        BY DEF Init, DatabasesOK, CompleteDatabase, NoDatabase, Exists
    <1>4. StepOK
        BY DEF Init, StepOK, Begun, Opened
    <1>5. CountersOK
        BY BootstrapAssumption DEF Init, CountersOK, NoFile, State, Torn
    <1> QED BY <1>1, <1>2, <1>3, <1>4, <1>5 DEF Inv

(* Every step keeps the invariant.                                         *)
LEMMA InvNext ==
    ASSUME Inv, [Next]_vars PROVE Inv'
    <1>1. CASE Start
        BY <1>1, StartKeeps
    <1>2. CASE RecoverTemp
        BY <1>2, RecoverTempKeeps
    <1>3. CASE Prepare
        BY <1>3, PrepareKeeps
    <1>4. CASE RecoverDatabase
        BY <1>4, RecoverDatabaseKeeps
    <1>5. CASE CreateTemp
        BY <1>5, CreateTempKeeps
    <1>6. CASE FillTemp
        BY <1>6, FillTempKeeps
    <1>7. CASE CreateFails
        BY <1>7, CreateFailsKeeps
    <1>8. CASE InstallTemp
        BY <1>8, InstallTempKeeps
    <1>9. CASE Open
        BY <1>9, OpenKeeps
    <1>10. CASE Backup
        BY <1>10, BackupKeeps
    <1>11. CASE OpenSentinel
        BY <1>11, OpenSentinelKeeps
    <1>12. CASE SyncSentinel
        BY <1>12, SyncSentinelKeeps
    <1>13. CASE RenameSentinel
        BY <1>13, RenameSentinelKeeps
    <1>14. CASE Crash
        BY <1>14, CrashKeeps
    <1>15. CASE V21Runs
        BY <1>15, V21RunsKeeps
    <1>16. CASE UNCHANGED vars
        BY <1>16 DEF vars, Inv, TypeOK, FilesOK, TempOK, Secured, DatabasesOK, CompleteDatabase,
                     StepOK, CountersOK, Exists
    <1> QED BY <1>1, <1>2, <1>3, <1>4, <1>5, <1>6, <1>7, <1>8, <1>9, <1>10, <1>11, <1>12, <1>13,
        <1>14, <1>15, <1>16 DEF Next

-----------------------------------------------------------------------------
(* The theorems.                                                           *)

(* The invariant holds in every reachable state.                           *)
THEOREM Invariance == Spec => []Inv
    BY InvInit, InvNext, PTL DEF Spec

(* Type correctness of a start.                                            *)
THEOREM TypeCorrect == Spec => []TypeOK
    <1>1. Inv => TypeOK
        BY DEF Inv
    <1> QED BY <1>1, Invariance, PTL

(* state.json, the last copy of what V2.1 knew, gives way to the sentinel  *)
(* only when the database was imported from exactly that state and its     *)
(* bytes are in the backup (commitState22Sentinel).                        *)
THEOREM SourceIsKept == Spec => []SourceKept
    <1>1. Inv => SourceKept
        BY DEF Inv, FilesOK, Secured, SourceKept
    <1> QED BY <1>1, Invariance, PTL

(* A database that serves was imported completely                          *)
(* (recoverManagedMigrationDatabase).                                      *)
THEOREM DatabaseIsComplete == Spec => []CompleteDatabase
    <1>1. Inv => CompleteDatabase
        BY DEF Inv, DatabasesOK
    <1> QED BY <1>1, Invariance, PTL

(* No start replaces the database that another one installed: each looks   *)
(* first, and what it found not to be there is still not there when it     *)
(* installs (createDatabaseAtomically).                                    *)
THEOREM DatabaseStays == Spec => DatabaseKept
    <1>1. ASSUME Inv, [Next]_vars, Exists(database) PROVE database' = database
        <2>1. CASE RecoverDatabase
            BY <1>1, <2>1 DEF RecoverDatabase, Usable
        <2>2. CASE InstallTemp
            BY <1>1, <2>2 DEF Inv, StepOK, InstallTemp
        <2>3. CASE UNCHANGED database
            BY <2>3
        <2>4. RecoverDatabase \/ InstallTemp \/ UNCHANGED database
            BY <1>1 DEF Next, vars, files, Start, RecoverTemp, Prepare, CreateTemp, FillTemp,
                        CreateFails, Open, Backup, OpenSentinel, SyncSentinel, RenameSentinel,
                        Crash, V21Runs
        <2> QED BY <2>1, <2>2, <2>3, <2>4
    <1>2. Inv /\ [Next]_vars => [Exists(database) => database' = database]_vars
        BY <1>1
    <1> QED BY <1>2, Invariance, PTL DEF Spec, DatabaseKept
=============================================================================
