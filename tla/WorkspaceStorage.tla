-------------------------- MODULE WorkspaceStorage --------------------------
(***************************************************************************)
(* The workspace on disk and the processes that open it: the launcher lock *)
(* (lock.ts), the archive before a schema upgrade (upgrade-safety.ts), the *)
(* migration, the files of registered originals (store.ts), backups made   *)
(* while the workspace is in use and recovered folders (backup-core.ts).   *)
(* Any process may be killed between any two steps; what is on disk stays. *)
(***************************************************************************)
EXTENDS Naturals, FiniteSets

CONSTANTS
  Procs,        \* process ids of launchers; an id is used again after its process ended
  Target,       \* the schema version of the build a process runs
  Contents,     \* contents of original files, each standing for its hash
  None,
  MaxArchives   \* bound: backups taken from an open workspace while fewer are kept

ASSUME ConstantFacts ==
  /\ None \notin Procs
  /\ Target \in [Procs -> {1, 2}]
  /\ MaxArchives \in Nat

\* A database: its schema version (0: there is none yet), the originals its
\* records name, and the work it holds as unfinished or as running on its own.
Database == [ver : 0..2, recs : SUBSET Contents, work : SUBSET {"turn", "filing"}]

Archive == [ver : 0..2, recs : SUBSET Contents, work : SUBSET {"turn", "filing"},
            originals : SUBSET Contents]

VARIABLES
  mutex,      \* who holds BEGIN EXCLUSIVE on the launcher-lock database
  pidFile,    \* None, "empty" after open and before write, or a process id
  pc,         \* where a process stands; "off" when no process has the id
  job,        \* the originals of the call a process is in: all of them, and those it created
  worker,     \* the backup worker of a process: where it is and what it copied so far
  db, files,  \* the database, and each original file: "none", "partial" or "whole"
  archives,   \* verified archives: kept beside the database or downloaded
  before,     \* the databases that were migrated, as they were (kept for the properties)
  folder      \* a recovered-* folder: its archive, originals and database; it has a marker while "filling"

vars == <<mutex, pidFile, pc, job, worker, db, files, archives, before, folder>>

lockVars == <<mutex, pidFile>>
dataVars == <<db, files>>

NoJob == [all |-> {}, new |-> {}]

NoWork == [at |-> "idle", copy |-> [ver |-> 0, recs |-> {}, work |-> {}, originals |-> {}]]

Init ==
  /\ mutex = None /\ pidFile = None
  /\ pc = [p \in Procs |-> "off"]
  /\ job = [p \in Procs |-> NoJob]
  /\ worker = [p \in Procs |-> NoWork]
  /\ db \in [ver : {0, 1}, recs : {{}}, work : {{}}]
  /\ files = [c \in Contents |-> "none"]
  /\ archives = {} /\ before = {}
  /\ folder = None

Alive(q) == pc[q] # "off"

Goto(p, l) == pc' = [pc EXCEPT ![p] = l]

-----------------------------------------------------------------------------
(* lockWorkspace and its release *)

Start(p) ==
  /\ pc[p] = "off" /\ Goto(p, "mutex")
  /\ UNCHANGED <<lockVars, job, worker, dataVars, archives, before, folder>>

\* DEFECT: the PID file alone, without the mutex that guards its inspection.
PidFileOnly(p) ==
  /\ pc[p] = "mutex" /\ Goto(p, "create")
  /\ UNCHANGED <<lockVars, job, worker, dataVars, archives, before, folder>>

TakeMutex(p) ==
  /\ pc[p] = "mutex"
  /\ \/ mutex = None /\ mutex' = p /\ Goto(p, "create")
     \/ mutex # None /\ Goto(p, "off") /\ UNCHANGED mutex
  /\ UNCHANGED <<pidFile, job, worker, dataVars, archives, before, folder>>

CreatePidFile(p) ==
  /\ pc[p] = "create"
  /\ \/ pidFile = None /\ pidFile' = "empty" /\ Goto(p, "write") /\ UNCHANGED mutex
     \/ pidFile \in Procs /\ ~Alive(pidFile) /\ Goto(p, "unlink") /\ UNCHANGED lockVars
     \/ /\ pidFile = "empty" \/ (pidFile \in Procs /\ Alive(pidFile))
        /\ mutex' = None /\ Goto(p, "off") /\ UNCHANGED pidFile
  /\ UNCHANGED <<job, worker, dataVars, archives, before, folder>>

UnlinkStalePid(p) ==
  /\ pc[p] = "unlink" /\ pidFile' = None /\ Goto(p, "create")
  /\ UNCHANGED <<mutex, job, worker, dataVars, archives, before, folder>>

WritePid(p) ==
  /\ pc[p] = "write" /\ pidFile' = p /\ Goto(p, "locked")
  /\ UNCHANGED <<mutex, job, worker, dataVars, archives, before, folder>>

ReleasePid(p) ==
  /\ pc[p] = "release" /\ Goto(p, "close")
  /\ pidFile' = IF pidFile = p THEN None ELSE pidFile
  /\ UNCHANGED <<mutex, job, worker, dataVars, archives, before, folder>>

CloseMutex(p) ==
  /\ pc[p] = "close" /\ mutex' = None /\ Goto(p, "off")
  /\ UNCHANGED <<pidFile, job, worker, dataVars, archives, before, folder>>

-----------------------------------------------------------------------------
(* prepareWorkspaceUpgrade and the migration *)

CheckVersion(p) ==
  /\ pc[p] = "locked"
  /\ \/ db.ver \in {0, Target[p]} /\ Goto(p, "ready") /\ UNCHANGED worker
     \/ db.ver > Target[p] /\ Goto(p, "release") /\ UNCHANGED worker
     \/ /\ 0 < db.ver /\ db.ver < Target[p]
        /\ Goto(p, "archive") /\ worker' = [worker EXCEPT ![p].at = "started"]
  /\ UNCHANGED <<lockVars, job, dataVars, archives, before, folder>>

OpenDatabase(p) ==
  /\ pc[p] = "ready"
  /\ \/ /\ Goto(p, "opened")
        /\ db' = [db EXCEPT !.ver = Target[p]]
        /\ before' = IF db.ver \in {0, Target[p]} THEN before
                     ELSE before \cup {[ver |-> db.ver, recs |-> db.recs]}
     \/ Goto(p, "release") /\ UNCHANGED <<db, before>>      \* startup was cancelled
  /\ UNCHANGED <<lockVars, job, worker, files, archives, folder>>

\* Responses that ran when the last process ended are interrupted; starting may also fail.
Recover(p) ==
  /\ pc[p] = "opened"
  /\ \/ db' = [db EXCEPT !.work = @ \ {"turn"}] /\ Goto(p, "serve")
     \/ Goto(p, "release") /\ UNCHANGED db
  /\ UNCHANGED <<lockVars, job, worker, files, archives, before, folder>>

-----------------------------------------------------------------------------
(* buildBackup in a worker process *)

Pausing(w) == w \ {"filing"}

RequestBackup(p) ==
  /\ pc[p] = "serve" /\ worker[p].at = "idle" /\ Cardinality(archives) < MaxArchives
  /\ worker' = [worker EXCEPT ![p].at = "started"]
  /\ UNCHANGED <<lockVars, pc, job, dataVars, archives, before, folder>>

TakeSnapshot(p) ==
  /\ worker[p].at = "started"
  /\ worker' = [worker EXCEPT ![p] = [at |-> "copying",
       copy |-> [ver |-> db.ver, recs |-> db.recs, work |-> Pausing(db.work), originals |-> {}]]]
  /\ UNCHANGED <<lockVars, pc, job, dataVars, archives, before, folder>>

\* An original that is missing or differs from its record fails the backup, as do a full
\* disk and the time limit.
CopyOriginals(p) ==
  /\ worker[p].at = "copying"
  /\ \/ /\ \A c \in worker[p].copy.recs : files[c] = "whole"
        /\ worker' = [worker EXCEPT ![p] =
             [at |-> "built", copy |-> [@.copy EXCEPT !.originals = worker[p].copy.recs]]]
     \/ worker' = [worker EXCEPT ![p].at = "failed"]
  /\ UNCHANGED <<lockVars, pc, job, dataVars, archives, before, folder>>

\* DEFECT: a failed backup falls through to the migration.
UpgradeAnyway(p) ==
  /\ worker[p].at \in {"built", "failed"}
  /\ archives' = archives \cup (IF worker[p].at = "built" THEN {worker[p].copy} ELSE {})
  /\ worker' = [worker EXCEPT ![p] = NoWork]
  /\ IF pc[p] # "archive" THEN UNCHANGED pc ELSE Goto(p, "ready")
  /\ UNCHANGED <<lockVars, job, dataVars, before, folder>>

\* Before an upgrade the archive is verified once more; a failure refuses the upgrade.
KeepArchive(p) ==
  /\ worker[p].at \in {"built", "failed"}
  /\ archives' = archives \cup (IF worker[p].at = "built" THEN {worker[p].copy} ELSE {})
  /\ worker' = [worker EXCEPT ![p] = NoWork]
  /\ IF pc[p] # "archive" THEN UNCHANGED pc
     ELSE Goto(p, IF worker[p].at = "built" THEN "ready" ELSE "release")
  /\ UNCHANGED <<lockVars, job, dataVars, before, folder>>

-----------------------------------------------------------------------------
(* Use of the open workspace: originals, responses, AI filing *)

\* DEFECT: a file that exists is taken for the original without reading it.
TrustExisting(p) ==
  /\ pc[p] \in {"serve", "register"}
  /\ \E c \in Contents \ job[p].all :
       \/ /\ files[c] = "none"
          /\ files' = [files EXCEPT ![c] = "partial"]
          /\ job' = [job EXCEPT ![p] = [all |-> @.all \cup {c}, new |-> @.new \cup {c}]]
          /\ Goto(p, "writing")
       \/ /\ files[c] # "none"
          /\ job' = [job EXCEPT ![p].all = @ \cup {c}]
          /\ Goto(p, "register") /\ UNCHANGED files
  /\ UNCHANGED <<lockVars, worker, db, archives, before, folder>>

\* One upload, or the next file of a reviewed import.
StoreOriginal(p) ==
  /\ pc[p] \in {"serve", "register"}
  /\ \E c \in Contents \ job[p].all :
       \/ /\ files[c] = "none"
          /\ files' = [files EXCEPT ![c] = "partial"]
          /\ job' = [job EXCEPT ![p] = [all |-> @.all \cup {c}, new |-> @.new \cup {c}]]
          /\ Goto(p, "writing")
       \/ /\ files[c] = "whole"
          /\ job' = [job EXCEPT ![p].all = @ \cup {c}]
          /\ Goto(p, "register") /\ UNCHANGED files
  /\ UNCHANGED <<lockVars, worker, db, archives, before, folder>>

\* The files among cs that no record names are removed again.
Discard(cs) == [c \in Contents |-> IF c \in cs \ db.recs THEN "none" ELSE files[c]]

\* Without space the call fails before its transaction; the file it was writing stays.
WriteOriginal(p) ==
  /\ pc[p] = "writing"
  /\ \E c \in job[p].new :
       /\ files[c] = "partial"
       /\ \/ /\ files' = [files EXCEPT ![c] = "whole"]
             /\ Goto(p, "register") /\ UNCHANGED job
          \/ /\ files' = Discard(job[p].new \ {c})
             /\ job' = [job EXCEPT ![p] = NoJob] /\ Goto(p, "serve")
  /\ UNCHANGED <<lockVars, worker, db, archives, before, folder>>

\* The records of all the files commit in one transaction, or none does.
Register(p) ==
  /\ pc[p] = "register"
  /\ \/ db' = [db EXCEPT !.recs = @ \cup job[p].all] /\ UNCHANGED files
     \/ files' = Discard(job[p].new) /\ UNCHANGED db
  /\ job' = [job EXCEPT ![p] = NoJob] /\ Goto(p, "serve")
  /\ UNCHANGED <<lockVars, worker, archives, before, folder>>

\* A response begins or ends, AI filing is switched on or off.
ChangeWork(p) ==
  /\ pc[p] = "serve"
  /\ \E w \in SUBSET {"turn", "filing"} : db' = [db EXCEPT !.work = w]
  /\ UNCHANGED <<lockVars, pc, job, worker, files, archives, before, folder>>

Stop(p) ==
  /\ pc[p] \in {"serve", "archive"} /\ Goto(p, "release")
  /\ worker' = [worker EXCEPT ![p] = NoWork]
  /\ UNCHANGED <<lockVars, job, dataVars, archives, before, folder>>

\* SIGKILL: the operating system frees the mutex; nothing is cleaned up.
Kill(p) ==
  /\ Alive(p) /\ Goto(p, "off")
  /\ mutex' = IF mutex = p THEN None ELSE mutex
  /\ job' = [job EXCEPT ![p] = NoJob]
  /\ worker' = [worker EXCEPT ![p] = NoWork]
  /\ UNCHANGED <<pidFile, dataVars, archives, before, folder>>

-----------------------------------------------------------------------------
(* restoreBackup: a worker fills a new folder; it may fail or die anywhere *)

StartRestore ==
  /\ folder = None
  /\ \E a \in archives :
       folder' = [from |-> a, stage |-> "filling", originals |-> {}, db |-> None]
  /\ UNCHANGED <<lockVars, pc, job, worker, dataVars, archives, before>>

ExtractOriginal ==
  /\ folder # None /\ folder.stage = "filling"
  /\ \E c \in folder.from.originals \ folder.originals :
       folder' = [folder EXCEPT !.originals = @ \cup {c}]
  /\ UNCHANGED <<lockVars, pc, job, worker, dataVars, archives, before>>

CopyDatabase ==
  /\ folder # None /\ folder.stage = "filling" /\ folder.db = None
  /\ folder.originals = folder.from.originals
  /\ folder' = [folder EXCEPT !.db = [ver |-> folder.from.ver, recs |-> folder.from.recs,
                                      work |-> folder.from.work]]
  /\ UNCHANGED <<lockVars, pc, job, worker, dataVars, archives, before>>

\* recover(), then the marker is removed as the last step.
FinishRestore ==
  /\ folder # None /\ folder.stage = "filling" /\ folder.db # None
  /\ \/ "turn" \in folder.db.work
        /\ folder' = [folder EXCEPT !.db.work = @ \ {"turn"}]
     \/ "turn" \notin folder.db.work
        /\ folder' = [folder EXCEPT !.stage = "finished"]
  /\ UNCHANGED <<lockVars, pc, job, worker, dataVars, archives, before>>

\* The worker failed and removed its folder, or the user deleted it.
RemoveFolder ==
  /\ folder # None /\ folder' = None
  /\ UNCHANGED <<lockVars, pc, job, worker, dataVars, archives, before>>

\* DEFECT: the marker is not looked at.
OpenAnyFolder ==
  /\ folder # None /\ folder.db # None
  /\ folder' = [folder EXCEPT !.stage = "opened"]
  /\ UNCHANGED <<lockVars, pc, job, worker, dataVars, archives, before>>

\* A launcher given the folder's database refuses it while the marker is there.
OpenFolder ==
  /\ folder # None /\ folder.db # None /\ folder.stage # "filling"
  /\ folder' = [folder EXCEPT !.stage = "opened"]
  /\ UNCHANGED <<lockVars, pc, job, worker, dataVars, archives, before>>

-----------------------------------------------------------------------------
Lock(p) ==
  \/ Start(p) \/ TakeMutex(p) \/ CreatePidFile(p) \/ UnlinkStalePid(p) \/ WritePid(p)
  \/ ReleasePid(p) \/ CloseMutex(p)

Launch(p) == CheckVersion(p) \/ OpenDatabase(p) \/ Recover(p) \/ Stop(p) \/ Kill(p)

Backup(p) == RequestBackup(p) \/ TakeSnapshot(p) \/ CopyOriginals(p) \/ KeepArchive(p)

Serve(p) == StoreOriginal(p) \/ WriteOriginal(p) \/ Register(p) \/ ChangeWork(p)

Restore ==
  StartRestore \/ ExtractOriginal \/ CopyDatabase \/ FinishRestore \/ RemoveFolder \/ OpenFolder

Next == (\E p \in Procs : Lock(p) \/ Launch(p) \/ Backup(p) \/ Serve(p)) \/ Restore

Spec == Init /\ [][Next]_vars

-----------------------------------------------------------------------------
Using == {"locked", "archive", "ready", "opened", "serve", "writing", "register"}

TypeOK ==
  /\ mutex \in Procs \cup {None}
  /\ pidFile \in Procs \cup {None, "empty"}
  /\ pc \in [Procs -> Using \cup {"off", "mutex", "create", "unlink", "write", "release", "close"}]
  /\ job \in [Procs -> [all : SUBSET Contents, new : SUBSET Contents]]
  /\ worker \in [Procs -> [at : {"idle", "started", "copying", "built", "failed"}, copy : Archive]]
  /\ db \in Database
  /\ files \in [Contents -> {"none", "partial", "whole"}]
  /\ archives \subseteq Archive
  /\ before \subseteq [ver : 0..2, recs : SUBSET Contents]
  /\ folder \in {None} \cup [from : Archive, stage : {"filling", "finished", "opened"},
                            originals : SUBSET Contents, db : Database \cup {None}]

\* lock.ts: stale PID files are inspected and removed under the mutex, so no launcher
\* erases a new owner: at most one process uses the workspace, and only that one
\* changes its database and originals, whatever is killed and when.
Exclusive == INSTANCE ExclusiveUse WITH
  users <- {p \in Procs : pc[p] \in Using}, data <- dataVars

ImplementsExclusiveUse == Exclusive!Spec

\* upgrade-safety.ts: every database that was migrated can be recovered as it was: a
\* verified archive with its version and records was kept before the migration began.
UpgradesAreRecoverable ==
  \A b \in before : \E a \in archives : a.ver = b.ver /\ a.recs = b.recs

\* store.ts: an original that a record names is on disk and whole, also after a
\* failed or killed upload of the same content.
RegisteredOriginalsAreWhole == \A c \in db.recs : files[c] = "whole"

\* backup-core.ts: a recovered folder that can be opened holds every original its
\* records name, whatever went on in the workspace while its backup was made, and no
\* response or AI filing that goes on by itself.
RecoveredFoldersAreWhole ==
  (folder # None /\ folder.stage = "opened") =>
    folder.db.recs \subseteq folder.originals /\ folder.db.work = {}
=============================================================================
