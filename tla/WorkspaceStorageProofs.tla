------------------------ MODULE WorkspaceStorageProofs ------------------------
(***************************************************************************)
(* Proofs about WorkspaceStorage, for any processes, builds and originals. *)
(***************************************************************************)
EXTENDS WorkspaceStorage, TLAPS

LEMMA InitType == Init => TypeOK
BY ConstantFacts DEF Init, TypeOK, NoJob, NoWork, Database, Archive

\* Every action keeps the types.
LEMMA TypeStep == ASSUME TypeOK, [Next]_vars PROVE TypeOK'
<1> DEFINE Places == Using \cup {"off", "mutex", "create", "unlink", "write", "release", "close"}
<1> DEFINE W == [Procs -> [at : {"idle", "started", "copying", "built", "failed"}, copy : Archive]]
<1>0. pc \in [Procs -> Places] /\ worker \in W /\ db \in Database BY DEF TypeOK
<1>1. ASSUME NEW p \in Procs, Lock(p) PROVE TypeOK'
  <2>1. pc' \in [Procs -> Places]
    BY <1>1 DEF TypeOK, Lock, Start, TakeMutex, CreatePidFile, UnlinkStalePid, WritePid,
         ReleasePid, CloseMutex, Goto, Using
  <2>2. mutex' \in Procs \cup {None} /\ pidFile' \in Procs \cup {None, "empty"}
    BY <1>1 DEF TypeOK, Lock, Start, TakeMutex, CreatePidFile, UnlinkStalePid, WritePid,
         ReleasePid, CloseMutex, lockVars
  <2>3. UNCHANGED <<job, worker, dataVars, archives, before, folder>>
    BY <1>1 DEF Lock, Start, TakeMutex, CreatePidFile, UnlinkStalePid, WritePid,
         ReleasePid, CloseMutex
  <2> QED BY <2>1, <2>2, <2>3 DEF TypeOK, dataVars
<1>2. ASSUME NEW p \in Procs, Launch(p) PROVE TypeOK'
  <2>1. CASE CheckVersion(p)
    <3>1. worker' \in W BY <1>0, <2>1 DEF CheckVersion
    <3>2. pc' \in [Procs -> Places] BY <1>0, <2>1 DEF CheckVersion, Goto, Using
    <3> QED BY <2>1, <3>1, <3>2 DEF TypeOK, CheckVersion, lockVars, dataVars
  <2>2. CASE OpenDatabase(p)
    <3>0. Target[p] \in 0..2 BY ConstantFacts
    <3>1. db' \in Database BY <1>0, <2>2, <3>0 DEF OpenDatabase, Database
    <3>2. before' \subseteq [ver : 0..2, recs : SUBSET Contents]
      BY <2>2 DEF TypeOK, OpenDatabase, Database
    <3> QED BY <2>2, <3>1, <3>2 DEF TypeOK, OpenDatabase, Goto, lockVars, Using
  <2>3. CASE Recover(p)
    <3>1. db' \in Database BY <1>0, <2>3 DEF Recover, Database
    <3> QED BY <2>3, <3>1 DEF TypeOK, Recover, Goto, lockVars, Using
  <2>4. CASE Stop(p) \/ Kill(p)
    <3>1. worker' \in [Procs -> [at : {"idle", "started", "copying", "built", "failed"}, copy : Archive]]
      BY <2>4 DEF TypeOK, Stop, Kill, NoWork, Archive
    <3>2. job' \in [Procs -> [all : SUBSET Contents, new : SUBSET Contents]]
      BY <2>4 DEF TypeOK, Stop, Kill, NoJob
    <3> QED BY <2>4, <3>1, <3>2 DEF TypeOK, Stop, Kill, Goto, lockVars, dataVars, Using
  <2> QED BY <1>2, <2>1, <2>2, <2>3, <2>4 DEF Launch
<1>3. ASSUME NEW p \in Procs, Backup(p) PROVE TypeOK'
  <2>1. CASE RequestBackup(p)
    <3>1. worker' \in W BY <1>0, <2>1 DEF RequestBackup
    <3> QED BY <2>1, <3>1 DEF TypeOK, RequestBackup, lockVars, dataVars
  <2>2. CASE TakeSnapshot(p)
    <3>1. [ver |-> db.ver, recs |-> db.recs, work |-> Pausing(db.work), originals |-> {}] \in Archive
      BY DEF TypeOK, Database, Archive, Pausing
    <3>2. worker' \in W BY <1>0, <2>2, <3>1 DEF TakeSnapshot
    <3> QED BY <2>2, <3>2 DEF TypeOK, TakeSnapshot, lockVars, dataVars
  <2>3. CASE CopyOriginals(p)
    <3> DEFINE c == [worker[p].copy EXCEPT !.originals = worker[p].copy.recs]
    <3>1. CASE worker' = [worker EXCEPT ![p] = [at |-> "built", copy |-> c]]
      <4>1. worker[p].copy \in Archive BY <1>0
      <4>2. c \in Archive BY <4>1 DEF Archive
      <4> HIDE DEF c
      <4>4. worker' \in W BY <1>0, <3>1, <4>2
      <4> QED BY <2>3, <4>4 DEF TypeOK, CopyOriginals, lockVars, dataVars
    <3>2. CASE worker' = [worker EXCEPT ![p].at = "failed"]
      <4>1. worker' \in W BY <1>0, <3>2
      <4> QED BY <2>3, <4>1 DEF TypeOK, CopyOriginals, lockVars, dataVars
    <3> QED BY <2>3, <3>1, <3>2 DEF CopyOriginals
  <2>4. CASE KeepArchive(p)
    <3>1. worker' \in W BY <1>0, <2>4 DEF KeepArchive, NoWork, Archive
    <3>2. archives' \subseteq Archive BY <1>0, <2>4 DEF KeepArchive, TypeOK
    <3>3. pc' \in [Procs -> Places] BY <1>0, <2>4 DEF KeepArchive, Goto, Using
    <3> QED BY <2>4, <3>1, <3>2, <3>3 DEF TypeOK, KeepArchive, lockVars, dataVars
  <2> QED BY <1>3, <2>1, <2>2, <2>3, <2>4 DEF Backup
<1>4. ASSUME NEW p \in Procs, Serve(p) PROVE TypeOK'
  <2>1. CASE StoreOriginal(p)
    <3>1. job' \in [Procs -> [all : SUBSET Contents, new : SUBSET Contents]]
      <4>1. job \in [Procs -> [all : SUBSET Contents, new : SUBSET Contents]] BY DEF TypeOK
      <4>2. PICK c \in Contents :
              \/ job' = [job EXCEPT ![p] = [all |-> @.all \cup {c}, new |-> @.new \cup {c}]]
              \/ job' = [job EXCEPT ![p].all = @ \cup {c}]
        BY <2>1 DEF StoreOriginal
      <4> QED BY <4>1, <4>2
    <3>2. files' \in [Contents -> {"none", "partial", "whole"}] BY <2>1 DEF TypeOK, StoreOriginal
    <3>3. pc' \in [Procs -> Places] BY <1>0, <2>1 DEF StoreOriginal, Goto, Using
    <3> QED BY <2>1, <3>1, <3>2, <3>3 DEF TypeOK, StoreOriginal, lockVars
  <2>2. CASE WriteOriginal(p)
    <3>1. job' \in [Procs -> [all : SUBSET Contents, new : SUBSET Contents]]
      BY <2>2 DEF TypeOK, WriteOriginal, NoJob
    <3>2. files' \in [Contents -> {"none", "partial", "whole"}]
      BY <2>2 DEF TypeOK, WriteOriginal, Discard
    <3> QED BY <2>2, <3>1, <3>2 DEF TypeOK, WriteOriginal, Goto, lockVars, Using
  <2>3. CASE Register(p)
    <3>1. job' \in [Procs -> [all : SUBSET Contents, new : SUBSET Contents]]
      BY <2>3 DEF TypeOK, Register, NoJob
    <3>2. files' \in [Contents -> {"none", "partial", "whole"}] BY <2>3 DEF TypeOK, Register, Discard
    <3>3. db' \in Database BY <2>3 DEF TypeOK, Register, Database
    <3> QED BY <2>3, <3>1, <3>2, <3>3 DEF TypeOK, Register, Goto, lockVars, Using
  <2>4. CASE ChangeWork(p)
    <3>1. db' \in Database BY <1>0, <2>4 DEF ChangeWork, Database
    <3> QED BY <2>4, <3>1 DEF TypeOK, ChangeWork, lockVars
  <2> QED BY <1>4, <2>1, <2>2, <2>3, <2>4 DEF Serve
<1>5. CASE Restore
  <2> DEFINE F == [from : Archive, stage : {"filling", "finished", "opened"},
                   originals : SUBSET Contents, db : Database \cup {None}]
  <2>1. folder' \in {None} \cup F
    <3>1. CASE StartRestore
      <4>1. PICK a \in archives : folder' = [from |-> a, stage |-> "filling", originals |-> {}, db |-> None]
        BY <3>1 DEF StartRestore
      <4>2. a \in Archive BY DEF TypeOK
      <4> QED BY <4>1, <4>2
    <3>2. CASE ExtractOriginal
      <4>1. folder \in F /\ folder.from \in Archive BY <3>2 DEF ExtractOriginal, TypeOK
      <4>2. PICK c \in folder.from.originals : folder' = [folder EXCEPT !.originals = @ \cup {c}]
        BY <3>2 DEF ExtractOriginal
      <4>3. c \in Contents BY <4>1 DEF Archive
      <4> QED BY <4>1, <4>2, <4>3
    <3>3. CASE CopyDatabase
      <4>1. [ver |-> folder.from.ver, recs |-> folder.from.recs, work |-> folder.from.work] \in Database
        BY <3>3 DEF CopyDatabase, TypeOK, Archive, Database
      <4> QED BY <3>3, <4>1 DEF CopyDatabase, TypeOK
    <3>4. CASE FinishRestore
      <4>1. folder \in F /\ folder.db \in Database BY <3>4 DEF FinishRestore, TypeOK
      <4>2. [folder.db EXCEPT !.work = @ \ {"turn"}] \in Database BY <4>1 DEF Database
      <4> QED BY <3>4, <4>1, <4>2 DEF FinishRestore
    <3>5. CASE RemoveFolder BY <3>5 DEF RemoveFolder
    <3>6. CASE OpenFolder BY <3>6 DEF OpenFolder, TypeOK
    <3> QED BY <1>5, <3>1, <3>2, <3>3, <3>4, <3>5, <3>6 DEF Restore
  <2>2. UNCHANGED <<lockVars, pc, job, worker, dataVars, archives, before>>
    BY <1>5 DEF Restore, StartRestore, ExtractOriginal, CopyDatabase, FinishRestore, RemoveFolder, OpenFolder
  <2> QED BY <2>1, <2>2 DEF TypeOK, lockVars, dataVars
<1>6. CASE UNCHANGED vars BY <1>6, Zenon DEF TypeOK, vars, Alive
<1> QED BY <1>1, <1>2, <1>3, <1>4, <1>5, <1>6 DEF Next

\* The state of the workspace always has its type.
THEOREM TypeCorrect == Spec => []TypeOK
BY InitType, TypeStep, PTL DEF Spec

-----------------------------------------------------------------------------
(* Who holds the mutex, and what the disk holds meanwhile *)

Holding == Using \cup {"create", "unlink", "write", "release", "close"}

\* A process that inspects the PID file or uses the workspace holds the mutex.
HoldersInv == \A p \in Procs : pc[p] \in Holding => mutex = p

\* While a call runs, the files it will register are whole, except the one it is writing.
FilesInv ==
  /\ \A c \in db.recs : files[c] = "whole"
  /\ \A p \in Procs :
       /\ job[p].new \subseteq job[p].all
       /\ pc[p] \notin {"writing", "register"} => job[p] = NoJob
       /\ pc[p] = "register" => \A c \in job[p].all : files[c] = "whole"
       /\ pc[p] = "writing" => \E c \in job[p].new : /\ files[c] = "partial"
                                                     /\ \A d \in job[p].all \ {c} : files[d] = "whole"

\* What an archive promises of itself.
Sound(a) == a.originals = a.recs /\ "filing" \notin a.work

ArchivesInv ==
  /\ \A a \in archives : Sound(a)
  /\ \A p \in Procs :
       /\ worker[p].at \in {"copying", "built"} => "filing" \notin worker[p].copy.work
       /\ worker[p].at = "built" => worker[p].copy.originals = worker[p].copy.recs

\* The archive before an upgrade shows the database as the upgrade will find it.
Kept(v, r) == \E a \in archives : a.ver = v /\ a.recs = r

UpgradeInv ==
  /\ \A b \in before : Kept(b.ver, b.recs)
  /\ \A p \in Procs :
       /\ pc[p] = "archive" /\ worker[p].at \in {"copying", "built"} =>
            worker[p].copy.ver = db.ver /\ worker[p].copy.recs = db.recs
       /\ pc[p] = "ready" => db.ver \in {0, Target[p]} \/ Kept(db.ver, db.recs)

FolderInv ==
  folder # None =>
    /\ Sound(folder.from) /\ folder.originals \subseteq folder.from.originals
    /\ folder.db # None => /\ folder.db.recs = folder.from.recs
                           /\ folder.originals = folder.from.originals
                           /\ "filing" \notin folder.db.work
    /\ folder.stage # "filling" => folder.db # None /\ "turn" \notin folder.db.work

LEMMA HoldersStep == ASSUME TypeOK, HoldersInv, [Next]_vars PROVE HoldersInv'
<1> USE DEF HoldersInv, Holding, Using
<1>0. pc \in [Procs -> Using \cup {"off", "mutex", "create", "unlink", "write", "release", "close"}]
  BY DEF TypeOK
<1>1. ASSUME NEW p \in Procs, Lock(p) PROVE HoldersInv'
  <2>1. CASE Start(p) BY <1>0, <2>1 DEF Start, Goto, lockVars
  <2>2. CASE TakeMutex(p) BY <1>0, <2>2, ConstantFacts DEF TakeMutex, Goto
  <2>3. CASE CreatePidFile(p) BY <1>0, <2>3 DEF CreatePidFile, Goto, lockVars
  <2>4. CASE UnlinkStalePid(p) \/ WritePid(p) BY <1>0, <2>4 DEF UnlinkStalePid, WritePid, Goto
  <2>5. CASE ReleasePid(p) BY <1>0, <2>5 DEF ReleasePid, Goto
  <2>6. CASE CloseMutex(p) BY <1>0, <2>6 DEF CloseMutex, Goto
  <2> QED BY <1>1, <2>1, <2>2, <2>3, <2>4, <2>5, <2>6 DEF Lock
<1>2. ASSUME NEW p \in Procs, Launch(p) PROVE HoldersInv'
  <2>1. CASE CheckVersion(p) BY <1>0, <2>1 DEF CheckVersion, Goto, lockVars
  <2>2. CASE OpenDatabase(p) \/ Recover(p) \/ Stop(p)
    BY <1>0, <2>2 DEF OpenDatabase, Recover, Stop, Goto, lockVars
  <2>3. CASE Kill(p) BY <1>0, <2>3 DEF Kill, Goto
  <2> QED BY <1>2, <2>1, <2>2, <2>3 DEF Launch
<1>3. ASSUME NEW p \in Procs, Backup(p) \/ Serve(p) PROVE HoldersInv'
  BY <1>0, <1>3 DEF Backup, Serve, RequestBackup, TakeSnapshot, CopyOriginals, KeepArchive,
       StoreOriginal, WriteOriginal, Register, ChangeWork, Goto, lockVars
<1>4. CASE Restore
  BY <1>4 DEF Restore, StartRestore, ExtractOriginal, CopyDatabase, FinishRestore, RemoveFolder,
       OpenFolder, lockVars
<1>5. CASE UNCHANGED vars BY <1>5 DEF vars
<1> QED BY <1>1, <1>2, <1>3, <1>4, <1>5 DEF Next

\* Two processes in places that need the mutex are one.
LEMMA OneHolder ==
  ASSUME HoldersInv, NEW p \in Procs, NEW q \in Procs, pc[p] \in Holding, pc[q] \in Holding
  PROVE  p = q
BY DEF HoldersInv

LEMMA FilesStep == ASSUME TypeOK, HoldersInv, FilesInv, [Next]_vars PROVE FilesInv'
<1>0. /\ pc \in [Procs -> Using \cup {"off", "mutex", "create", "unlink", "write", "release", "close"}]
      /\ job \in [Procs -> [all : SUBSET Contents, new : SUBSET Contents]]
      /\ files \in [Contents -> {"none", "partial", "whole"}] /\ db.recs \subseteq Contents
  BY DEF TypeOK, Database
<1> DEFINE JobOK(p) ==
       /\ job[p].new \subseteq job[p].all
       /\ pc[p] \notin {"writing", "register"} => job[p] = NoJob
       /\ pc[p] = "register" => \A c \in job[p].all : files[c] = "whole"
       /\ pc[p] = "writing" => \E c \in job[p].new : /\ files[c] = "partial"
                                                     /\ \A d \in job[p].all \ {c} : files[d] = "whole"
<1>1. ASSUME NEW p \in Procs, Serve(p) PROVE FilesInv'
  <2>1. \A q \in Procs \ {p} : pc[q] \notin Using
    BY <1>1, OneHolder DEF Serve, StoreOriginal, WriteOriginal, Register, ChangeWork, Holding, Using
  <2>2. \A q \in Procs \ {p} : JobOK(q)'
    <3>1. \A q \in Procs \ {p} : pc'[q] = pc[q] /\ job'[q] = job[q]
      BY <1>0, <1>1 DEF Serve, StoreOriginal, WriteOriginal, Register, ChangeWork, Goto
    <3> QED BY <2>1, <3>1 DEF FilesInv, Using
  <2>3. CASE StoreOriginal(p)
    <3>1. PICK c \in Contents \ job[p].all :
            \/ /\ files[c] = "none" /\ files' = [files EXCEPT ![c] = "partial"]
               /\ job' = [job EXCEPT ![p] = [all |-> @.all \cup {c}, new |-> @.new \cup {c}]]
               /\ Goto(p, "writing")
            \/ /\ files[c] = "whole" /\ job' = [job EXCEPT ![p].all = @ \cup {c}]
               /\ Goto(p, "register") /\ UNCHANGED files
      BY <2>3 DEF StoreOriginal
    <3>2. UNCHANGED db BY <2>3 DEF StoreOriginal
    <3>3. \A d \in job[p].all : files[d] = "whole"
      BY <1>0, <2>3 DEF FilesInv, StoreOriginal, NoJob
    <3>4. \A d \in db'.recs : files'[d] = "whole" BY <1>0, <3>1, <3>2 DEF FilesInv
    <3>5. JobOK(p)'
      <4>0. job[p].new \subseteq job[p].all BY DEF FilesInv
      <4>1. CASE /\ files[c] = "none" /\ files' = [files EXCEPT ![c] = "partial"]
                 /\ job' = [job EXCEPT ![p] = [all |-> @.all \cup {c}, new |-> @.new \cup {c}]]
                 /\ Goto(p, "writing")
        <5>1. job'[p] = [all |-> job[p].all \cup {c}, new |-> job[p].new \cup {c}] BY <1>0, <4>1
        <5>2. files'[c] = "partial" /\ \A d \in job[p].all : files'[d] = "whole" BY <1>0, <3>3, <4>1
        <5>3. pc'[p] = "writing" BY <1>0, <4>1 DEF Goto
        <5> QED BY <4>0, <5>1, <5>2, <5>3
      <4>2. CASE /\ files[c] = "whole" /\ job' = [job EXCEPT ![p].all = @ \cup {c}]
                 /\ Goto(p, "register") /\ UNCHANGED files
        <5>1. job'[p].all = job[p].all \cup {c} /\ job'[p].new = job[p].new BY <1>0, <4>2
        <5>2. pc'[p] = "register" BY <1>0, <4>2 DEF Goto
        <5> QED BY <3>3, <4>0, <4>2, <5>1, <5>2
      <4> QED BY <3>1, <4>1, <4>2
    <3> QED BY <2>2, <3>4, <3>5 DEF FilesInv
  <2>4. CASE WriteOriginal(p)
    <3>1. PICK c \in job[p].new : files[c] = "partial" /\ \A d \in job[p].all \ {c} : files[d] = "whole"
      BY <2>4 DEF FilesInv, WriteOriginal
    <3>2. PICK e \in job[p].new : /\ files[e] = "partial"
                                  /\ \/ /\ files' = [files EXCEPT ![e] = "whole"]
                                        /\ Goto(p, "register") /\ UNCHANGED job
                                     \/ /\ files' = Discard(job[p].new \ {e})
                                        /\ job' = [job EXCEPT ![p] = NoJob] /\ Goto(p, "serve")
      BY <2>4 DEF WriteOriginal
    <3>3. e = c BY <3>1, <3>2 DEF FilesInv
    <3>4. UNCHANGED db BY <2>4 DEF WriteOriginal
    <3>5. \A d \in db'.recs : files'[d] = "whole" BY <1>0, <3>2, <3>4 DEF FilesInv, Discard
    <3>6. e \in Contents BY <1>0
    <3>7. JobOK(p)'
      <4>1. CASE files' = [files EXCEPT ![e] = "whole"] /\ Goto(p, "register") /\ UNCHANGED job
        BY <1>0, <3>1, <3>3, <3>6, <4>1 DEF FilesInv, Goto
      <4>2. CASE job' = [job EXCEPT ![p] = NoJob] /\ Goto(p, "serve")
        BY <1>0, <4>2 DEF Goto, NoJob
      <4> QED BY <3>2, <4>1, <4>2
    <3> QED BY <2>2, <3>5, <3>7 DEF FilesInv
  <2>5. CASE Register(p)
    <3>1. job' = [job EXCEPT ![p] = NoJob] /\ Goto(p, "serve") BY <2>5 DEF Register
    <3>2. JobOK(p)' BY <1>0, <3>1 DEF Goto, NoJob
    <3>3. CASE db' = [db EXCEPT !.recs = @ \cup job[p].all] /\ UNCHANGED files
      <4>1. \A d \in job[p].all : files[d] = "whole" BY <2>5 DEF FilesInv, Register
      <4>2. db'.recs = db.recs \cup job[p].all BY <3>3 DEF TypeOK, Database
      <4> QED BY <2>2, <3>2, <3>3, <4>1, <4>2 DEF FilesInv
    <3>4. CASE files' = Discard(job[p].new) /\ UNCHANGED db
      <4>1. \A d \in db'.recs : files'[d] = "whole" BY <1>0, <3>4 DEF FilesInv, Discard
      <4> QED BY <2>2, <3>2, <4>1 DEF FilesInv
    <3> QED BY <2>5, <3>3, <3>4 DEF Register
  <2>6. CASE ChangeWork(p)
    <3>1. db'.recs = db.recs BY <2>6 DEF ChangeWork, TypeOK, Database
    <3> QED BY <2>6, <3>1 DEF ChangeWork, FilesInv
  <2> QED BY <1>1, <2>3, <2>4, <2>5, <2>6 DEF Serve
<1>2. ASSUME NEW p \in Procs, Lock(p) \/ Backup(p) \/ CheckVersion(p) \/ Stop(p) PROVE FilesInv'
  <2>1. UNCHANGED <<job, files, db>>
    BY <1>2 DEF Lock, Backup, Start, TakeMutex, CreatePidFile, UnlinkStalePid, WritePid, ReleasePid,
         CloseMutex, RequestBackup, TakeSnapshot, CopyOriginals, KeepArchive, CheckVersion, Stop, dataVars
  <2>2. \/ pc' = pc
        \/ pc[p] \notin {"writing", "register"} /\ \E l \in {"off", "mutex", "create", "unlink", "write",
             "release", "close", "locked", "archive", "ready"} : Goto(p, l)
    BY <1>2 DEF Lock, Backup, Start, TakeMutex, CreatePidFile, UnlinkStalePid, WritePid, ReleasePid,
         CloseMutex, RequestBackup, TakeSnapshot, CopyOriginals, KeepArchive, CheckVersion, Stop
  <2> QED BY <1>0, <2>1, <2>2 DEF FilesInv, Goto
<1>3. ASSUME NEW p \in Procs, OpenDatabase(p) \/ Recover(p) \/ Kill(p) PROVE FilesInv'
  <2>1. db'.recs = db.recs /\ files' = files
    BY <1>3 DEF OpenDatabase, Recover, Kill, TypeOK, Database, dataVars
  <2>2. CASE OpenDatabase(p) \/ Recover(p)
    BY <1>0, <2>1, <2>2 DEF FilesInv, OpenDatabase, Recover, Goto
  <2>3. CASE Kill(p) BY <1>0, <2>1, <2>3 DEF FilesInv, Kill, Goto, NoJob
  <2> QED BY <1>3, <2>2, <2>3
<1>4. CASE Restore
  BY <1>4 DEF Restore, StartRestore, ExtractOriginal, CopyDatabase, FinishRestore, RemoveFolder,
       OpenFolder, dataVars, FilesInv
<1>5. CASE UNCHANGED vars BY <1>5 DEF vars, FilesInv
<1> QED BY <1>1, <1>2, <1>3, <1>4, <1>5 DEF Next, Launch

LEMMA ArchivesStep == ASSUME TypeOK, ArchivesInv, [Next]_vars PROVE ArchivesInv'
<1> DEFINE WorkOK(w) ==
       /\ w.at \in {"copying", "built"} => "filing" \notin w.copy.work
       /\ w.at = "built" => w.copy.originals = w.copy.recs
<1>0. worker \in [Procs -> [at : {"idle", "started", "copying", "built", "failed"}, copy : Archive]]
  BY DEF TypeOK
<1>1. ASSUME NEW p \in Procs, TakeSnapshot(p) PROVE ArchivesInv'
  BY <1>0, <1>1 DEF ArchivesInv, TakeSnapshot, Pausing
<1>2. ASSUME NEW p \in Procs, CopyOriginals(p) PROVE ArchivesInv'
  <2>1. worker[p].at = "copying" /\ UNCHANGED archives BY <1>2 DEF CopyOriginals
  <2>2. worker[p].copy \in [ver : 0..2, recs : SUBSET Contents,
                           work : SUBSET {"turn", "filing"}, originals : SUBSET Contents]
    BY <1>0 DEF Archive
  <2>3. \A q \in Procs : worker'[q] = worker[q] \/ WorkOK(worker'[q])
    <3>1. "filing" \notin worker[p].copy.work BY <2>1 DEF ArchivesInv
    <3>2. CASE worker' = [worker EXCEPT ![p] =
                 [at |-> "built", copy |-> [@.copy EXCEPT !.originals = worker[p].copy.recs]]]
      <4>1. worker'[p].copy = [worker[p].copy EXCEPT !.originals = worker[p].copy.recs] BY <1>0, <3>2
      <4>2. worker'[p].copy.work = worker[p].copy.work /\ worker'[p].copy.recs = worker[p].copy.recs
            /\ worker'[p].copy.originals = worker[p].copy.recs BY <2>2, <4>1
      <4> QED BY <1>0, <3>1, <3>2, <4>2
    <3>3. CASE worker' = [worker EXCEPT ![p].at = "failed"] BY <1>0, <3>3
    <3> QED BY <1>2, <3>2, <3>3 DEF CopyOriginals
  <2> QED BY <2>1, <2>3 DEF ArchivesInv
<1>3. ASSUME NEW p \in Procs, KeepArchive(p) PROVE ArchivesInv'
  <2>1. \A a \in archives' : Sound(a) BY <1>3 DEF ArchivesInv, KeepArchive, Sound
  <2>2. \A q \in Procs : worker'[q] = worker[q] \/ WorkOK(worker'[q])
    BY <1>0, <1>3 DEF KeepArchive, NoWork
  <2> QED BY <2>1, <2>2 DEF ArchivesInv
<1>4. ASSUME NEW p \in Procs, CheckVersion(p) \/ RequestBackup(p) \/ Stop(p) \/ Kill(p)
      PROVE ArchivesInv'
  <2>1. UNCHANGED archives BY <1>4 DEF CheckVersion, RequestBackup, Stop, Kill
  <2>2. \A q \in Procs : worker'[q] = worker[q] \/ worker'[q].at \in {"started", "idle"}
    BY <1>0, <1>4 DEF CheckVersion, RequestBackup, Stop, Kill, NoWork
  <2> QED BY <2>1, <2>2 DEF ArchivesInv
<1>5. ASSUME NEW p \in Procs, Lock(p) \/ OpenDatabase(p) \/ Recover(p) \/ Serve(p) PROVE ArchivesInv'
  BY <1>5 DEF ArchivesInv, Lock, Start, TakeMutex, CreatePidFile, UnlinkStalePid, WritePid, ReleasePid,
       CloseMutex, OpenDatabase, Recover, Serve, StoreOriginal, WriteOriginal, Register, ChangeWork
<1>6. CASE Restore \/ UNCHANGED vars
  BY <1>6 DEF ArchivesInv, Restore, StartRestore, ExtractOriginal, CopyDatabase, FinishRestore,
       RemoveFolder, OpenFolder, vars
<1> QED BY <1>1, <1>2, <1>3, <1>4, <1>5, <1>6 DEF Next, Launch, Backup

LEMMA UpgradeStep == ASSUME TypeOK, HoldersInv, UpgradeInv, [Next]_vars PROVE UpgradeInv'
<1>0. /\ worker \in [Procs -> [at : {"idle", "started", "copying", "built", "failed"}, copy : Archive]]
      /\ pc \in [Procs -> Using \cup {"off", "mutex", "create", "unlink", "write", "release", "close"}]
      /\ db \in Database
  BY DEF TypeOK
<1>1. archives \subseteq archives'
  <2>1. ASSUME NEW p \in Procs, KeepArchive(p) PROVE archives \subseteq archives' BY <2>1 DEF KeepArchive
  <2>2. \/ \E p \in Procs : KeepArchive(p)
        \/ UNCHANGED archives
    BY DEF Next, vars, Lock, Launch, Backup, Serve, Start, TakeMutex, CreatePidFile, UnlinkStalePid, WritePid,
       ReleasePid, CloseMutex, CheckVersion, OpenDatabase, Recover, Stop, Kill, RequestBackup,
       TakeSnapshot, CopyOriginals, StoreOriginal, WriteOriginal, Register, ChangeWork,
       Restore, StartRestore, ExtractOriginal, CopyDatabase, FinishRestore, RemoveFolder, OpenFolder
  <2> QED BY <2>1, <2>2
<1>2. \A v, r : Kept(v, r) => Kept(v, r)' BY <1>1 DEF Kept
<1> DEFINE StepOK(p) ==
      /\ pc[p] = "archive" /\ worker[p].at \in {"copying", "built"} =>
           worker[p].copy.ver = db.ver /\ worker[p].copy.recs = db.recs
      /\ pc[p] = "ready" => db.ver \in {0, Target[p]} \/ Kept(db.ver, db.recs)
<1>3. ASSUME NEW p \in Procs, OpenDatabase(p) \/ Recover(p) \/ Serve(p) PROVE UpgradeInv'
  <2>1. pc[p] \in Holding /\ (pc'[p] = pc[p] \/ pc'[p] \notin {"archive", "ready"})
        /\ pc[p] \notin {"archive"} /\ \A q \in Procs \ {p} : pc'[q] = pc[q]
    BY <1>0, <1>3 DEF OpenDatabase, Recover, Serve, StoreOriginal, WriteOriginal, Register, ChangeWork,
         Goto, Holding, Using
  <2>2. \A q \in Procs : pc'[q] \notin {"archive", "ready"} \/ q = p
    BY <2>1, OneHolder DEF Holding, Using
  <2>3. pc'[p] \notin {"archive", "ready"}
    BY <1>0, <1>3 DEF OpenDatabase, Recover, Serve, StoreOriginal, WriteOriginal, Register, ChangeWork, Goto
  <2>4. \A b \in before' : Kept(b.ver, b.recs)
    <3>1. CASE OpenDatabase(p)
      <4>1. db.ver \in {0, Target[p]} \/ Kept(db.ver, db.recs) BY <3>1 DEF UpgradeInv, OpenDatabase
      <4> QED BY <3>1, <4>1 DEF UpgradeInv, OpenDatabase
    <3>2. CASE ~OpenDatabase(p)
      BY <1>3, <3>2 DEF UpgradeInv, Recover, Serve, StoreOriginal, WriteOriginal, Register, ChangeWork
    <3> QED BY <3>1, <3>2
  <2>5. \A b \in before' : Kept(b.ver, b.recs)' BY <1>2, <2>4
  <2> QED BY <2>2, <2>3, <2>5 DEF UpgradeInv
<1>4. ASSUME UNCHANGED <<db, before>>, \A p \in Procs : StepOK(p)' PROVE UpgradeInv'
  BY <1>2, <1>4 DEF UpgradeInv
<1>5. ASSUME NEW p \in Procs, CheckVersion(p) PROVE UpgradeInv'
  <2>1. \A q \in Procs : StepOK(q)'
    BY <1>0, <1>2, <1>5 DEF UpgradeInv, CheckVersion, Goto, dataVars
  <2> QED BY <1>4, <1>5, <2>1 DEF CheckVersion, dataVars
<1>6. ASSUME NEW p \in Procs, TakeSnapshot(p) PROVE UpgradeInv'
  <2>1. \A q \in Procs : StepOK(q)' BY <1>0, <1>2, <1>6 DEF UpgradeInv, TakeSnapshot, dataVars
  <2> QED BY <1>4, <1>6, <2>1 DEF TakeSnapshot, dataVars
<1>7. ASSUME NEW p \in Procs, CopyOriginals(p) PROVE UpgradeInv'
  <2>0. UNCHANGED <<db, pc, before>> BY <1>7 DEF CopyOriginals, dataVars
  <2>1. \A q \in Procs :
          \/ worker'[q] = worker[q] \/ worker'[q].at = "failed"
          \/ /\ worker[q].at = "copying"
             /\ worker'[q].copy.ver = worker[q].copy.ver /\ worker'[q].copy.recs = worker[q].copy.recs
    BY <1>0, <1>7 DEF CopyOriginals, Archive
  <2>2. \A q \in Procs : StepOK(q)' BY <1>2, <2>0, <2>1 DEF UpgradeInv
  <2> QED BY <1>4, <2>0, <2>2
<1>8. ASSUME NEW p \in Procs, KeepArchive(p) PROVE UpgradeInv'
  <2>0. UNCHANGED <<db, before>> BY <1>8 DEF KeepArchive, dataVars
  <2>1. pc[p] = "archive" /\ worker[p].at = "built" => Kept(db.ver, db.recs)'
    BY <1>8, <2>0 DEF KeepArchive, Kept, UpgradeInv
  <2>2. pc'[p] = "ready" => pc[p] = "ready" \/ (pc[p] = "archive" /\ worker[p].at = "built")
    BY <1>0, <1>8 DEF KeepArchive, Goto
  <2>3. worker'[p].at = "idle" /\ \A q \in Procs \ {p} : pc'[q] = pc[q] /\ worker'[q] = worker[q]
    BY <1>0, <1>8 DEF KeepArchive, Goto, NoWork
  <2>4. \A q \in Procs : StepOK(q)' BY <1>2, <2>0, <2>1, <2>2, <2>3 DEF UpgradeInv
  <2> QED BY <1>4, <2>0, <2>4
<1>9. ASSUME NEW p \in Procs, Lock(p) \/ RequestBackup(p) \/ Stop(p) \/ Kill(p) PROVE UpgradeInv'
  <2>0. UNCHANGED <<db, before>>
    BY <1>9 DEF Lock, Start, TakeMutex, CreatePidFile, UnlinkStalePid, WritePid, ReleasePid, CloseMutex,
         RequestBackup, Stop, Kill, dataVars
  <2>1. \A q \in Procs : /\ pc'[q] = pc[q] \/ pc'[q] \notin {"archive", "ready"}
                         /\ worker'[q] = worker[q] \/ worker'[q].at \in {"started", "idle"}
    BY <1>0, <1>9 DEF Lock, Start, TakeMutex, CreatePidFile, UnlinkStalePid, WritePid, ReleasePid, CloseMutex,
         RequestBackup, Stop, Kill, Goto, NoWork
  <2>2. \A q \in Procs : StepOK(q)' BY <1>2, <2>0, <2>1 DEF UpgradeInv
  <2> QED BY <1>4, <2>0, <2>2
<1>10. CASE Restore \/ UNCHANGED vars
  <2>0. UNCHANGED <<db, before, pc, worker>>
    BY <1>10 DEF Restore, StartRestore, ExtractOriginal, CopyDatabase, FinishRestore,
       RemoveFolder, OpenFolder, vars, dataVars
  <2>1. \A q \in Procs : StepOK(q)' BY <1>2, <2>0 DEF UpgradeInv
  <2> QED BY <1>4, <2>0, <2>1
<1> QED BY <1>3, <1>5, <1>6, <1>7, <1>8, <1>9, <1>10 DEF Next, Launch, Backup

LEMMA FolderStep == ASSUME TypeOK, ArchivesInv, FolderInv, [Next]_vars PROVE FolderInv'
<1> DEFINE F == [from : Archive, stage : {"filling", "finished", "opened"},
                 originals : SUBSET Contents, db : Database \cup {None}]
<1>0. folder # None => folder \in F BY DEF TypeOK
<1> USE DEF FolderInv, Sound
<1>1. CASE StartRestore BY <1>1 DEF StartRestore, ArchivesInv
<1>2. CASE ExtractOriginal
  <2>1. PICK c \in folder.from.originals \ folder.originals :
          folder' = [folder EXCEPT !.originals = @ \cup {c}]
    BY <1>2 DEF ExtractOriginal
  <2>2. folder.stage = "filling" /\ folder # None BY <1>2 DEF ExtractOriginal
  <2>3. folder.db = None BY <2>1, <2>2
  <2> QED BY <1>0, <2>1, <2>2, <2>3
<1>3. CASE CopyDatabase
  <2> DEFINE d == [ver |-> folder.from.ver, recs |-> folder.from.recs, work |-> folder.from.work]
  <2>1. folder' = [folder EXCEPT !.db = d] /\ folder.stage = "filling" /\ folder # None
        /\ folder.originals = folder.from.originals
    BY <1>3 DEF CopyDatabase
  <2>2. folder'.db = d /\ folder'.from = folder.from /\ folder'.originals = folder.originals
        /\ folder'.stage = folder.stage
    BY <1>0, <2>1
  <2> QED BY <2>1, <2>2
<1>4. CASE FinishRestore
  <2>1. folder \in F /\ folder.stage = "filling" /\ folder.db # None /\ folder.db \in Database
        /\ folder # None
    BY <1>0, <1>4 DEF FinishRestore
  <2>2. CASE folder' = [folder EXCEPT !.db.work = @ \ {"turn"}]
    <3>1. folder'.db = [folder.db EXCEPT !.work = @ \ {"turn"}] /\ folder'.from = folder.from
          /\ folder'.originals = folder.originals /\ folder'.stage = "filling"
      BY <2>1, <2>2
    <3>2. folder'.db.work = folder.db.work \ {"turn"} /\ folder'.db.recs = folder.db.recs
      BY <2>1, <3>1 DEF Database
    <3> QED BY <2>1, <3>1, <3>2
  <2>3. CASE "turn" \notin folder.db.work /\ folder' = [folder EXCEPT !.stage = "finished"]
    <3>1. folder'.db = folder.db /\ folder'.from = folder.from /\ folder'.originals = folder.originals
      BY <2>1, <2>3
    <3> QED BY <2>1, <2>3, <3>1
  <2> QED BY <1>4, <2>2, <2>3 DEF FinishRestore
<1>5. CASE RemoveFolder BY <1>5 DEF RemoveFolder
<1>6. CASE OpenFolder
  <2>1. folder \in F /\ folder' = [folder EXCEPT !.stage = "opened"] /\ folder.stage # "filling"
        /\ folder # None
    BY <1>0, <1>6 DEF OpenFolder
  <2>2. folder'.db = folder.db /\ folder'.from = folder.from /\ folder'.originals = folder.originals
    BY <2>1
  <2> QED BY <2>1, <2>2
<1>7. ASSUME NEW p \in Procs, Lock(p) \/ Launch(p) \/ Backup(p) \/ Serve(p) PROVE FolderInv'
  BY <1>7 DEF Lock, Launch, Backup, Serve, Start, TakeMutex, CreatePidFile, UnlinkStalePid, WritePid,
       ReleasePid, CloseMutex, CheckVersion, OpenDatabase, Recover, Stop, Kill, RequestBackup,
       TakeSnapshot, CopyOriginals, KeepArchive, StoreOriginal, WriteOriginal, Register, ChangeWork
<1>8. CASE UNCHANGED vars BY <1>8 DEF vars
<1> QED BY <1>1, <1>2, <1>3, <1>4, <1>5, <1>6, <1>7, <1>8 DEF Next, Restore

-----------------------------------------------------------------------------
Inv == TypeOK /\ HoldersInv /\ FilesInv /\ ArchivesInv /\ UpgradeInv /\ FolderInv

LEMMA InitInv == Init => Inv
<1> SUFFICES ASSUME Init PROVE Inv OBVIOUS
<1>1. HoldersInv BY DEF Init, HoldersInv, Holding, Using
<1>2. FilesInv BY DEF Init, FilesInv, NoJob
<1>3. ArchivesInv BY DEF Init, ArchivesInv, NoWork
<1>4. UpgradeInv BY DEF Init, UpgradeInv
<1>5. FolderInv BY DEF Init, FolderInv
<1> QED BY <1>1, <1>2, <1>3, <1>4, <1>5, InitType DEF Inv

LEMMA InvStep == ASSUME Inv, [Next]_vars PROVE Inv'
BY TypeStep, HoldersStep, FilesStep, ArchivesStep, UpgradeStep, FolderStep DEF Inv

LEMMA Invariant == Spec => []Inv
BY InitInv, InvStep, PTL DEF Spec

\* Every migrated database is kept as it was, in an archive made before its migration.
THEOREM UpgradesRecoverable == Spec => []UpgradesAreRecoverable
<1>1. Inv => UpgradesAreRecoverable BY DEF Inv, UpgradeInv, UpgradesAreRecoverable, Kept
<1> QED BY <1>1, Invariant, PTL

\* Every original that a record names is on disk and whole.
THEOREM OriginalsWhole == Spec => []RegisteredOriginalsAreWhole
<1>1. Inv => RegisteredOriginalsAreWhole BY DEF Inv, FilesInv, RegisteredOriginalsAreWhole
<1> QED BY <1>1, Invariant, PTL

\* A recovered folder that was opened is complete and holds no work that goes on by itself.
THEOREM FoldersWhole == Spec => []RecoveredFoldersAreWhole
<1>1. Inv => RecoveredFoldersAreWhole
  <2> SUFFICES ASSUME Inv, folder # None, folder.stage = "opened"
               PROVE  folder.db.recs \subseteq folder.originals /\ folder.db.work = {}
    BY DEF RecoveredFoldersAreWhole
  <2>1. folder.db # None /\ "turn" \notin folder.db.work /\ "filing" \notin folder.db.work
        /\ folder.db.recs = folder.originals
    BY DEF Inv, FolderInv, Sound
  <2>2. folder.db.work \subseteq {"turn", "filing"} BY <2>1 DEF Inv, TypeOK, Database
  <2> QED BY <2>1, <2>2
<1> QED BY <1>1, Invariant, PTL

-----------------------------------------------------------------------------
(* The lock implements exclusive use *)

users == {p \in Procs : pc[p] \in Using}

LEMMA ContractInit == Init => Exclusive!Init
BY DEF Init, Exclusive!Init, Using

\* A step that moves one process between places inside or outside use changes users so.
LEMMA Moved ==
  ASSUME NEW p \in Procs, NEW l, pc \in [Procs -> Using \cup {"off", "mutex", "create", "unlink",
         "write", "release", "close"}], Goto(p, l)
  PROVE  users' = IF l \in Using THEN users \cup {p} ELSE users \ {p}
BY DEF users, Goto, Using

LEMMA ContractStep == ASSUME Inv, [Next]_vars PROVE [Exclusive!Next]_(Exclusive!vars)
<1> USE DEF Inv
<1>0. pc \in [Procs -> Using \cup {"off", "mutex", "create", "unlink", "write", "release", "close"}]
  BY DEF TypeOK
<1>1. \A p \in Procs : pc[p] \in Using => users = {p}
  <2> SUFFICES ASSUME NEW p \in Procs, pc[p] \in Using PROVE users = {p} OBVIOUS
  <2>1. \A q \in users : q = p BY OneHolder DEF users, Holding
  <2>2. p \in users BY DEF users
  <2> QED BY <2>1, <2>2
<1>2. ASSUME users' = users, dataVars' = dataVars PROVE [Exclusive!Next]_(Exclusive!vars)
  BY <1>2 DEF Exclusive!vars, users
<1>3. ASSUME NEW p \in Procs, users = {p}, users' = users PROVE [Exclusive!Next]_(Exclusive!vars)
  <2>1. CASE dataVars' = dataVars BY <1>2, <1>3, <2>1
  <2>2. CASE dataVars' # dataVars
    <3>1. Exclusive!Use(p) BY <1>3, <2>2 DEF Exclusive!Use, users
    <3> QED BY <3>1 DEF Exclusive!Next
  <2> QED BY <2>1, <2>2
<1>4. ASSUME NEW p \in Procs, users = {p}, users' = {}, dataVars' = dataVars
      PROVE [Exclusive!Next]_(Exclusive!vars)
  <2>1. Exclusive!Leave(p) BY <1>4 DEF Exclusive!Leave, users
  <2> QED BY <2>1 DEF Exclusive!Next
<1>5. ASSUME NEW p \in Procs, Lock(p) PROVE [Exclusive!Next]_(Exclusive!vars)
  <2>0. dataVars' = dataVars
    BY <1>5 DEF Lock, Start, TakeMutex, CreatePidFile, UnlinkStalePid, WritePid, ReleasePid, CloseMutex
  <2>1. CASE WritePid(p)
    <3>1. users = {}
      <4>1. \A q \in users : q = p BY <2>1, OneHolder DEF WritePid, users, Holding
      <4>2. p \notin users BY <2>1 DEF WritePid, users, Using
      <4> QED BY <4>1, <4>2
    <3>2. users' = {p} BY <1>0, <2>1, <3>1, Moved DEF WritePid, Using
    <3>3. Exclusive!Enter(p) BY <2>0, <3>1, <3>2 DEF Exclusive!Enter, users
    <3> QED BY <3>3 DEF Exclusive!Next
  <2>2. CASE ~WritePid(p)
    <3>1. pc[p] \notin Using /\ \E l : l \notin Using /\ Goto(p, l)
      BY <1>5, <2>2 DEF Lock, Start, TakeMutex, CreatePidFile, UnlinkStalePid, ReleasePid,
           CloseMutex, Using
    <3>2. p \notin users BY <3>1 DEF users
    <3>3. users' = users BY <1>0, <3>1, <3>2, Moved
    <3> QED BY <1>2, <2>0, <3>3
  <2> QED BY <2>1, <2>2
<1>6. ASSUME NEW p \in Procs, Launch(p) PROVE [Exclusive!Next]_(Exclusive!vars)
  <2>1. CASE CheckVersion(p)
    <3>1. users = {p} /\ dataVars' = dataVars BY <1>1, <2>1 DEF CheckVersion, Using
    <3>2. users' = {p} \/ users' = {}
      BY <1>0, <2>1, <3>1, Moved DEF CheckVersion, Using
    <3> QED BY <1>3, <1>4, <3>1, <3>2
  <2>2. CASE OpenDatabase(p) \/ Recover(p)
    <3>1. users = {p} BY <1>1, <2>2 DEF OpenDatabase, Recover, Using
    <3>2. CASE Goto(p, "opened") \/ Goto(p, "serve")
      <4>1. users' = users BY <1>0, <3>1, <3>2, Moved DEF Using
      <4> QED BY <1>3, <3>1, <4>1
    <3>3. CASE Goto(p, "release") /\ UNCHANGED db
      <4>1. users' = {} BY <1>0, <3>1, <3>3, Moved DEF Using
      <4>2. dataVars' = dataVars BY <2>2, <3>3 DEF OpenDatabase, Recover, dataVars
      <4> QED BY <1>4, <3>1, <4>1, <4>2
    <3> QED BY <2>2, <3>2, <3>3 DEF OpenDatabase, Recover
  <2>3. CASE Stop(p)
    <3>1. users = {p} /\ dataVars' = dataVars BY <1>1, <2>3 DEF Stop, Using
    <3>2. users' = {} BY <1>0, <2>3, <3>1, Moved DEF Stop, Using
    <3> QED BY <1>4, <3>1, <3>2
  <2>4. CASE Kill(p)
    <3>1. users' = users \ {p} /\ dataVars' = dataVars
      BY <1>0, <2>4, Moved DEF Kill, Using
    <3>2. CASE p \in users
      <4>1. users = {p} BY <1>1, <3>2 DEF users
      <4> QED BY <1>4, <3>1, <4>1
    <3>3. CASE p \notin users BY <1>2, <3>1, <3>3
    <3> QED BY <3>2, <3>3
  <2> QED BY <1>6, <2>1, <2>2, <2>3, <2>4 DEF Launch
<1>7. ASSUME NEW p \in Procs, Serve(p) PROVE [Exclusive!Next]_(Exclusive!vars)
  <2>1. users = {p}
    BY <1>1, <1>7 DEF Serve, StoreOriginal, WriteOriginal, Register, ChangeWork, Using
  <2>2. pc' = pc \/ \E l \in Using : Goto(p, l)
    BY <1>7 DEF Serve, StoreOriginal, WriteOriginal, Register, ChangeWork, Using
  <2>3. users' = users BY <1>0, <2>1, <2>2, Moved DEF users
  <2> QED BY <1>3, <2>1, <2>3
<1>8. ASSUME NEW p \in Procs, Backup(p) PROVE [Exclusive!Next]_(Exclusive!vars)
  <2>0. dataVars' = dataVars
    BY <1>8 DEF Backup, RequestBackup, TakeSnapshot, CopyOriginals, KeepArchive
  <2>1. CASE pc' = pc BY <1>2, <2>0, <2>1 DEF users
  <2>2. CASE pc' # pc
    <3>1. pc[p] = "archive" /\ (Goto(p, "ready") \/ Goto(p, "release"))
      BY <1>8, <2>2 DEF Backup, RequestBackup, TakeSnapshot, CopyOriginals, KeepArchive
    <3>2. users = {p} BY <1>1, <3>1 DEF Using
    <3>3. users' = {p} \/ users' = {} BY <1>0, <3>1, <3>2, Moved DEF Using
    <3> QED BY <1>3, <1>4, <2>0, <3>2, <3>3
  <2> QED BY <2>1, <2>2
<1>9. CASE Restore \/ UNCHANGED vars
  <2>1. pc' = pc /\ dataVars' = dataVars
    BY <1>9 DEF Restore, StartRestore, ExtractOriginal, CopyDatabase, FinishRestore,
       RemoveFolder, OpenFolder, vars, dataVars
  <2> QED BY <1>2, <2>1 DEF users
<1> QED BY <1>5, <1>6, <1>7, <1>8, <1>9 DEF Next

\* The launcher lock implements exclusive use of the workspace.
THEOREM ExclusiveUseImplemented == Spec => ImplementsExclusiveUse
<1>1. Inv /\ [Next]_vars => [Exclusive!Next]_(Exclusive!vars) BY ContractStep
<1> QED BY <1>1, ContractInit, Invariant, PTL DEF Spec, ImplementsExclusiveUse, Exclusive!Spec
=============================================================================
