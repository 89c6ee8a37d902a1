------------------------ MODULE ImportOrganizationProofs ------------------------
(***************************************************************************)
(* Proofs about ImportOrganization, for any batches, files, places and     *)
(* number of files per call.                                               *)
(***************************************************************************)
EXTENDS ImportOrganization, WellFoundedInduction, FiniteSetTheorems, TLAPS

LEMMA ConstantFacts ==
  /\ BatchOf \in [Entries -> Batches] /\ Retained \subseteq Entries
  /\ None \notin Batches /\ None \notin Choices
  /\ "unfiled" \in Choices /\ Reserved \subseteq Choices /\ Places \subseteq Choices
  /\ Outcomes \subseteq {"waiting", "ready", "error", "skipped", "policy"}
BY OrganizationAssumption DEF Choices

\* The parts of TypeOK, so that a step is taken part by part.
Columns ==
  /\ batch \in [Batches -> {"review", "committed", "discarded"}]
  /\ file \in [Entries -> {"waiting", "ready", "error", "skipped", "policy"}]
  /\ choice \in [Entries -> Choices]
  /\ job \in [Batches -> {"none", "running", "paused", "complete", "failed"}]
  /\ suggested \in [Entries -> Choices \union {None}]
  /\ before \in [Entries -> Choices \union {None}]
  /\ sure \subseteq Entries /\ applied \subseteq Entries /\ protected \subseteq Entries
Counters ==
  /\ attempts \in [Entries -> 0..2]
  /\ reviewed \in [Entries -> Choices \union {None}] /\ asks \in [Entries -> Nat]
  /\ uncertain \subseteq Batches
Memory ==
  /\ phase \in {"off", "loop", "call", "end"}
  /\ active \in Batches \union {None} /\ asked \subseteq Entries
Flags ==
  /\ up \in BOOLEAN /\ stopped \in BOOLEAN /\ timer \in BOOLEAN /\ again \in BOOLEAN
  /\ sameJob \in BOOLEAN /\ sameBatch \in BOOLEAN /\ aborted \in BOOLEAN /\ cut \in BOOLEAN

LEMMA Parts == TypeOK <=> Columns /\ Counters /\ Memory /\ Flags
BY Zenon DEF TypeOK, Columns, Counters, Memory, Flags

LEMMA NextFilesOpen ==
  ASSUME NEW b
  PROVE  NextFiles(b) \subseteq {e \in EntriesOf(b) : /\ file[e] = "ready" /\ suggested[e] = None
                                 /\ choice[e] \notin Reserved
                                 /\ attempts[e] \in {0, 1} /\ e \notin protected}
BY DEF NextFiles, FirstOf, Open

\* Every request keeps the types of the rows.
LEMMA UserColumns == ASSUME TypeOK, User PROVE Columns'
<1>0. Columns BY Parts
<1> USE ConstantFacts DEF Columns
<1>1. ASSUME NEW b \in Batches, Start(b) PROVE Columns'
  BY <1>0, <1>1, SMT DEF Start, Save, KeepJob, rows, results
<1>2. ASSUME NEW b \in Batches, Pause(b) PROVE Columns'
  BY <1>0, <1>2, SMT DEF Pause, Save, KeepJob, rows, results
<1>3. ASSUME NEW b \in Batches, Resume(b) PROVE Columns'
  <2>1. Clear(b, suggested, before, sure) \subseteq Entries
        /\ \A e \in Clear(b, suggested, before, sure) : suggested[e] \in Choices
    BY <1>0, SMT DEF Clear, EntriesOf
  <2> HIDE DEF Clear
  <2> QED BY <1>0, <1>3, <2>1, SMT DEF Resume, Save, PrepareClear
<1>4. ASSUME NEW b \in Batches, Apply(b) PROVE Columns'
  <2>1. Unapplied(b) \subseteq Entries /\ Unresolved(b) \subseteq Entries
        /\ \A e \in Unapplied(b) : suggested[e] \in Choices
    BY <1>0, SMT DEF Unapplied, Unresolved, EntriesOf
  <2> HIDE DEF Unapplied, Unresolved
  <2> QED BY <1>0, <1>4, <2>1, SMT DEF Apply, Save, Protect
<1>5. ASSUME NEW e \in Entries, NEW c \in Choices, Edit(e, c) PROVE Columns'
  BY <1>0, <1>5, SMT DEF Edit, Protect
<1> QED BY <1>1, <1>2, <1>3, <1>4, <1>5 DEF User

\* What happens to the files meanwhile keeps them too.
LEMMA StagingColumns == ASSUME TypeOK, Staging PROVE Columns'
<1>0. Columns BY Parts
<1> USE ConstantFacts DEF Columns
<1>1. ASSUME NEW e \in Entries, NEW o \in Outcomes, Process(e, o) PROVE Columns'
  BY <1>0, <1>1, SMT DEF Process, results
<1>2. ASSUME NEW b \in Batches, NEW retried \in SUBSET EntriesOf(b), ControlQueue(b, retried) PROVE Columns'
  BY <1>0, <1>2, SMT DEF ControlQueue, results
<1>3. ASSUME NEW b \in Batches, NEW status \in {"committed", "discarded"}, Finish(b, status)
      PROVE Columns'
  BY <1>0, <1>3, SMT DEF Finish, EntriesOf, results
<1> QED BY <1>1, <1>2, <1>3 DEF Staging

\* So do the worker and the process.
LEMMA WorkerColumns == ASSUME TypeOK, Worker \/ Stop \/ Exit \/ Launch PROVE Columns'
<1>0. Columns /\ Memory BY Parts
<1> USE ConstantFacts DEF Columns, Memory
<1>1. ASSUME NEW b \in Batches, LoopFails(b) \/ LoopCompletes(b) PROVE Columns'
  BY <1>0, <1>1, SMT DEF LoopFails, LoopCompletes, Save, rows, results
<1>2. ASSUME NEW b \in Batches, LoopWaits(b) \/ BeginCall(b) PROVE Columns'
  BY <1>0, <1>2, SMT DEF LoopWaits, BeginCall, rows, results
<1>3. ASSUME NEW place \in [asked -> (Choices \ {"skip"}) \union {None}],
             NEW certain \in SUBSET asked, Answer(place, certain)
      PROVE Columns'
  <2>1. suggested' \in [Entries -> Choices \union {None}]
        /\ before' \in [Entries -> Choices \union {None}]
        /\ sure' \subseteq Entries
    BY <1>0, <1>3, SMT DEF Answer
  <2>2. PrepareClear(active, suggested', before', sure')
    BY <1>3 DEF Answer
  <2>3. Clear(active, suggested', before', sure') \subseteq Entries
        /\ \A e \in Clear(active, suggested', before', sure') : suggested'[e] \in Choices
    BY <1>0, <2>1, SMT DEF Clear, EntriesOf
  <2>4. choice' \in [Entries -> Choices] /\ applied' \subseteq Entries
    <3> HIDE DEF Clear
    <3> QED BY <1>0, <2>2, <2>3, SMT DEF PrepareClear
  <2>5. UNCHANGED <<batch, file, job, protected>> BY <1>3 DEF Answer
  <2> QED BY <1>0, <2>1, <2>4, <2>5
<1>4. CASE CallFails BY <1>0, <1>4, SMT DEF CallFails, FailureIsOurs, Running, rows, results
<1>5. CASE LoopEnds \/ TaskEnds \/ TimerFires
  BY <1>0, <1>5, SMT DEF LoopEnds, TaskEnds, TimerFires, rows, results
<1>6. CASE Stop BY <1>0, <1>6, SMT DEF Stop, Save, KeepJob, Running, rows, results
<1>7. CASE Exit BY <1>0, <1>7, SMT DEF Exit, rows, results
<1>8. CASE Launch BY <1>0, <1>8, SMT DEF Launch, RecoveredStatus, rows, results
<1> QED BY <1>1, <1>2, <1>3, <1>4, <1>5, <1>6, <1>7, <1>8 DEF Worker, Loop, ModelAnswers

LEMMA CountersStep == ASSUME TypeOK, Next PROVE Counters'
<1>0. Columns /\ Counters /\ Memory BY Parts
<1> USE ConstantFacts DEF Counters
<1>1. ASSUME NEW b \in Batches, Start(b) \/ Pause(b) \/ Resume(b) PROVE Counters'
  BY <1>0, <1>1, SMT DEF Start, Pause, Resume, results
<1>2. ASSUME NEW b \in Batches, Apply(b) PROVE Counters'
  <2>1. choice' \in [Entries -> Choices] BY <1>2, UserColumns DEF Columns, User
  <2>2. reviewed' \in [Entries -> Choices \union {None}]
    BY <1>0, <1>2, <2>1, SMT DEF Apply
  <2> QED BY <1>0, <1>2, <2>2 DEF Apply
<1>3. ASSUME NEW e \in Entries, NEW c \in Choices, Edit(e, c) PROVE Counters'
  BY <1>0, <1>3, SMT DEF Edit
<1>4. ASSUME NEW e \in Entries, NEW o \in Outcomes, Process(e, o) PROVE Counters'
  BY <1>0, <1>4, SMT DEF Process, results, history
<1>5. ASSUME NEW b \in Batches, NEW retried \in SUBSET EntriesOf(b), ControlQueue(b, retried) PROVE Counters'
  BY <1>0, <1>5, SMT DEF ControlQueue, results, history
<1>6. ASSUME NEW b \in Batches, NEW status \in {"committed", "discarded"}, Finish(b, status)
      PROVE Counters'
  BY <1>0, <1>6, SMT DEF Finish, results, history
<1>7. ASSUME NEW b \in Batches, LoopWaits(b) \/ LoopFails(b) \/ LoopCompletes(b) \/ BeginCall(b)
      PROVE Counters'
  BY <1>0, <1>7, SMT DEF LoopWaits, LoopFails, LoopCompletes, BeginCall, results, history
<1>8. ASSUME NEW place \in [asked -> (Choices \ {"skip"}) \union {None}],
             NEW certain \in SUBSET asked, Answer(place, certain)
      PROVE Counters'
  <2>1. attempts' \in [Entries -> 0..2] BY <1>0, <1>8, SMT DEF Answer
  <2> QED BY <1>0, <1>8, <2>1 DEF Answer
<1>9. CASE CallFails \/ LoopEnds \/ TaskEnds \/ TimerFires \/ Stop \/ Launch
  BY <1>0, <1>9, SMT DEF CallFails, LoopEnds, TaskEnds, TimerFires, Stop, Launch, results, history
<1>10. CASE Exit BY <1>0, <1>10, SMT DEF Exit, Memory, results
<1> QED BY <1>1, <1>2, <1>3, <1>4, <1>5, <1>6, <1>7, <1>8, <1>9, <1>10
        DEF Next, User, Staging, Worker, Loop, ModelAnswers

LEMMA MemoryStep == ASSUME TypeOK, Next PROVE Memory'
<1>0. Memory BY Parts
<1> USE ConstantFacts DEF Memory
<1>1. ASSUME NEW b \in Batches, Start(b) \/ Pause(b) \/ Resume(b) \/ Apply(b) PROVE Memory'
  BY <1>0, <1>1, SMT DEF Start, Pause, Resume, Apply, Wake, worker, call
<1>2. ASSUME NEW e \in Entries, NEW c \in Choices, Edit(e, c) PROVE Memory'
  BY <1>0, <1>2, SMT DEF Edit, worker, call
<1>3. CASE Staging BY <1>0, <1>3, SMT DEF Staging, Process, ControlQueue, Finish, worker, call
<1>4. ASSUME NEW b \in Batches, BeginCall(b) PROVE Memory'
  BY <1>0, <1>4, NextFilesOpen, SMT DEF BeginCall, EntriesOf
<1>5. ASSUME NEW b \in Batches, LoopWaits(b) \/ LoopFails(b) \/ LoopCompletes(b) PROVE Memory'
  BY <1>0, <1>5, SMT DEF LoopWaits, LoopFails, LoopCompletes, worker, call
<1>6. CASE ModelAnswers BY <1>0, <1>6, SMT DEF ModelAnswers, Answer, EndCall
<1>7. CASE CallFails \/ LoopEnds \/ TaskEnds \/ TimerFires
  BY <1>0, <1>7, SMT DEF CallFails, EndCall, LoopEnds, TaskEnds, TimerFires, worker, call
<1>8. CASE Stop \/ Exit \/ Launch
  BY <1>0, <1>8, SMT DEF Stop, Exit, EndCall, Launch, worker, call
<1> QED BY <1>1, <1>2, <1>3, <1>4, <1>5, <1>6, <1>7, <1>8 DEF Next, User, Worker, Loop

\* The flags stay Boolean whatever is combined into them.
LEMMA FlagsStep == ASSUME TypeOK, Next PROVE Flags'
<1>0. Flags BY Parts
<1> USE DEF Flags
<1>1. ASSUME NEW b \in Batches, Start(b) PROVE Flags'
  BY <1>0, <1>1, Zenon DEF Start, Save, KeepJob, Wake, call
<1>2. ASSUME NEW b \in Batches, Pause(b) PROVE Flags'
  BY <1>0, <1>2, Zenon DEF Pause, Save, KeepJob, worker
<1>3. ASSUME NEW b \in Batches, Resume(b) PROVE Flags'
  BY <1>0, <1>3, Zenon DEF Resume, Save, Bump, Wake, call
<1>4. ASSUME NEW b \in Batches, Apply(b) PROVE Flags'
  BY <1>0, <1>4, Zenon DEF Apply, Save, Bump, worker, call
<1>5. ASSUME NEW e \in Entries, NEW c \in Choices, Edit(e, c) PROVE Flags'
  BY <1>0, <1>5, Zenon DEF Edit, Bump, worker, call
<1>6. ASSUME NEW e \in Entries, NEW o \in Outcomes, Process(e, o) PROVE Flags'
  BY <1>0, <1>6, Zenon DEF Process, Bump, worker, call, history
<1>7. ASSUME NEW b \in Batches, NEW retried \in SUBSET EntriesOf(b), ControlQueue(b, retried) PROVE Flags'
  BY <1>0, <1>7, Zenon DEF ControlQueue, Bump, worker, call, history
<1>8. ASSUME NEW b \in Batches, NEW status \in {"committed", "discarded"}, Finish(b, status)
      PROVE Flags'
  BY <1>0, <1>8, Zenon DEF Finish, Bump, worker, call, history
<1>9. ASSUME NEW b \in Batches, LoopWaits(b) \/ LoopFails(b) PROVE Flags'
  BY <1>0, <1>9, Zenon DEF LoopWaits, LoopFails, Save, call, history
<1>10. ASSUME NEW b \in Batches, LoopCompletes(b) \/ BeginCall(b) PROVE Flags'
  BY <1>0, <1>10, Zenon DEF LoopCompletes, BeginCall, Save, worker, call, history
<1>11. CASE ModelAnswers BY <1>0, <1>11, Zenon DEF ModelAnswers, Answer, EndCall
<1>12. CASE CallFails BY <1>0, <1>12, Zenon DEF CallFails, EndCall
<1>13. CASE LoopEnds \/ TaskEnds BY <1>0, <1>13, Zenon DEF LoopEnds, TaskEnds, call, history
<1>14. CASE TimerFires BY <1>0, <1>14, Zenon DEF TimerFires, call, history
<1>15. CASE Stop BY <1>0, <1>15, Zenon DEF Stop, Save, KeepJob, history
<1>16. CASE Exit BY <1>0, <1>16, Zenon DEF Exit, EndCall
<1>17. CASE Launch BY <1>0, <1>17, Zenon DEF Launch, worker, call, history
<1> QED BY <1>1, <1>2, <1>3, <1>4, <1>5, <1>6, <1>7, <1>8, <1>9, <1>10, <1>11, <1>12,
           <1>13, <1>14, <1>15, <1>16, <1>17, Zenon DEF Next, User, Staging, Worker, Loop

LEMMA InitOrganization == Init => TypeOK
<1> SUFFICES ASSUME Init PROVE TypeOK OBVIOUS
<1>1. Columns BY ConstantFacts, SMT DEF Init, Columns
<1>2. Counters BY SMT DEF Init, Counters
<1>3. Memory BY SMT DEF Init, Memory
<1>4. Flags BY Zenon DEF Init, Flags
<1> QED BY <1>1, <1>2, <1>3, <1>4, Parts

LEMMA OrganizationStep == ASSUME TypeOK, Next PROVE Columns' /\ Counters' /\ Memory' /\ Flags'
BY UserColumns, StagingColumns, WorkerColumns, CountersStep, MemoryStep, FlagsStep DEF Next

\* Jobs, suggestions, attempts and the worker's memory keep their types.
THEOREM OrganizationTypeCorrect == Spec => []TypeOK
<1>1. ASSUME TypeOK, Next PROVE Columns' /\ Counters' /\ Memory' /\ Flags'
  BY <1>1, OrganizationStep
<1>2. ASSUME TypeOK, UNCHANGED vars PROVE TypeOK'
  BY <1>2, Zenon DEF vars, rows, results, worker, call, history, TypeOK
<1> QED BY InitOrganization, Parts, <1>1, <1>2, PTL DEF Spec

\* Starting and resuming look for another running job, and a batch is finished
\* only while its job does not run.
LEMMA OneJobStep == ASSUME TypeOK, OneJobRuns, [Next]_vars PROVE OneJobRuns'
<1>0. job \in [Batches -> {"none", "running", "paused", "complete", "failed"}]
      /\ batch \in [Batches -> {"review", "committed", "discarded"}]
  BY DEF TypeOK
<1> USE DEF OneJobRuns
<1>1. ASSUME NEW b \in Batches, Start(b) PROVE OneJobRuns'
  BY <1>0, <1>1, SMT DEF Start, Save, KeepJob, Running, rows
<1>2. ASSUME NEW b \in Batches, Pause(b) PROVE OneJobRuns'
  BY <1>0, <1>2, SMT DEF Pause, Save, KeepJob, rows
<1>3. ASSUME NEW b \in Batches, Resume(b) PROVE OneJobRuns'
  BY <1>0, <1>3, SMT DEF Resume, OnlyRunner, Save, Running
<1>4. ASSUME NEW b \in Batches, Apply(b) PROVE OneJobRuns'
  BY <1>0, <1>4, SMT DEF Apply, Save
<1>5. ASSUME NEW e \in Entries, NEW c \in Choices, Edit(e, c) PROVE OneJobRuns'
  BY <1>0, <1>5, SMT DEF Edit
<1>6. CASE Staging BY <1>0, <1>6, SMT DEF Staging, Process, ControlQueue, Finish
<1>7. ASSUME NEW b \in Batches, LoopFails(b) \/ LoopCompletes(b) PROVE OneJobRuns'
  BY <1>0, <1>7, SMT DEF LoopFails, LoopCompletes, Save, rows
<1>8. ASSUME NEW b \in Batches, LoopWaits(b) \/ BeginCall(b) PROVE OneJobRuns'
  BY <1>0, <1>8, SMT DEF LoopWaits, BeginCall, rows
<1>9. CASE ModelAnswers BY <1>0, <1>9, SMT DEF ModelAnswers, Answer
<1>10. CASE CallFails BY <1>0, <1>10, SMT DEF CallFails, FailureIsOurs, Running, rows
<1>11. CASE LoopEnds \/ TaskEnds \/ TimerFires \/ Exit \/ UNCHANGED vars
  BY <1>0, <1>11, SMT DEF LoopEnds, TaskEnds, TimerFires, Exit, vars, rows
<1>12. CASE Stop BY <1>0, <1>12, SMT DEF Stop, Save, KeepJob, Running, rows
<1>13. CASE Launch BY <1>0, <1>13, SMT DEF Launch, RecoveredStatus, rows
<1> QED BY <1>1, <1>2, <1>3, <1>4, <1>5, <1>6, <1>7, <1>8, <1>9, <1>10, <1>11, <1>12, <1>13
        DEF Next, User, Worker, Loop

\* At most one job runs, and only for a batch still in review.
THEOREM OneJob == Spec => []OneJobRuns
<1>1. Init => OneJobRuns BY SMT DEF Init, OneJobRuns
<1> QED BY <1>1, OneJobStep, OrganizationTypeCorrect, PTL DEF Spec

\* What the user decided is marked, as long as the batch can still change.
ReviewedMeansProtected ==
  \A e \in Entries : reviewed[e] # None => e \in protected \/ batch[BatchOf[e]] # "review"
ReviewInv == ReviewedChoicesKept /\ ReviewedMeansProtected

\* Requests mark what they decide; suggestions pass over what is marked.
LEMMA ReviewStep == ASSUME TypeOK, ReviewInv, [Next]_vars PROVE ReviewInv'
<1>0. Columns /\ Counters BY Parts
<1> USE ConstantFacts DEF Columns, Counters, ReviewInv, ReviewedChoicesKept, ReviewedMeansProtected
<1>1. ASSUME NEW b \in Batches, Start(b) \/ Pause(b) PROVE ReviewInv'
  BY <1>0, <1>1, SMT DEF Start, Pause, rows, results
<1>2. ASSUME NEW b \in Batches, Resume(b) PROVE ReviewInv'
  BY <1>0, <1>2, SMT DEF Resume, PrepareClear, Clear, EntriesOf
<1>3. ASSUME NEW b \in Batches, Apply(b) PROVE ReviewInv'
  <2>1. Unapplied(b) \subseteq EntriesOf(b) \ protected
        /\ Unresolved(b) \subseteq EntriesOf(b) \ protected
    BY DEF Unapplied, Unresolved
  <2> HIDE DEF Unapplied, Unresolved
  <2>2. \A e \in Entries : e \in protected => choice'[e] = choice[e]
    BY <1>0, <1>3, <2>1, SMT DEF Apply
  <2>3. protected \subseteq protected' /\ batch' = batch
        /\ reviewed' = [e \in Entries |->
             IF e \in protected' \ protected THEN choice'[e] ELSE reviewed[e]]
    BY <1>3 DEF Apply, Protect
  <2>4. \A e \in Entries : reviewed[e] # None /\ e \notin protected
          => batch[BatchOf[e]] # "review"
    BY <1>0
  <2>5. \A e \in Entries : e \notin EntriesOf(b) => choice'[e] = choice[e]
    BY <1>0, <1>3, <2>1, SMT DEF Apply
  <2>6. \A e \in EntriesOf(b) : batch[BatchOf[e]] = "review"
    BY <1>3 DEF Apply, EntriesOf
  <2> QED BY <1>0, <2>2, <2>3, <2>4, <2>5, <2>6, SMT DEF EntriesOf
<1>4. ASSUME NEW e \in Entries, NEW c \in Choices, Edit(e, c) PROVE ReviewInv'
  BY <1>0, <1>4, SMT DEF Edit, Protect
<1>5. ASSUME NEW e \in Entries, NEW o \in Outcomes, Process(e, o) PROVE ReviewInv'
  BY <1>0, <1>5, SMT DEF Process, results, history
<1>6. ASSUME NEW b \in Batches, NEW retried \in SUBSET EntriesOf(b), ControlQueue(b, retried) PROVE ReviewInv'
  BY <1>0, <1>6, SMT DEF ControlQueue, results, history
<1>7. ASSUME NEW b \in Batches, NEW status \in {"committed", "discarded"}, Finish(b, status)
      PROVE ReviewInv'
  BY <1>0, <1>7, SMT DEF Finish, EntriesOf, results, history
<1>8. ASSUME NEW b \in Batches, LoopFails(b) \/ LoopCompletes(b) \/ LoopWaits(b) \/ BeginCall(b)
      PROVE ReviewInv'
  BY <1>0, <1>8, SMT DEF LoopFails, LoopCompletes, LoopWaits, BeginCall, rows, results, history
<1>9. ASSUME NEW place \in [asked -> (Choices \ {"skip"}) \union {None}],
             NEW certain \in SUBSET asked, Answer(place, certain)
      PROVE ReviewInv'
  <2>1. PrepareClear(active, suggested', before', sure') /\ active \in Running
    BY <1>9 DEF Answer, AnswerAccepted
  <2>2. Clear(active, suggested', before', sure') \subseteq EntriesOf(active) \ protected
    BY DEF Clear
  <2>3. UNCHANGED <<batch, protected, reviewed>> BY <1>9 DEF Answer
  <2> HIDE DEF Clear
  <2> QED BY <1>0, <2>1, <2>2, <2>3, SMT DEF PrepareClear, Running, EntriesOf
<1>10. CASE CallFails \/ LoopEnds \/ TaskEnds \/ TimerFires \/ Stop \/ Exit \/ Launch
            \/ UNCHANGED vars
  BY <1>0, <1>10, SMT DEF CallFails, LoopEnds, TaskEnds, TimerFires, Stop, Exit, Launch, vars,
       rows, results, history
<1> QED BY <1>1, <1>2, <1>3, <1>4, <1>5, <1>6, <1>7, <1>8, <1>9, <1>10
        DEF Next, User, Staging, Worker, Loop, ModelAnswers

\* No call in flight, no later run and no resume files an entry elsewhere than
\* where the user decided.
THEOREM ReviewedKept == Spec => []ReviewedChoicesKept
<1>1. Init => ReviewInv
  BY SMT DEF Init, ReviewInv, ReviewedChoicesKept, ReviewedMeansProtected
<1>2. ReviewInv => ReviewedChoicesKept BY DEF ReviewInv
<1> QED BY <1>1, <1>2, ReviewStep, OrganizationTypeCorrect, PTL DEF Spec

\* What the worker knows of its call: whom it asks about what, and that a job
\* the user touched meanwhile has a new revision.
CallInv ==
  /\ phase # "call" => active = None /\ asked = {} /\ sameJob
  /\ phase = "call" => active \in Batches /\ job[active] # "none"
  /\ ~up => phase = "off"
  /\ cut => ~sameJob
  /\ \A e \in asked : suggested[e] = None /\ BatchOf[e] = active
\* A batch whose call the process did not survive waits for the user.
UncertainInv == \A b \in uncertain : job[b] # "none" /\ (up => job[b] # "running")

LEMMA CallInit == Init => CallInv /\ UncertainInv
BY Zenon DEF Init, CallInv, UncertainInv

LEMMA CallStep == ASSUME TypeOK, CallInv, [Next]_vars PROVE CallInv'
<1>0. Columns /\ Memory /\ Flags BY Parts
<1> USE ConstantFacts DEF Columns, Memory, Flags, CallInv
<1>1. ASSUME NEW b \in Batches, Start(b) PROVE CallInv'
  BY <1>0, <1>1, SMT DEF Start, Save, KeepJob, Wake, call, results
<1>2. ASSUME NEW b \in Batches, Pause(b) PROVE CallInv'
  BY <1>0, <1>2, SMT DEF Pause, Save, KeepJob, worker, results
<1>3. ASSUME NEW b \in Batches, Resume(b) PROVE CallInv'
  BY <1>0, <1>3, SMT DEF Resume, Save, Wake, call
<1>4. ASSUME NEW b \in Batches, Apply(b) PROVE CallInv'
  BY <1>0, <1>4, SMT DEF Apply, Save, worker, call
<1>5. ASSUME NEW e \in Entries, NEW c \in Choices, Edit(e, c) PROVE CallInv'
  BY <1>0, <1>5, SMT DEF Edit, worker, call
<1>6. ASSUME NEW e \in Entries, NEW o \in Outcomes, Process(e, o) PROVE CallInv'
  BY <1>0, <1>6, SMT DEF Process, worker, call, results, history
<1>7. ASSUME NEW b \in Batches, NEW retried \in SUBSET EntriesOf(b), ControlQueue(b, retried) PROVE CallInv'
  BY <1>0, <1>7, SMT DEF ControlQueue, worker, call, results, history
<1>8. ASSUME NEW b \in Batches, NEW status \in {"committed", "discarded"}, Finish(b, status)
      PROVE CallInv'
  BY <1>0, <1>8, SMT DEF Finish, worker, call, results, history
<1>9. ASSUME NEW b \in Batches, LoopWaits(b) \/ LoopFails(b) \/ LoopCompletes(b) PROVE CallInv'
  BY <1>0, <1>9, SMT DEF LoopWaits, LoopFails, LoopCompletes, Save, worker, call, results, history
<1>10. ASSUME NEW b \in Batches, BeginCall(b) PROVE CallInv'
  <2>1. NextFiles(b) \subseteq EntriesOf(b) /\ \A e \in NextFiles(b) : suggested[e] = None
    BY NextFilesOpen
  <2> HIDE DEF NextFiles
  <2> QED BY <1>0, <1>10, <2>1, SMT DEF BeginCall, Running, EntriesOf, results
<1>11. CASE ModelAnswers \/ CallFails
  <2>1. active' = None /\ asked' = {} /\ sameJob' = TRUE /\ cut' = FALSE /\ up
        /\ up' = up /\ phase' # "call"
    BY <1>11, Zenon DEF ModelAnswers, Answer, CallFails, EndCall
  <2> QED BY <2>1
<1>12. CASE LoopEnds \/ TaskEnds \/ TimerFires
  BY <1>0, <1>12, SMT DEF LoopEnds, TaskEnds, TimerFires, call, results, history
<1>13. CASE Stop BY <1>0, <1>13, SMT DEF Stop, Save, KeepJob, Running, results, history
<1>14. CASE Exit \/ Launch \/ UNCHANGED vars
  BY <1>0, <1>14, SMT DEF Exit, EndCall, Launch, RecoveredStatus, vars, worker, call, results, history
<1> QED BY <1>1, <1>2, <1>3, <1>4, <1>5, <1>6, <1>7, <1>8, <1>9, <1>10, <1>11, <1>12, <1>13, <1>14
        DEF Next, User, Staging, Worker, Loop

\* No wake-up is lost.  A call that lost its job was cut by somebody who woke the
\* worker or stopped it, so the loop that ends starts again.
ServedInv ==
  /\ timer => phase \in {"off", "end"}
  /\ up /\ ~stopped /\ Running # {} =>
       \/ timer \/ phase = "loop" \/ (phase = "end" /\ again)
       \/ phase = "call" /\ (again \/ (sameJob /\ active \in Running))

\* The one running job ends or pauses: no other is left.
LEMMA RunningEnds ==
  ASSUME TypeOK, OneJobRuns, batch' = batch, NEW b \in Running, NEW status, status # "running",
         job' = [job EXCEPT ![b] = status]
  PROVE  Running' = {}
BY SMT DEF TypeOK, OneJobRuns, Running

LEMMA RunningStays ==
  ASSUME batch' = batch, job' = job PROVE Running' = Running
BY DEF Running

LEMMA ServedStep ==
  ASSUME TypeOK, OneJobRuns, CallInv, ServedInv, [Next]_vars PROVE ServedInv'
<1>0. phase \in {"off", "loop", "call", "end"} /\ None \notin Batches
      /\ job \in [Batches -> {"none", "running", "paused", "complete", "failed"}]
      /\ Running \subseteq Batches
  BY ConstantFacts DEF TypeOK, Running
<1> USE DEF ServedInv
<1>1. ASSUME NEW b \in Batches, Start(b) PROVE ServedInv'
  <2>1. Wake /\ UNCHANGED <<up, stopped>> BY <1>1, Zenon DEF Start
  <2> QED BY <1>0, <2>1, Zenon DEF Wake
<1>2. ASSUME NEW b \in Batches, Resume(b) PROVE ServedInv'
  <2>1. Wake /\ UNCHANGED <<up, stopped>> BY <1>2, Zenon DEF Resume
  <2> QED BY <1>0, <2>1, Zenon DEF Wake
<1>3. ASSUME NEW b \in Batches, Pause(b) PROVE ServedInv'
  <2>1. UNCHANGED <<batch, up, stopped, timer, again, phase, active>>
    BY <1>3, Zenon DEF Pause, rows, worker
  <2>2. Running' = {} \/ (Running' = Running /\ sameJob' = sameJob)
    <3>1. CASE job[b] = "running"
      <4>1. job' = [job EXCEPT ![b] = "paused"] /\ b \in Running
        BY <1>3, <3>1, Zenon DEF Pause, Save, Running
      <4> QED BY <2>1, <4>1, RunningEnds
    <3>2. CASE job[b] # "running"
      <4>1. job' = job /\ sameJob' = sameJob BY <1>3, <3>2, Zenon DEF Pause, KeepJob
      <4> QED BY <2>1, <4>1, RunningStays
    <3> QED BY <3>1, <3>2
  <2> QED BY <2>1, <2>2, Zenon
<1>4. ASSUME NEW b \in Batches, Apply(b) PROVE ServedInv'
  <2>1. UNCHANGED <<batch, up, stopped, timer, again, phase, active>>
        /\ job[b] # "running" /\ Save(b, job[b])
    BY <1>4, Zenon DEF Apply, worker, call
  <2>2. job' = job BY <1>0, <2>1, SMT DEF Save
  <2>3. Running' = Running /\ b \notin Running BY <2>1, <2>2, RunningStays DEF Running
  <2>4. active \in Running => (sameJob' <=> sameJob) BY <2>1, <2>3, Zenon DEF Save
  <2> QED BY <2>1, <2>3, <2>4, Zenon
<1>5. ASSUME NEW e \in Entries, NEW c \in Choices, Edit(e, c) PROVE ServedInv'
  <2>1. UNCHANGED <<batch, job, up, stopped, timer, again, phase, active, sameJob>>
    BY <1>5, Zenon DEF Edit, worker, call
  <2> QED BY <2>1, RunningStays, Zenon
<1>6. CASE Staging
  <2>1. UNCHANGED <<job, up, stopped, timer, again, phase, active, sameJob>>
    BY <1>6, Zenon DEF Staging, Process, ControlQueue, Finish, worker, call
  <2>2. Running' = Running
    BY <1>0, <1>6, <2>1, SMT DEF Staging, Process, ControlQueue, Finish, Running, TypeOK
  <2> QED BY <2>1, <2>2, Zenon
<1>7. ASSUME NEW b \in Batches, LoopFails(b) PROVE ServedInv'
  <2>1. UNCHANGED <<batch, up, stopped, timer, again>> /\ phase' = "end" /\ b \in Running
        /\ job' = [job EXCEPT ![b] = "failed"]
    BY <1>7, Zenon DEF LoopFails, Save, rows
  <2>2. Running' = {} BY <2>1, RunningEnds
  <2> QED BY <2>1, <2>2, Zenon
<1>8. ASSUME NEW b \in Batches, LoopCompletes(b) PROVE ServedInv'
  <2>1. UNCHANGED <<batch, up, stopped, timer, again, phase>> /\ b \in Running
        /\ job' = [job EXCEPT ![b] = "complete"]
    BY <1>8, Zenon DEF LoopCompletes, Save, rows, worker
  <2>2. Running' = {} BY <2>1, RunningEnds
  <2> QED BY <2>1, <2>2, Zenon
<1>9. ASSUME NEW b \in Batches, LoopWaits(b) PROVE ServedInv'
  BY <1>9, Zenon DEF LoopWaits
<1>10. ASSUME NEW b \in Batches, BeginCall(b) PROVE ServedInv'
  <2>1. UNCHANGED <<batch, job, timer, sameJob>> /\ phase = "loop" /\ phase' = "call"
        /\ active' = b /\ b \in Running
    BY <1>10, Zenon DEF BeginCall, rows
  <2>2. sameJob /\ ~timer BY <2>1, Zenon DEF CallInv
  <2> QED BY <2>1, <2>2, RunningStays, Zenon
<1>11. CASE ModelAnswers
  <2>1. timer' = timer /\ phase = "call" /\ phase' = "loop"
    BY <1>11, Zenon DEF ModelAnswers, Answer
  <2> QED BY <2>1, Zenon
<1>12. CASE CallFails
  <2>1. UNCHANGED <<batch, up, stopped, timer, again>> /\ phase = "call" /\ phase' = "end"
    BY <1>12, Zenon DEF CallFails, rows
  <2>2. CASE FailureIsOurs
    <3>1. job' = [job EXCEPT ![active] = "failed"] /\ active \in Running
      BY <1>12, <2>2, Zenon DEF CallFails, FailureIsOurs
    <3>2. Running' = {} BY <2>1, <3>1, RunningEnds
    <3> QED BY <2>1, <3>2, Zenon
  <2>3. CASE ~FailureIsOurs
    <3>1. job' = job BY <1>12, <2>3, Zenon DEF CallFails
    <3>2. Running' = Running BY <2>1, <3>1, RunningStays
    <3> QED BY <2>1, <2>3, <3>2, Zenon DEF FailureIsOurs
  <2> QED BY <2>2, <2>3
<1>13. CASE LoopEnds
  <2>1. UNCHANGED <<batch, job, up, stopped, timer>> /\ (stopped \/ Running = {}) /\ phase' = "end"
    BY <1>13, Zenon DEF LoopEnds, rows
  <2> QED BY <2>1, RunningStays, Zenon
<1>14. CASE TaskEnds
  <2>1. UNCHANGED <<batch, job, up, stopped, timer>> /\ phase = "end"
        /\ phase' = IF again /\ ~stopped /\ ~timer THEN "loop" ELSE "off"
    BY <1>14, Zenon DEF TaskEnds, rows
  <2> QED BY <2>1, RunningStays, Zenon
<1>15. CASE TimerFires
  <2>1. timer /\ timer' = FALSE /\ UNCHANGED <<up, stopped>>
        /\ phase' = (IF ~stopped /\ phase = "off" THEN "loop" ELSE phase)
        /\ again' = (again \/ (~stopped /\ phase # "off"))
    BY <1>15, Zenon DEF TimerFires
  <2> QED BY <2>1, Zenon
<1>16. CASE Stop BY <1>16, Zenon DEF Stop
<1>17. CASE Exit BY <1>17, Zenon DEF Exit
<1>18. CASE Launch
  <2>1. UNCHANGED <<batch, timer, phase>>
        /\ job' = [b \in Batches |-> IF job[b] = "running" THEN RecoveredStatus ELSE job[b]]
    BY <1>18, Zenon DEF Launch, rows, worker
  <2>2. Running' = {} BY <2>1, SMT DEF Running, RecoveredStatus
  <2> QED BY <2>1, <2>2, Zenon
<1>19. CASE UNCHANGED vars
  <2>1. UNCHANGED <<batch, job, up, stopped, timer, again, phase, active, sameJob>>
    BY <1>19, Zenon DEF vars, rows, worker, call
  <2> QED BY <2>1, RunningStays, Zenon
<1> QED BY <1>1, <1>2, <1>3, <1>4, <1>5, <1>6, <1>7, <1>8, <1>9, <1>10, <1>11, <1>12, <1>13, <1>14,
           <1>15, <1>16, <1>17, <1>18, <1>19, Zenon DEF Next, User, Worker, Loop

\* A running job of an open application is never left without a worker.
THEOREM JobsServed == Spec => []RunningJobsAreServed
<1>1. Init => ServedInv
  <2> SUFFICES ASSUME Init PROVE ServedInv OBVIOUS
  <2>1. timer = FALSE BY Zenon DEF Init
  <2>2. Running = {} BY SMT DEF Init, Running
  <2> QED BY <2>1, <2>2, Zenon DEF ServedInv
<1>2. ServedInv => RunningJobsAreServed BY Zenon DEF ServedInv, RunningJobsAreServed
<1> QED BY <1>1, <1>2, ServedStep, CallInit, CallStep, OneJob, OrganizationTypeCorrect, PTL DEF Spec

LEMMA UncertainStep ==
  ASSUME TypeOK, CallInv, UncertainInv, [Next]_vars PROVE UncertainInv'
<1>0. Columns /\ Memory /\ uncertain \subseteq Batches BY Parts DEF Counters
<1> USE ConstantFacts DEF Columns, Memory, UncertainInv
<1>1. ASSUME NEW b \in Batches, Start(b) \/ Pause(b) \/ Resume(b) \/ Apply(b) PROVE UncertainInv'
  BY <1>0, <1>1, SMT DEF Start, Pause, Resume, Apply, Save, KeepJob
<1>2. ASSUME NEW e \in Entries, NEW c \in Choices, Edit(e, c) PROVE UncertainInv'
  BY <1>0, <1>2, SMT DEF Edit
<1>3. CASE Staging BY <1>0, <1>3, SMT DEF Staging, Process, ControlQueue, Finish, history
<1>4. CASE Loop
  BY <1>0, <1>4, SMT DEF Loop, LoopEnds, LoopWaits, LoopFails, LoopCompletes, BeginCall, Save, history
<1>5. CASE ModelAnswers BY <1>0, <1>5, SMT DEF ModelAnswers, Answer
<1>6. CASE CallFails \/ TaskEnds \/ TimerFires
  BY <1>0, <1>6, SMT DEF CallFails, FailureIsOurs, Running, TaskEnds, TimerFires, history
<1>7. CASE Stop BY <1>0, <1>7, SMT DEF Stop, Save, KeepJob, Running, history
<1>8. CASE Exit BY <1>0, <1>8, SMT DEF Exit, CallInv
<1>9. CASE Launch \/ UNCHANGED vars
  BY <1>0, <1>9, SMT DEF Launch, RecoveredStatus, vars, history
<1> QED BY <1>1, <1>2, <1>3, <1>4, <1>5, <1>6, <1>7, <1>8, <1>9 DEF Next, User, Worker

\* The answer to a call during which the user paused or resumed the job is
\* never saved: only an answer under the job's revision is.
LEMMA CutStep ==
  ASSUME TypeOK, CallInv, [Next]_vars
  PROVE  \A e \in asked : suggested'[e] # suggested[e] => ~cut
<1>0. Columns /\ Memory BY Parts
<1> USE ConstantFacts DEF Columns, Memory, CallInv
<1>1. CASE ModelAnswers BY <1>1, SMT DEF ModelAnswers, Answer, AnswerAccepted
<1>2. CASE Staging
  BY <1>0, <1>2, SMT DEF Staging, Process, ControlQueue, Finish, results
<1>3. CASE User
  <2>1. ASSUME NEW b \in Batches, Start(b) \/ Pause(b) \/ Resume(b) \/ Apply(b)
        PROVE  suggested' = suggested
    BY <2>1 DEF Start, Pause, Resume, Apply, results
  <2>2. ASSUME NEW e \in Entries, NEW c \in Choices, Edit(e, c) PROVE suggested' = suggested
    BY <2>2 DEF Edit
  <2> QED BY <1>3, <2>1, <2>2 DEF User
<1>4. CASE Loop BY <1>4, SMT DEF Loop, LoopEnds, LoopWaits, LoopFails, LoopCompletes, BeginCall, results
<1>5. CASE CallFails \/ TaskEnds \/ TimerFires \/ Stop \/ Exit \/ Launch \/ UNCHANGED vars
  BY <1>5, SMT DEF CallFails, TaskEnds, TimerFires, Stop, Exit, Launch, vars, results
<1> QED BY <1>1, <1>2, <1>3, <1>4, <1>5 DEF Next, Worker

THEOREM CutDropped == Spec => CutAnswersDropped
<1>1. ASSUME TypeOK, CallInv, [Next]_vars
      PROVE  [\A e \in asked : suggested'[e] # suggested[e] => ~cut]_vars
  BY <1>1, CutStep
<1> QED BY <1>1, CallInit, CallStep, OrganizationTypeCorrect, PTL DEF Spec, CutAnswersDropped

\* An application that was interrupted during a call does not by itself send
\* that batch to the model again.
LEMMA UncertainCall ==
  ASSUME TypeOK, CallInv, UncertainInv, [Next]_vars
  PROVE  \A b \in Batches : active # b /\ active' = b => b \notin uncertain
<1>0. Columns /\ Memory BY Parts
<1> USE ConstantFacts DEF Columns, Memory, UncertainInv
<1>1. ASSUME NEW b \in Batches, BeginCall(b)
      PROVE  \A c \in Batches : active # c /\ active' = c => c \notin uncertain
  BY <1>1, SMT DEF BeginCall, Running
<1>2. CASE User
  <2>1. ASSUME NEW b \in Batches, Start(b) \/ Pause(b) \/ Resume(b) \/ Apply(b)
        PROVE  active' = active
    BY <2>1 DEF Start, Pause, Resume, Apply, call
  <2>2. ASSUME NEW e \in Entries, NEW c \in Choices, Edit(e, c) PROVE active' = active
    BY <2>2 DEF Edit, call
  <2> QED BY <1>2, <2>1, <2>2 DEF User
<1>3. CASE Staging BY <1>3, SMT DEF Staging, Process, ControlQueue, Finish, call
<1>4. ASSUME NEW b \in Batches, LoopWaits(b) \/ LoopFails(b) \/ LoopCompletes(b)
      PROVE  active' = active
  BY <1>4 DEF LoopWaits, LoopFails, LoopCompletes, call
<1>5. CASE ModelAnswers \/ CallFails \/ Exit
  <2>1. active' = None BY <1>5, Zenon DEF ModelAnswers, Answer, CallFails, Exit, EndCall
  <2> QED BY <2>1
<1>6. CASE LoopEnds \/ TaskEnds \/ TimerFires \/ Stop \/ Launch \/ UNCHANGED vars
  BY <1>6, SMT DEF LoopEnds, TaskEnds, TimerFires, Stop, Launch, vars, call
<1> QED BY <1>1, <1>2, <1>3, <1>4, <1>5, <1>6 DEF Next, Worker, Loop

THEOREM InterruptedWait == Spec => InterruptedCallsNotRepeated
<1>1. ASSUME TypeOK, CallInv, UncertainInv, [Next]_vars
      PROVE  [\A b \in Batches : active # b /\ active' = b => b \notin uncertain]_vars
  BY <1>1, UncertainCall
<1> QED BY <1>1, CallInit, CallStep, UncertainStep, OrganizationTypeCorrect, PTL
        DEF Spec, InterruptedCallsNotRepeated

\* While a job runs, a file was shared no more often than it failed, not counting
\* the call it is in.  Of a call that lost its job nothing is saved, but what
\* was resumed since counts from zero.
AskInv ==
  /\ AskedAtMostTwice
  /\ up => \A e \in Entries : job[BatchOf[e]] = "running" /\ suggested[e] = None /\ e \notin asked
       => asks[e] <= attempts[e]
  /\ \A e \in asked : job[active] = "running" =>
       IF sameJob THEN ~stopped /\ attempts[e] <= 1 /\ asks[e] <= attempts[e] + 1
                  ELSE asks[e] = 0

LEMMA AskStep ==
  ASSUME TypeOK, OneJobRuns, CallInv, AskInv, [Next]_vars PROVE AskInv'
<1>0. Columns /\ Counters /\ Memory /\ Flags BY Parts
<1> USE ConstantFacts DEF Columns, Counters, Memory, Flags, CallInv, AskInv, AskedAtMostTwice
<1>1. ASSUME NEW b \in Batches, Start(b) PROVE AskInv'
  BY <1>0, <1>1, SMT DEF Start, Save, KeepJob, call, results
<1>2. ASSUME NEW b \in Batches, Pause(b) PROVE AskInv'
  BY <1>0, <1>2, SMT DEF Pause, Save, KeepJob, results
<1>3. ASSUME NEW b \in Batches, Resume(b) PROVE AskInv'
  BY <1>0, <1>3, SMT DEF Resume, Save, call
<1>4. ASSUME NEW b \in Batches, Apply(b) PROVE AskInv'
  BY <1>0, <1>4, SMT DEF Apply, Save, call
<1>5. ASSUME NEW e \in Entries, NEW c \in Choices, Edit(e, c) PROVE AskInv'
  BY <1>0, <1>5, SMT DEF Edit, call
<1>6. ASSUME NEW e \in Entries, NEW o \in Outcomes, Process(e, o) PROVE AskInv'
  BY <1>0, <1>6, SMT DEF Process, call, results, history
<1>7. ASSUME NEW b \in Batches, NEW retried \in SUBSET EntriesOf(b), ControlQueue(b, retried) PROVE AskInv'
  BY <1>0, <1>7, SMT DEF ControlQueue, call, results, history
<1>8. ASSUME NEW b \in Batches, NEW status \in {"committed", "discarded"}, Finish(b, status)
      PROVE AskInv'
  BY <1>0, <1>8, SMT DEF Finish, call, results, history
<1>9. ASSUME NEW b \in Batches, LoopWaits(b) \/ LoopFails(b) \/ LoopCompletes(b) PROVE AskInv'
  BY <1>0, <1>9, SMT DEF LoopWaits, LoopFails, LoopCompletes, Save, call, results, history
<1>10. ASSUME NEW b \in Batches, BeginCall(b) PROVE AskInv'
  <2>1. NextFiles(b) \subseteq EntriesOf(b)
        /\ \A e \in NextFiles(b) : suggested[e] = None /\ attempts[e] \in {0, 1}
    BY NextFilesOpen
  <2> HIDE DEF NextFiles
  <2> QED BY <1>0, <1>10, <2>1, SMT DEF BeginCall, Running, EntriesOf, results
<1>11. CASE ModelAnswers
  BY <1>0, <1>11, SMT DEF ModelAnswers, Answer, AnswerAccepted, EndCall
<1>12. CASE CallFails
  BY <1>0, <1>12, SMT DEF CallFails, FailureIsOurs, Running, OneJobRuns, EndCall, results
<1>13. CASE LoopEnds \/ TaskEnds \/ TimerFires \/ UNCHANGED vars
  BY <1>0, <1>13, SMT DEF LoopEnds, TaskEnds, TimerFires, vars, call, results, history
<1>14. CASE Stop
  BY <1>0, <1>14, SMT DEF Stop, Save, KeepJob, Running, OneJobRuns, results, history
<1>15. CASE Exit \/ Launch
  BY <1>0, <1>15, SMT DEF Exit, Launch, RecoveredStatus, EndCall, call, results, history
<1> QED BY <1>1, <1>2, <1>3, <1>4, <1>5, <1>6, <1>7, <1>8, <1>9, <1>10, <1>11, <1>12, <1>13, <1>14,
           <1>15 DEF Next, User, Staging, Worker, Loop

\* Until the user lets the job run again, a file is shared with the model at
\* most twice.
THEOREM AskedTwice == Spec => []AskedAtMostTwice
<1>1. Init => AskInv
  BY ConstantFacts, SMT DEF Init, AskInv, AskedAtMostTwice
<1>2. AskInv => AskedAtMostTwice BY DEF AskInv
<1> QED BY <1>1, <1>2, AskStep, CallInit, CallStep, OneJob, OrganizationTypeCorrect, PTL DEF Spec

\* A set of numbers has a least one, so the first files of a set that has any
\* are some of them.
LEMMA Least == ASSUME NEW S \in SUBSET Nat, S # {} PROVE \E m \in S : \A e \in S : ~(e < m)
<1>1. \E m \in S : \A e \in S : ~ (<<e, m>> \in OpToRel(<, Nat))
  BY NatLessThanWellFounded, WFMin, Zenon
<1>2. \A m, e \in Nat : e < m => <<e, m>> \in OpToRel(<, Nat)
  BY DEF OpToRel
<1> QED BY <1>1, <1>2

LEMMA FirstOfSome ==
  ASSUME NEW S \in SUBSET Nat, NEW n \in Nat \ {0}, FirstOf(S, n) = {} PROVE S = {}
<1> SUFFICES ASSUME S # {} PROVE FALSE OBVIOUS
<1>1. PICK m \in S : \A e \in S : ~(e < m) BY Least
<1>2. {f \in S : f < m} = {} BY <1>1
<1>3. Cardinality({f \in S : f < m}) = 0 BY <1>2, FS_EmptySet
<1> QED BY <1>1, <1>3 DEF FirstOf

\* When the loop finds nothing to ask, every open file was tried twice.
LEMMA NothingLeft ==
  ASSUME TypeOK, NEW b, NextFiles(b) = {} PROVE \A e \in Open(b) : attempts[e] = 2
<1>1. Open(b) \subseteq Entries /\ Entries \subseteq Nat /\ PerCall \in Nat \ {0}
  BY OrganizationAssumption DEF Open, EntriesOf
<1> DEFINE fresh == {e \in Open(b) : attempts[e] = 0}
           failed == {e \in Open(b) : attempts[e] = 1}
<1>2. IF fresh # {} THEN FirstOf(fresh, PerCall) = {} ELSE FirstOf(failed, 1) = {}
  BY DEF NextFiles
<1>3. fresh \in SUBSET Nat /\ failed \in SUBSET Nat BY <1>1
<1> HIDE DEF fresh, failed
<1>4. fresh = {} BY <1>1, <1>2, <1>3, FirstOfSome
<1>5. failed = {} BY <1>2, <1>3, <1>4, FirstOfSome
<1>6. \A e \in Entries : attempts[e] \in 0..2 BY DEF TypeOK
<1>7. \A e \in Open(b) : attempts[e] # 0 /\ attempts[e] # 1 BY <1>4, <1>5, Zenon DEF fresh, failed
<1>8. \A n \in 0..2 : n # 0 /\ n # 1 => n = 2 OBVIOUS
<1> QED BY <1>1, <1>6, <1>7, <1>8, Zenon

LEMMA CompleteStep ==
  ASSUME TypeOK, [Next]_vars, NEW b \in Batches, job[b] # "complete", job'[b] = "complete"
  PROVE  LoopCompletes(b)
<1>0. job \in [Batches -> {"none", "running", "paused", "complete", "failed"}] BY DEF TypeOK
<1>1. ASSUME NEW c \in Batches, Start(c) \/ Pause(c) \/ Resume(c) PROVE FALSE
  BY <1>0, <1>1, SMT DEF Start, Pause, Resume, Save, KeepJob
<1>2. ASSUME NEW c \in Batches, Apply(c) PROVE FALSE
  <2>1. Save(c, job[c]) BY <1>2, Zenon DEF Apply
  <2> QED BY <1>0, <2>1, SMT DEF Save
<1>3. ASSUME NEW e \in Entries, NEW c \in Choices, Edit(e, c) PROVE FALSE
  BY <1>3 DEF Edit
<1>4. CASE Staging BY <1>4, SMT DEF Staging, Process, ControlQueue, Finish
<1>5. ASSUME NEW c \in Batches, LoopWaits(c) \/ LoopFails(c) \/ BeginCall(c) PROVE FALSE
  BY <1>0, <1>5, SMT DEF LoopWaits, LoopFails, BeginCall, Save
<1>6. ASSUME NEW c \in Batches, LoopCompletes(c) PROVE LoopCompletes(b)
  <2>1. Save(c, "complete") BY <1>6, Zenon DEF LoopCompletes
  <2>2. b = c BY <1>0, <2>1, SMT DEF Save
  <2> QED BY <1>6, <2>2
<1>7. CASE ModelAnswers
  <2>1. job' = job BY <1>7, Zenon DEF ModelAnswers, Answer
  <2> QED BY <2>1
<1>8. CASE CallFails BY <1>0, <1>8, SMT DEF CallFails
<1>9. CASE LoopEnds \/ TaskEnds \/ TimerFires \/ Exit \/ UNCHANGED vars
  BY <1>9, SMT DEF LoopEnds, TaskEnds, TimerFires, Exit, vars
<1>10. CASE Stop BY <1>0, <1>10, SMT DEF Stop, Save, KeepJob, Running
<1>11. CASE Launch BY <1>0, <1>11, SMT DEF Launch, RecoveredStatus
<1> QED BY <1>1, <1>2, <1>3, <1>4, <1>5, <1>6, <1>7, <1>8, <1>9, <1>10, <1>11
        DEF Next, User, Worker, Loop

LEMMA SettledStep ==
  ASSUME TypeOK, [Next]_vars
  PROVE  \A b \in Batches : job[b] # "complete" /\ job'[b] = "complete" =>
           \A e \in EntriesOf(b) :
             \/ Excluded(e)
             \/ file[e] = "ready" /\ (\/ choice[e] = "profile" \/ suggested[e] # None
                                      \/ e \in protected \/ attempts[e] = 2)
<1> SUFFICES ASSUME NEW b \in Batches, job[b] # "complete", job'[b] = "complete",
                    NEW e \in EntriesOf(b), ~Excluded(e)
             PROVE  file[e] = "ready" /\ (\/ choice[e] = "profile" \/ suggested[e] # None
                                          \/ e \in protected \/ attempts[e] = 2)
  OBVIOUS
<1>1. ~Waiting(b) /\ ~Failed(b) /\ NextFiles(b) = {} BY CompleteStep DEF LoopCompletes
<1>2. file[e] = "ready" BY <1>1 DEF Waiting, Failed, Excluded, EntriesOf, TypeOK
<1>3. e \in Open(b) => attempts[e] = 2 BY <1>1, NothingLeft
<1> QED BY <1>2, <1>3 DEF Open, Excluded, Reserved

\* A job completes only when every included file is processed and analyzed,
\* reviewed or tried twice.
THEOREM Settled == Spec => CompleteMeansSettled
<1>1. ASSUME TypeOK, [Next]_vars
      PROVE  [\A b \in Batches : job[b] # "complete" /\ job'[b] = "complete" =>
                \A e \in EntriesOf(b) :
                  \/ Excluded(e)
                  \/ file[e] = "ready" /\ (\/ choice[e] = "profile" \/ suggested[e] # None
                                           \/ e \in protected \/ attempts[e] = 2)]_vars
  BY <1>1, SettledStep
<1> QED BY <1>1, OrganizationTypeCorrect, PTL DEF Spec, CompleteMeansSettled
-----------------------------------------------------------------------------
\* No suggestion leaves a file out, and none was made for a file left out.
NeverSkips == \A e \in Entries : suggested[e] # "skip" /\ before[e] # "skip"

LEMMA SkipStep == ASSUME TypeOK, NeverSkips, [Next]_vars PROVE NeverSkips'
<1>0. Columns BY Parts
<1> USE ConstantFacts DEF Columns, NeverSkips
<1>1. CASE User
  <2>1. UNCHANGED <<suggested, before>>
    BY <1>1, Zenon DEF User, Start, Pause, Resume, Apply, Edit, results
  <2> QED BY <2>1
<1>2. CASE Staging
  BY <1>0, <1>2, SMT DEF Staging, Process, ControlQueue, Finish, results, Reserved
<1>3. CASE ModelAnswers
  BY <1>0, <1>3, SMT DEF ModelAnswers, Answer, AnswerAccepted, Reserved
<1>4. CASE \/ Loop \/ CallFails \/ TaskEnds \/ TimerFires \/ Stop \/ Exit \/ Launch \/ UNCHANGED vars
  <2>1. UNCHANGED <<suggested, before>>
    BY <1>4, Zenon DEF Loop, LoopEnds, LoopWaits, LoopFails, LoopCompletes, BeginCall, CallFails,
       TaskEnds, TimerFires, Stop, Exit, Launch, vars, results
  <2> QED BY <2>1
<1> QED BY <1>1, <1>2, <1>3, <1>4 DEF Next, Worker

\* Every step of the job, the user and the worker is one of the contract or none.
LEMMA SharedStep ==
  ASSUME TypeOK, OneJobRuns, NeverSkips, [Next]_vars
  PROVE  [Shared!Next]_(Shared!ivars)
<1> DEFINE kept == {e \in Entries : choice[e] # "skip"}
           runs == {b \in Batches : job[b] = "running"}
           Same == UNCHANGED <<batch, file, kept, runs>>
<1>0. Columns BY Parts
<1> USE <1>0, ConstantFacts
<1> USE DEF Columns, OneJobRuns, NeverSkips, EntriesOf, Shared!EntriesOf, rows, results
<1>1. Same => UNCHANGED Shared!ivars
  BY DEF Shared!ivars
<1>2. ASSUME NEW b \in Batches, Start(b) PROVE Same \/ Shared!Organize(b)
  BY <1>2, SMT DEF Start, Save, KeepJob, Running, Shared!Organize
<1>3. ASSUME NEW b \in Batches, Pause(b) PROVE Same \/ Shared!Rest
  BY <1>3, SMT DEF Pause, Save, KeepJob, Shared!Rest
<1>4. ASSUME NEW b \in Batches, Resume(b) PROVE Same \/ Shared!Organize(b)
  <2>1. kept' = kept
    BY <1>4, SMT DEF Resume, PrepareClear, Clear
  <2>2. runs \subseteq {b} /\ runs' = {b}
    BY <1>4, SMT DEF Resume, Save, OnlyRunner, Running
  <2>3. batch' = batch /\ file' = file /\ batch[b] = "review"
    BY <1>4, Zenon DEF Resume
  <2> HIDE DEF kept, runs
  <2>4. CASE runs = {b} BY <2>1, <2>2, <2>3, <2>4
  <2>5. CASE runs = {}
    BY <2>1, <2>2, <2>3, <2>5 DEF Shared!Organize, kept, runs
  <2> QED BY <2>2, <2>4, <2>5
<1>5. ASSUME NEW b \in Batches, Apply(b) PROVE Same
  <2>1. kept' = kept
    BY <1>5, SMT DEF Apply, Unapplied, Unresolved, Reserved, Choices
  <2>2. UNCHANGED <<batch, file, job>>
    BY <1>5, SMT DEF Apply, Save
  <2> QED BY <2>1, <2>2
<1>6. ASSUME NEW e \in Entries, NEW c \in Choices, Edit(e, c)
      PROVE  \E b \in Batches : \E chosen \in SUBSET Shared!EntriesOf(b) :
               Shared!Include(b, chosen) \/ Shared!LeaveOut(b, chosen)
  <2>1. Shared!Include(BatchOf[e], {e}) \/ Shared!LeaveOut(BatchOf[e], {e})
    BY <1>6, SMT DEF Edit, Shared!Include, Shared!LeaveOut, Shared!LeftOut
  <2>2. BatchOf[e] \in Batches /\ {e} \in SUBSET Shared!EntriesOf(BatchOf[e]) OBVIOUS
  <2> QED BY <2>1, <2>2, Zenon
<1>7. ASSUME NEW e \in Entries, NEW o \in Outcomes, Process(e, o)
      PROVE  \E outcome \in Shared!Parsed : Shared!Parse(e, outcome)
  <2>1. o \in Shared!Parsed BY OrganizationAssumption DEF Shared!Parsed
  <2>2. Shared!Parse(e, o) BY <1>7, SMT DEF Process, Shared!Parse
  <2> QED BY <2>1, <2>2
<1>8. ASSUME NEW b \in Batches, NEW retried \in SUBSET EntriesOf(b), ControlQueue(b, retried)
      PROVE  Shared!Retry(b, retried)
  BY <1>8, SMT DEF ControlQueue, Shared!Retry
<1>9. ASSUME NEW b \in Batches, NEW status \in {"committed", "discarded"}, Finish(b, status)
      PROVE  Shared!Finish(b, status)
  <2>1. UNCHANGED <<file, kept, runs>> /\ batch[b] = "review" /\ b \notin runs
        /\ batch' = [batch EXCEPT ![b] = status]
    BY <1>9, SMT DEF Finish
  <2>2. Shared!Kept(b) = {e \in EntriesOf(b) : ~Excluded(e)}
    BY SMT DEF Shared!Kept, Shared!LeftOut, Excluded
  <2>3. status = "committed" =>
          Shared!Kept(b) # {} /\ (\A e \in Shared!Kept(b) : file[e] = "ready")
          /\ \A e \in EntriesOf(b) : file[e] # "policy"
    BY <1>9, <2>2, SMT DEF Finish, Policy, Waiting, Failed, Excluded
  <2> QED BY <2>1, <2>3, Zenon DEF Shared!Finish
<1>10. ASSUME NEW b \in Batches, LoopFails(b) \/ LoopCompletes(b) PROVE Shared!Rest
  BY <1>10, SMT DEF LoopFails, LoopCompletes, Save, Running, Shared!Rest
<1>11. CASE ModelAnswers
  <2>1. UNCHANGED <<batch, file, job>> BY <1>11, Zenon DEF ModelAnswers, Answer
  <2>2. PICK place \in [asked -> (Choices \ {"skip"}) \union {None}], certain \in SUBSET asked :
          Answer(place, certain)
    BY <1>11, Zenon DEF ModelAnswers
  <2>3. suggested' \in [Entries -> (Choices \ {"skip"}) \union {None}]
        /\ \A e \in Entries : before'[e] # "skip"
    BY <2>2, SMT DEF Answer, AnswerAccepted, Reserved
  <2>4. PrepareClear(active, suggested', before', sure')
    BY <2>2 DEF Answer
  <2>5. kept' = kept
    BY <2>3, <2>4, SMT DEF PrepareClear, Clear
  <2> QED BY <1>1, <2>1, <2>5
<1>12. CASE CallFails
  <2>1. Same \/ Shared!Rest
    BY <1>12, SMT DEF CallFails, FailureIsOurs, Running, Shared!Rest
  <2> QED BY <1>1, <2>1 DEF Shared!Next
<1>13. CASE Stop
  <2>1. Same \/ Shared!Rest
    BY <1>13, SMT DEF Stop, Save, KeepJob, Running, Shared!Rest
  <2> QED BY <1>1, <2>1 DEF Shared!Next
<1>14. CASE Launch
  <2>1. Shared!Rest
    BY <1>14, SMT DEF Launch, RecoveredStatus, Shared!Rest
  <2> QED BY <2>1 DEF Shared!Next
<1>15. CASE \/ LoopEnds \/ TaskEnds \/ TimerFires \/ Exit \/ UNCHANGED vars
            \/ \E b \in Batches : LoopWaits(b) \/ BeginCall(b)
  <2>1. UNCHANGED <<batch, file, choice, job>>
    BY <1>15, Zenon DEF LoopEnds, TaskEnds, TimerFires, Exit, LoopWaits, BeginCall, vars
  <2>2. Same BY <2>1
  <2> QED BY <1>1, <2>2
<1> QED
  <2>1. \A b \in Batches : EntriesOf(b) = Shared!EntriesOf(b) OBVIOUS
  <2> HIDE DEF Same
  <2>2. CASE User
    BY <1>1, <1>2, <1>3, <1>4, <1>5, <1>6, <2>2, Zenon DEF User, Shared!Next
  <2>3. CASE Staging
    <3>1. ASSUME NEW b \in Batches, NEW retried \in SUBSET EntriesOf(b), ControlQueue(b, retried)
          PROVE  Shared!Next
      <4>1. retried \in SUBSET Shared!EntriesOf(b) BY <2>1
      <4> QED BY <1>8, <3>1, <4>1, Zenon DEF Shared!Next
    <3>2. ASSUME NEW e \in Entries, NEW o \in Outcomes, Process(e, o) PROVE Shared!Next
      BY <1>7, <3>2, Zenon DEF Shared!Next
    <3>3. ASSUME NEW b \in Batches, NEW status \in {"committed", "discarded"}, Finish(b, status)
          PROVE  Shared!Next
      <4>1. Shared!Finish(b, status) BY <1>9, <3>3
      <4> QED BY <4>1 DEF Shared!Next
    <3> HIDE DEF Columns, OneJobRuns, NeverSkips
    <3> QED BY <2>3, <3>1, <3>2, <3>3 DEF Staging
  <2>4. CASE ~User /\ ~Staging
    BY <1>10, <1>11, <1>12, <1>13, <1>14, <1>15, <2>4, Zenon DEF Next, Worker, Loop, Shared!Next
  <2> QED BY <2>2, <2>3, <2>4

\* AI organization implements the contract it shares with staging.
THEOREM OrganizationImplementsContract == Spec => ImplementsImportContract
<1>1. Init => NeverSkips
  BY OrganizationAssumption, SMT DEF Init, NeverSkips, Choices, Reserved
<1>2. Init => Shared!Init
  BY SMT DEF Init, Shared!Init, Shared!Parsed
<1> QED
  BY <1>1, <1>2, SkipStep, SharedStep, OneJob, OrganizationTypeCorrect, PTL
     DEF Spec, ImplementsImportContract, Shared!Spec
-----------------------------------------------------------------------------
\* What PaidCalls sees of the organization: whether the call in flight is cut,
\* and the suggestions.
CutNow == cut \/ (stopped /\ active # None)
Kept   == {<<e, suggested[e]>> : e \in {x \in Entries : suggested[x] # None}}

\* A stop aborts the call it finds, and no other begins.
HaltInv == phase = "call" /\ stopped => aborted

LEMMA HaltStep == ASSUME TypeOK, HaltInv, [Next]_vars PROVE HaltInv'
<1>0. Memory /\ Flags BY Parts
<1> USE DEF HaltInv, Memory, Flags
<1>1. ASSUME NEW b \in Batches, Start(b) \/ Resume(b) PROVE HaltInv'
  BY <1>0, <1>1, Zenon DEF Start, Resume, Wake, call
<1>2. ASSUME NEW b \in Batches, Pause(b) \/ Apply(b) PROVE HaltInv'
  BY <1>0, <1>2, Zenon DEF Pause, Apply, worker, call
<1>3. ASSUME NEW e \in Entries, NEW c \in Choices, Edit(e, c) PROVE HaltInv'
  BY <1>0, <1>3, Zenon DEF Edit, worker, call
<1>4. CASE Staging
  BY <1>0, <1>4, Zenon DEF Staging, Process, ControlQueue, Finish, worker, call
<1>5. CASE Loop
  BY <1>0, <1>5, Zenon DEF Loop, LoopEnds, LoopWaits, LoopFails, LoopCompletes, BeginCall, worker, call
<1>6. CASE ModelAnswers \/ CallFails
  BY <1>0, <1>6, Zenon DEF ModelAnswers, Answer, CallFails
<1>7. CASE TaskEnds \/ TimerFires
  BY <1>0, <1>7, Zenon DEF TaskEnds, TimerFires, call
<1>8. CASE Stop BY <1>0, <1>8, Zenon DEF Stop
<1>9. CASE Exit \/ Launch \/ UNCHANGED vars
  BY <1>0, <1>9, Zenon DEF Exit, Launch, vars, worker, call
<1> QED BY <1>1, <1>2, <1>3, <1>4, <1>5, <1>6, <1>7, <1>8, <1>9 DEF Next, User, Worker

\* Every step is one of the contract or changes nothing it sees.
LEMMA PaidStep ==
  ASSUME TypeOK, OneJobRuns, CallInv, UncertainInv, HaltInv, [Next]_vars
  PROVE  [Calls!Next]_(Calls!pvars)
<1> DEFINE Same == UNCHANGED <<Running, active, CutNow, uncertain, Kept>>
<1>0. Columns /\ Memory /\ Flags /\ uncertain \subseteq Batches BY Parts DEF Counters
<1>a. Running \subseteq Batches /\ Kept \subseteq Entries \X Choices
  BY <1>0, SMT DEF Running, Kept, Columns
<1>b. Same => UNCHANGED Calls!pvars BY DEF Calls!pvars, CutNow, Kept
<1>c. ASSUME suggested' = suggested PROVE Kept' = Kept BY <1>c DEF Kept
<1>d. ASSUME UNCHANGED <<batch, job>> PROVE Running' = Running BY <1>d DEF Running
<1>e. ASSUME UNCHANGED <<batch, job, suggested, active, cut, stopped, uncertain>> PROVE Same
  BY <1>c, <1>d, <1>e DEF CutNow
<1> HIDE DEF Same
<1>1. ASSUME NEW b \in Batches, Start(b) PROVE Same \/ Calls!Ask(b)
  <2>1. UNCHANGED <<batch, suggested, active, cut, stopped, uncertain>>
    BY <1>1, Zenon DEF Start, rows, results, call
  <2>2. CASE job[b] = "none"
    <3>1. b \notin uncertain /\ active # b
      BY <2>2, ConstantFacts, Zenon DEF UncertainInv, CallInv
    <3>2. Running' = Running \union {b}
      BY <1>0, <1>1, <2>1, <2>2, SMT DEF Start, Save, Running, Columns
    <3> QED BY <1>c, <2>1, <3>1, <3>2 DEF Calls!Ask, CutNow, Kept
  <2>3. CASE job[b] # "none"
    <3>1. job' = job BY <1>1, <2>3, Zenon DEF Start, KeepJob
    <3> QED BY <1>e, <2>1, <3>1
  <2> QED BY <2>2, <2>3
<1>2. ASSUME NEW b \in Batches, Pause(b) PROVE Same \/ Calls!Withdraw({b})
  <2>1. UNCHANGED <<batch, suggested, active, stopped, uncertain>>
        /\ cut' = (cut \/ (active = b /\ job[b] = "running"))
    BY <1>2, Zenon DEF Pause, rows, results
  <2>2. CASE job[b] = "running"
    <3>1. Running' = Running \ {b}
      BY <1>0, <1>2, <2>2, SMT DEF Pause, Save, Running, Columns, rows
    <3>2. CutNow' = (CutNow \/ active \in {b}) BY <2>1, <2>2 DEF CutNow
    <3> QED BY <1>c, <2>1, <3>1, <3>2 DEF Calls!Withdraw, CutNow, Kept
  <2>3. CASE job[b] # "running"
    <3>1. job' = job /\ cut' = cut BY <1>0, <1>2, <2>1, <2>3, Zenon DEF Pause, KeepJob, Flags
    <3> QED BY <1>e, <2>1, <3>1
  <2> QED BY <2>2, <2>3
<1>3. ASSUME NEW b \in Batches, Resume(b) PROVE Calls!Ask(b)
  <2>1. UNCHANGED <<batch, suggested, active, stopped>> /\ cut' = (cut \/ active = b)
        /\ uncertain' = uncertain \ {b} /\ batch[b] = "review"
    BY <1>3, Zenon DEF Resume, rows, call
  <2>2. Running' = Running \union {b}
    BY <1>0, <1>3, SMT DEF Resume, Save, OnlyRunner, Running, Columns
  <2>3. CutNow' = (CutNow \/ active = b) BY <2>1 DEF CutNow
  <2> QED BY <1>c, <2>1, <2>2, <2>3 DEF Calls!Ask, CutNow, Kept
<1>4. ASSUME NEW b \in Batches, Apply(b) PROVE Same
  <2>1. UNCHANGED <<batch, suggested, active, cut, stopped, uncertain>> /\ Save(b, job[b])
    BY <1>4, Zenon DEF Apply, call
  <2>2. job' = job BY <1>0, <2>1, SMT DEF Save, Columns
  <2> QED BY <1>e, <2>1, <2>2
<1>5. ASSUME NEW e \in Entries, NEW c \in Choices, Edit(e, c) PROVE Same
  BY <1>e, <1>5, Zenon DEF Edit, call
<1>6. CASE Staging
  <2>1. ASSUME NEW e \in Entries, NEW o \in Outcomes, Process(e, o) PROVE Same
    BY <1>e, <2>1, Zenon DEF Process, results, call, history
  <2>2. ASSUME NEW b \in Batches, NEW retried \in SUBSET EntriesOf(b), ControlQueue(b, retried)
        PROVE  Same
    BY <1>e, <2>2, Zenon DEF ControlQueue, results, call, history
  <2>3. ASSUME NEW b \in Batches, NEW status \in {"committed", "discarded"}, Finish(b, status)
        PROVE  Calls!Forget
    <3>1. UNCHANGED <<job, active, cut, stopped, uncertain>> /\ job[b] # "running"
          /\ batch' = [batch EXCEPT ![b] = status]
      BY <2>3, Zenon DEF Finish, call, history
    <3>2. Running' = Running BY <1>0, <3>1, SMT DEF Running, Columns
    <3>3. \A e \in Entries : suggested'[e] \in {None, suggested[e]}
      BY <2>3, SMT DEF Finish, results
    <3>4. Kept' \subseteq Kept BY <3>3 DEF Kept
    <3> QED BY <3>1, <3>2, <3>4 DEF Calls!Forget, CutNow, Kept
  <2> QED BY <1>6, <1>b, <2>1, <2>2, <2>3, Zenon DEF Staging, Calls!Next
<1>7. ASSUME NEW b \in Batches, LoopFails(b) \/ LoopCompletes(b) PROVE Calls!Withdraw({b})
  <2>1. UNCHANGED <<batch, suggested, active, cut, stopped, uncertain>> /\ active = None
        /\ (Save(b, "failed") \/ Save(b, "complete"))
    BY <1>7, Zenon DEF LoopFails, LoopCompletes, rows, results, call, history, CallInv
  <2>2. Running' = Running \ {b} BY <1>0, <2>1, SMT DEF Save, Running, Columns
  <2>3. CutNow' = (CutNow \/ active \in {b}) BY <2>1, ConstantFacts DEF CutNow
  <2> QED BY <1>c, <2>1, <2>2, <2>3 DEF Calls!Withdraw, CutNow, Kept
<1>8. ASSUME NEW b \in Batches, BeginCall(b) PROVE Calls!Call(b)
  <2>1. UNCHANGED <<batch, job, suggested, cut, stopped, uncertain>> /\ active' = b
        /\ up /\ phase = "loop" /\ ~stopped /\ b \in Running
    BY <1>8, Zenon DEF BeginCall, rows, results
  <2>2. active = None /\ b \notin uncertain BY <2>1 DEF CallInv, UncertainInv, Running
  <2>3. CutNow' = CutNow BY <2>1 DEF CutNow
  <2> QED BY <1>c, <1>d, <2>1, <2>2, <2>3 DEF Calls!Call, CutNow, Kept
<1>9. CASE ModelAnswers
  <2>1. PICK place \in [asked -> (Choices \ {"skip"}) \union {None}], certain \in SUBSET asked :
          Answer(place, certain)
    BY <1>9, Zenon DEF ModelAnswers
  <2>2. UNCHANGED <<batch, job, stopped, uncertain>> /\ active' = None /\ cut' = FALSE
        /\ phase = "call" /\ AnswerAccepted
        /\ suggested' = [e \in Entries |-> IF e \in asked THEN place[e] ELSE suggested[e]]
    BY <2>1, Zenon DEF Answer, EndCall
  <2>3. active # None /\ active \in Running /\ ~CutNow
    BY <2>2, ConstantFacts, Zenon DEF CallInv, HaltInv, AnswerAccepted, CutNow
  <2>4. Kept \subseteq Kept' BY <1>0, <2>2, SMT DEF CallInv, Kept, Columns, Memory
  <2>5. Kept' \subseteq Entries \X Choices BY <1>0, <2>2, SMT DEF Kept, Columns
  <2>6. Running' = Running /\ ~CutNow' BY <1>d, <2>2 DEF CutNow
  <2>7. \A left : left = Running => Calls!Return(left)
    BY <2>2, <2>3, <2>4, <2>5, <2>6, Zenon DEF Calls!Return, CutNow, Kept
  <2>8. \E left \in {Running, Running \ {active}} : Calls!Return(left) BY <2>7
  <2> QED BY <2>8 DEF Calls!Next
<1>10. CASE CallFails
  <2>1. UNCHANGED <<batch, suggested, stopped, uncertain>> /\ active' = None /\ cut' = FALSE
        /\ phase = "call" /\ active \in Batches /\ active # None
        /\ job' = IF FailureIsOurs THEN [job EXCEPT ![active] = "failed"] ELSE job
    BY <1>10, ConstantFacts, Zenon DEF CallFails, EndCall, rows, results, CallInv
  <2>2. Running' = IF FailureIsOurs THEN Running \ {active} ELSE Running
    BY <1>0, <2>1, SMT DEF Running, Columns
  <2>3. CutNow => ~FailureIsOurs BY Zenon DEF CutNow, CallInv, FailureIsOurs
  <2>4. Kept' = Kept /\ ~CutNow' BY <1>c, <2>1 DEF CutNow
  <2>5. Running' \in {Running, Running \ {active}} /\ (CutNow => Running' = Running)
    BY <2>2, <2>3
  <2>6. \A left : left = Running' => Calls!Return(left)
    BY <1>a, <2>1, <2>4, <2>5, Zenon DEF Calls!Return, CutNow, Kept
  <2>7. \E left \in {Running, Running \ {active}} : Calls!Return(left)
    <3> HIDE DEF Running
    <3> QED BY <2>5, <2>6
  <2> QED BY <2>7 DEF Calls!Next
<1>11. CASE Stop
  <2>1. UNCHANGED <<batch, suggested, active, cut, uncertain>> /\ stopped' = TRUE
        /\ (job' = job \/ \E b \in Running : Save(b, "paused"))
    BY <1>11, Zenon DEF Stop, KeepJob, rows, results, history
  <2>2. Running' \subseteq Running BY <1>0, <2>1, SMT DEF Save, Running, Columns
  <2>3. \E S \in SUBSET Running : Running' = Running \ S
    <3>1. Running' = Running \ (Running \ Running') BY <2>2
    <3> QED BY <3>1
  <2>4. cut => active # None BY <1>0, ConstantFacts, Zenon DEF CallInv, Memory
  <2>5. CutNow' = (active # None) BY <2>1, <2>4 DEF CutNow
  <2>6. Calls!Cut BY <1>c, <2>1, <2>3, <2>5 DEF Calls!Cut, CutNow, Kept
  <2> QED BY <2>6 DEF Calls!Next
<1>12. CASE Exit
  <2>1. UNCHANGED <<batch, job, suggested>> /\ stopped' = FALSE /\ active' = None /\ cut' = FALSE
        /\ uncertain' = uncertain \union ({active} \ {None})
    BY <1>12, Zenon DEF Exit, EndCall, rows, results
  <2>2. ~CutNow' BY <2>1 DEF CutNow
  <2>3. Calls!Crash BY <1>c, <1>d, <2>1, <2>2 DEF Calls!Crash, CutNow, Kept
  <2> QED BY <2>3 DEF Calls!Next
<1>13. CASE Launch
  <2>1. UNCHANGED <<batch, suggested, active, cut, stopped, uncertain>> /\ active = None
        /\ job' = [b \in Batches |-> IF job[b] = "running" THEN RecoveredStatus ELSE job[b]]
    BY <1>0, <1>13, Zenon DEF Launch, rows, results, call, history, CallInv, Flags
  <2>2. Running' = {} BY <2>1, SMT DEF Running, RecoveredStatus
  <2>3. CutNow' = (CutNow \/ active \in Running) BY <1>a, <2>1, ConstantFacts DEF CutNow
  <2>4. Calls!Withdraw(Running) BY <1>c, <2>1, <2>2, <2>3 DEF Calls!Withdraw, CutNow, Kept
  <2> QED BY <1>a, <2>4 DEF Calls!Next
<1>14. ASSUME \/ LoopEnds \/ TaskEnds \/ TimerFires \/ UNCHANGED vars
              \/ \E b \in Batches : LoopWaits(b)
       PROVE  Same
  BY <1>e, <1>14, Zenon DEF LoopEnds, TaskEnds, TimerFires, LoopWaits, vars, rows, results, call, history
<1> QED
  <2>1. \A b \in Batches : {b} \in SUBSET Batches OBVIOUS
  <2> QED BY <1>b, <1>1, <1>2, <1>3, <1>4, <1>5, <1>6, <1>7, <1>8, <1>9, <1>10, <1>11, <1>12, <1>13,
             <1>14, <2>1, Zenon DEF Next, User, Worker, Loop, Calls!Next

\* AI organization calls the model as PaidCalls allows.
THEOREM OrganizationImplementsCalls == Spec => ImplementsPaidCalls
<1>1. Init => HaltInv BY Zenon DEF Init, HaltInv
<1>2. ASSUME Init PROVE Calls!Init
  <2>1. \A b \in Batches : job[b] # "running" BY <1>2, SMT DEF Init
  <2>2. suggested \in [Entries -> Places \union {None}] /\ ~cut /\ ~stopped
    BY <1>2, Zenon DEF Init
  <2>3. Kept \subseteq Entries \X Choices BY <2>2, ConstantFacts, SMT DEF Kept
  <2> QED BY <1>2, <2>1, <2>2, <2>3, Zenon DEF Init, Calls!Init, Running, Kept
<1> QED
  BY <1>1, <1>2, HaltStep, PaidStep, CallInit, CallStep, UncertainStep, OneJob,
     OrganizationTypeCorrect, PTL DEF Spec, ImplementsPaidCalls, Calls!Spec
=============================================================================
