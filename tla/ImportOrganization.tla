-------------------------- MODULE ImportOrganization --------------------------
(***************************************************************************)
(* AI organization of a staged import:                                     *)
(*   runtime/src/workspace/import-organization-jobs.ts    (durable job)    *)
(*   runtime/src/workspace/import-organization-worker.ts  (dispatcher)     *)
(*                                                                         *)
(* One job per batch asks a model, a few files per call, where to file     *)
(* them.  Sure suggestions are staged at once, the others wait for the     *)
(* user.  Job, suggestions and per-file attempts are SQLite rows; the      *)
(* worker's loop, timer and current call live in memory.                   *)
(*                                                                         *)
(* The loop runs without interruption from its head to the await of the    *)
(* model's answer: that stretch is the action Loop.  finally { } runs in a *)
(* microtask of its own after the loop returned: phase "end".  A handler   *)
(* that wakes the worker leaves it at the loop's head (phase "loop").      *)
(*                                                                         *)
(* ImportStaging models the files themselves; here a file is waiting       *)
(* (upload, queue or parser), ready, in error, or excluded, and the        *)
(* Staging actions say what may happen to it meanwhile.                    *)
(***************************************************************************)
EXTENDS Naturals, FiniteSets

CONSTANTS
  Batches, Entries,
  BatchOf,     \* the batch an entry is a row of
  Places,      \* filing choices an included file may have
  PerCall,     \* files in one model call (8 in the code)
  Outcomes,    \* what may become of a file in the parser
  Retained,    \* entries with an unapplied, sure suggestion of an older build
  None         \* no place, no batch

\* "skip" leaves a file out, "profile" reserves it for a separate review.
Reserved == {"skip", "profile"}
Choices  == Places \union Reserved

ASSUME OrganizationAssumption ==
  /\ Outcomes \subseteq {"ready", "error", "skipped", "policy"}
  /\ Entries \subseteq Nat /\ IsFiniteSet(Entries) /\ PerCall \in Nat \ {0}
  /\ BatchOf \in [Entries -> Batches] /\ Retained \subseteq Entries
  /\ Places \intersect Reserved = {} /\ "unfiled" \in Places
  /\ None \notin Batches /\ None \notin Choices

VARIABLES
  batch,        \* import_batches.status
  file, choice, \* import_entries: status and choice_json
  job,          \* import_organization_jobs: state.status
  suggested, before, sure, applied,  \* import_organization_results
  attempts, protected,               \* import_organization_files
  up, stopped, timer, again,         \* the process and the worker's flags
  phase,        \* where the worker's task is: off, loop, call, end
  active, asked,\* the batch and the files of the call
  sameJob, sameBatch, \* their revisions are those the call began with
  aborted,      \* the call's AbortController fired
  reviewed,     \* the last choice the user made for a file (history)
  asks,         \* calls that named a file since the user last let it run (history)
  cut,          \* the user paused or resumed during this call (history)
  uncertain     \* batches with a call the process did not survive (history)

rows    == <<batch, file, choice>>
results == <<suggested, before, sure, applied, attempts, protected>>
worker  == <<timer, again, phase>>
call    == <<active, asked, aborted>>
history == <<reviewed, asks, cut, uncertain>>
vars    == <<rows, job, results, up, stopped, worker, call, sameJob, sameBatch, history>>

EntriesOf(b) == {e \in Entries : BatchOf[e] = b}
Excluded(e)  == file[e] \in {"skipped", "policy"} \/ choice[e] = "skip"
Running == {b \in Batches : batch[b] = "review" /\ job[b] = "running"}

\* What next() looks at: ready, included files without a reviewed choice or a result.
Open(b) == {e \in EntriesOf(b) : /\ file[e] = "ready" /\ choice[e] \notin Reserved
                                 /\ suggested[e] = None /\ e \notin protected}
\* The first n of a set of files, in path order.
FirstOf(S, n) == {e \in S : Cardinality({f \in S : f < e}) < n}
\* Fresh files first, then one failed file for its one repair attempt.
\* DEFECT: failed files are tried until they succeed.
Insist(b) == FirstOf(Open(b), PerCall)
NextFiles(b) ==
  LET fresh == {e \in Open(b) : attempts[e] = 0}
      failed == {e \in Open(b) : attempts[e] = 1}
  IN IF fresh # {} THEN FirstOf(fresh, PerCall) ELSE FirstOf(failed, 1)

\* Awaiting upload, queued or being parsed.
\* DEFECT: the files of the batch are not waited for.
NobodyWaits(b) == FALSE
Waiting(b) == \E e \in EntriesOf(b) : ~Excluded(e) /\ file[e] = "waiting"
Failed(b)  == \E e \in EntriesOf(b) : ~Excluded(e) /\ file[e] = "error"
Policy(b)  == \E e \in EntriesOf(b) : file[e] = "policy"

-----------------------------------------------------------------------------
\* Shared effects

\* save(): the job gets a new revision id.
Save(b, status) ==
  /\ job' = [job EXCEPT ![b] = status]
  /\ sameJob' = (sameJob /\ active # b)
KeepJob == UNCHANGED <<job, sameJob>>

\* bump() of ImportStaging.
Bump(b) == sameBatch' = (sameBatch /\ active # b)

\* wake(): start the loop, or have the running one started again.
Wake ==
  /\ phase' = IF ~stopped /\ ~timer /\ phase = "off" THEN "loop" ELSE phase
  /\ again' = (again \/ (~stopped /\ ~timer /\ phase # "off"))
  /\ UNCHANGED timer

\* prepareClear(): stage what is sure, unreviewed and still as analyzed.
Clear(b, sug, bef, sur) ==
  {e \in EntriesOf(b) : /\ sug[e] # None /\ e \in sur /\ e \notin applied
                        /\ e \notin protected /\ choice[e] = bef[e]}
PrepareClear(b, sug, bef, sur) ==
  LET clear == Clear(b, sug, bef, sur) IN
  /\ choice' = [e \in Entries |-> IF e \in clear THEN sug[e] ELSE choice[e]]
  /\ applied' = applied \union clear

-----------------------------------------------------------------------------
\* Requests.  One with a revision that is out of date is refused and changes
\* nothing, so the requests here carry the current ones.

\* start(): one job per batch, one running job; repeating a start is harmless.
Start(b) ==
  /\ up /\ batch[b] = "review"
  /\ \/ /\ job[b] = "none" /\ Running = {}
        /\ Save(b, "running")
        /\ asks' = [e \in Entries |-> IF BatchOf[e] = b THEN 0 ELSE asks[e]]
     \/ /\ job[b] # "none" /\ KeepJob /\ UNCHANGED asks
  /\ Wake
  /\ UNCHANGED <<rows, results, up, stopped, call, sameBatch, reviewed, cut, uncertain>>

\* control(pause): no revision asked for; only a running job is changed.  The
\* worker's call is aborted if it is this batch's.
Pause(b) ==
  /\ up /\ batch[b] = "review" /\ job[b] # "none"
  /\ IF job[b] = "running" THEN Save(b, "paused") ELSE KeepJob
  /\ aborted' = (aborted \/ active = b)
  /\ cut' = (cut \/ (active = b /\ job[b] = "running"))
  /\ UNCHANGED <<rows, results, up, stopped, worker, active, asked, sameBatch,
                 reviewed, asks, uncertain>>

\* control(resume)
\* DEFECT: another running job is not looked for.
NoOtherRuns(b) == TRUE
OnlyRunner(b) == Running \subseteq {b}
Resume(b) ==
  /\ up /\ batch[b] = "review" /\ job[b] # "none"
  /\ OnlyRunner(b)
  /\ Save(b, "running")
  /\ PrepareClear(b, suggested, before, sure)
  /\ IF Clear(b, suggested, before, sure) = {} THEN UNCHANGED sameBatch ELSE Bump(b)
  /\ Wake
  /\ asks' = [e \in Entries |-> IF BatchOf[e] = b THEN 0 ELSE asks[e]]
  /\ cut' = (cut \/ active = b)
  /\ uncertain' = uncertain \ {b}
  /\ UNCHANGED <<batch, file, suggested, before, sure, attempts, protected,
                 up, stopped, call, reviewed>>

\* assertEditable(), writeChoice(): the user files an entry under c; from then
\* on its place is reviewed.
\* DEFECT: the choice is written without its mark.
Unmarked(S) == UNCHANGED protected
Protect(S) == protected' = protected \union S
Edit(e, c) ==
  LET b == BatchOf[e] IN
  /\ up /\ batch[b] = "review" /\ job[b] # "running"
  /\ file[e] \in {"skipped", "policy"} => c = "skip"
  /\ choice' = [choice EXCEPT ![e] = c]
  /\ reviewed' = [reviewed EXCEPT ![e] = c]
  /\ Protect({e})
  /\ Bump(b)
  /\ UNCHANGED <<batch, file, job, suggested, before, sure, applied, attempts,
                 up, stopped, worker, call, sameJob, asks, cut, uncertain>>

\* apply(): file a set of unreviewed entries as suggested ("high", "selected"),
\* or leave the unresolved ones unfiled.
Unapplied(b) == {e \in EntriesOf(b) : /\ suggested[e] # None /\ e \notin applied
                                      /\ e \notin protected /\ choice[e] = before[e]}
Unresolved(b) ==
  {e \in EntriesOf(b) : /\ file[e] = "ready" /\ choice[e] \notin Reserved /\ e \notin protected
                        /\ \/ e \in Unapplied(b) \ sure
                           \/ suggested[e] = None /\ attempts[e] = 2}
Apply(b) ==
  /\ up /\ batch[b] = "review" /\ job[b] \notin {"none", "running"}
  /\ \/ \E chosen \in (SUBSET Unapplied(b)) \ {{}} :
          /\ choice' = [e \in Entries |-> IF e \in chosen THEN suggested[e] ELSE choice[e]]
          /\ applied' = applied \union chosen
          /\ Protect(chosen)
     \/ /\ Unresolved(b) # {}
        /\ choice' = [e \in Entries |-> IF e \in Unresolved(b) THEN "unfiled" ELSE choice[e]]
        /\ UNCHANGED applied
        /\ Protect(Unresolved(b))
  /\ reviewed' = [e \in Entries |-> IF e \in protected' \ protected THEN choice'[e] ELSE reviewed[e]]
  /\ Save(b, job[b])
  /\ Bump(b)
  /\ UNCHANGED <<batch, file, suggested, before, sure, attempts, up, stopped,
                 worker, call, asks, cut, uncertain>>

-----------------------------------------------------------------------------
\* Staging, meanwhile

\* The parser's outcome for a file.
Process(e, outcome) ==
  /\ up /\ batch[BatchOf[e]] = "review" /\ file[e] = "waiting"
  /\ file' = [file EXCEPT ![e] = outcome]
  /\ Bump(BatchOf[e])
  /\ UNCHANGED <<batch, choice, job, results, up, stopped, worker, call, sameJob, history>>

\* The import queue is paused, resumed or retried, or files are uploaded
\* (again): failed ones wait once more.
ControlQueue(b, retried) ==
  /\ up /\ batch[b] = "review"
  /\ \A e \in retried : file[e] = "error"
  /\ file' = [e \in Entries |-> IF e \in retried THEN "waiting" ELSE file[e]]
  /\ Bump(b)
  /\ UNCHANGED <<batch, choice, job, results, up, stopped, worker, call, sameJob, history>>

\* The batch is committed or discarded: refused while its job runs.
Finish(b, status) ==
  /\ up /\ batch[b] = "review" /\ job[b] # "running"
  /\ status = "committed" => /\ ~Policy(b) /\ ~Waiting(b) /\ ~Failed(b)
                             /\ \E e \in EntriesOf(b) : ~Excluded(e)
  /\ batch' = [batch EXCEPT ![b] = status]
  /\ IF status = "discarded"
     THEN /\ suggested' = [e \in Entries |-> IF BatchOf[e] = b THEN None ELSE suggested[e]]
          /\ before' = [e \in Entries |-> IF BatchOf[e] = b THEN None ELSE before[e]]
          /\ attempts' = [e \in Entries |-> IF BatchOf[e] = b THEN 0 ELSE attempts[e]]
          /\ sure' = sure \ EntriesOf(b) /\ applied' = applied \ EntriesOf(b)
          /\ protected' = protected \ EntriesOf(b)
     ELSE UNCHANGED results
  /\ Bump(b)
  /\ UNCHANGED <<file, choice, job, up, stopped, worker, call, sameJob, history>>

-----------------------------------------------------------------------------
\* The worker

\* The loop's head, up to the await.
LoopEnds ==
  /\ up /\ phase = "loop" /\ (stopped \/ Running = {})
  /\ phase' = "end"
  /\ UNCHANGED <<rows, job, results, up, stopped, timer, again, call, sameJob, sameBatch, history>>

LoopWaits(b) ==
  /\ up /\ phase = "loop" /\ ~stopped /\ b \in Running
  /\ Waiting(b)
  /\ timer' = TRUE /\ phase' = "end"
  /\ UNCHANGED <<rows, job, results, up, stopped, again, call, sameJob, sameBatch, history>>

\* No file of the batch may be omitted silently, none may be shared if the
\* batch states a local-only policy.
LoopFails(b) ==
  /\ up /\ phase = "loop" /\ ~stopped /\ b \in Running
  /\ ~Waiting(b)
  /\ Failed(b) \/ (NextFiles(b) # {} /\ Policy(b))
  /\ Save(b, "failed")
  /\ phase' = "end"
  /\ UNCHANGED <<rows, results, up, stopped, timer, again, call, sameBatch, history>>

LoopCompletes(b) ==
  /\ up /\ phase = "loop" /\ ~stopped /\ b \in Running
  /\ ~Waiting(b) /\ ~Failed(b) /\ NextFiles(b) = {}
  /\ Save(b, "complete")
  /\ UNCHANGED <<rows, results, up, stopped, worker, call, sameBatch, history>>

BeginCall(b) ==
  /\ up /\ phase = "loop" /\ ~stopped /\ b \in Running
  /\ ~Waiting(b) /\ ~Failed(b) /\ NextFiles(b) # {} /\ ~Policy(b)
  /\ phase' = "call"
  /\ active' = b /\ asked' = NextFiles(b) /\ aborted' = FALSE
  /\ asks' = [e \in Entries |-> IF e \in NextFiles(b) THEN asks[e] + 1 ELSE asks[e]]
  /\ UNCHANGED <<rows, job, results, up, stopped, timer, again, sameJob, sameBatch,
                 reviewed, cut, uncertain>>

EndCall == /\ active' = None /\ asked' = {} /\ aborted' = FALSE
           /\ sameJob' = TRUE /\ sameBatch' = TRUE /\ cut' = FALSE

\* The second organizationInput(), throwIfAborted() and saveResults() all
\* accept the answer.
\* DEFECT: only the job's status is looked at.
StillRunning == job[active] = "running"
AnswerAccepted ==
  /\ ~aborted /\ sameJob /\ sameBatch
  /\ active \in Running
  /\ ~Policy(active) /\ ~Waiting(active) /\ ~Failed(active)
  /\ \A e \in asked : file[e] = "ready" /\ choice[e] \notin Reserved

\* Every file asked for has a suggestion (place[e]) or a reason why not (None).
Answer(place, certain) ==
  LET b == active
      sug == [e \in Entries |-> IF e \in asked THEN place[e] ELSE suggested[e]]
      bef == [e \in Entries |-> IF e \in asked /\ place[e] # None THEN choice[e] ELSE before[e]]
      ok  == {e \in asked : place[e] # None}
  IN
  /\ up /\ phase = "call"
  /\ AnswerAccepted
  /\ suggested' = sug /\ before' = bef /\ sure' = sure \union (certain \intersect ok)
  /\ attempts' = [e \in Entries |-> IF e \in ok THEN 0
                                    ELSE IF e \in asked /\ attempts[e] < 2 THEN attempts[e] + 1
                                    ELSE attempts[e]]
  /\ PrepareClear(b, sug, bef, sure')
  /\ EndCall
  /\ phase' = "loop"
  /\ UNCHANGED <<batch, file, job, protected, up, stopped, timer, again, reviewed, asks, uncertain>>

\* The provider fails or is aborted, or the answer is not accepted: the job
\* fails unless somebody took it over meanwhile.
FailureIsOurs == ~stopped /\ active \in Running /\ sameJob
CallFails ==
  /\ up /\ phase = "call"
  /\ job' = IF FailureIsOurs THEN [job EXCEPT ![active] = "failed"] ELSE job
  /\ EndCall
  /\ phase' = "end"
  /\ UNCHANGED <<rows, results, up, stopped, timer, again, reviewed, asks, uncertain>>

\* finally { task = undefined; if (again) wake() }
\* DEFECT: nobody looks at the flag.
TaskEndsAsleep ==
  /\ up /\ phase = "end" /\ again' = FALSE /\ phase' = "off"
  /\ UNCHANGED <<rows, job, results, up, stopped, timer, call, sameJob, sameBatch, history>>
TaskEnds ==
  /\ up /\ phase = "end"
  /\ again' = FALSE
  /\ phase' = IF again /\ ~stopped /\ ~timer THEN "loop" ELSE "off"
  /\ UNCHANGED <<rows, job, results, up, stopped, timer, call, sameJob, sameBatch, history>>

\* One second later the files are looked at again.
TimerFires ==
  /\ up /\ timer
  /\ timer' = FALSE
  /\ phase' = IF ~stopped /\ phase = "off" THEN "loop" ELSE phase
  /\ again' = (again \/ (~stopped /\ phase # "off"))
  /\ UNCHANGED <<rows, job, results, up, stopped, call, sameJob, sameBatch, history>>

-----------------------------------------------------------------------------
\* The process

\* stop(): with a task or a timer, the running job is paused and its call aborted.
Stop ==
  /\ up /\ ~stopped
  /\ stopped' = TRUE /\ timer' = FALSE
  /\ IF phase = "off" /\ ~timer THEN KeepJob /\ UNCHANGED aborted
     ELSE /\ IF Running = {} THEN KeepJob
             ELSE \E b \in Running : Save(b, "paused")
          /\ aborted' = (phase = "call")
  /\ UNCHANGED <<rows, results, up, again, phase, active, asked, sameBatch, history>>

\* The process ends, at any moment.
Exit ==
  /\ up
  /\ up' = FALSE /\ stopped' = FALSE /\ timer' = FALSE /\ again' = FALSE /\ phase' = "off"
  /\ EndCall
  /\ uncertain' = uncertain \union ({active} \ {None})
  /\ UNCHANGED <<rows, job, results, reviewed, asks>>

\* recover(): a job the last process left running is paused.
RecoveredStatus == "paused"
Launch ==
  /\ ~up /\ up' = TRUE
  /\ job' = [b \in Batches |-> IF job[b] = "running" THEN RecoveredStatus ELSE job[b]]
  /\ UNCHANGED <<rows, results, stopped, worker, call, sameJob, sameBatch, history>>

-----------------------------------------------------------------------------
\* Batches have been created; those with suggestions of an older build have a
\* job that paused.
Init ==
  /\ batch = [b \in Batches |-> "review"]
  /\ file = [e \in Entries |-> IF e \in Retained THEN "ready" ELSE "waiting"]
  /\ choice = [e \in Entries |-> "unfiled"]
  /\ job = [b \in Batches |-> IF \E e \in Retained : BatchOf[e] = b THEN "paused" ELSE "none"]
  /\ suggested \in [Entries -> Places \union {None}]
  /\ \A e \in Entries : (suggested[e] # None) = (e \in Retained)
  /\ before = [e \in Entries |-> IF e \in Retained THEN "unfiled" ELSE None]
  /\ sure = Retained /\ applied = {} /\ protected = {}
  /\ attempts = [e \in Entries |-> 0]
  /\ up = TRUE /\ stopped = FALSE /\ timer = FALSE /\ again = FALSE /\ phase = "off"
  /\ active = None /\ asked = {} /\ aborted = FALSE /\ sameJob = TRUE /\ sameBatch = TRUE
  /\ reviewed = [e \in Entries |-> None]
  /\ asks = [e \in Entries |-> 0]
  /\ cut = FALSE /\ uncertain = {}

User ==
  \/ \E b \in Batches : Start(b) \/ Pause(b) \/ Resume(b) \/ Apply(b)
  \/ \E e \in Entries, c \in Choices : Edit(e, c)

Staging ==
  \/ \E e \in Entries, outcome \in Outcomes : Process(e, outcome)
  \/ \E b \in Batches : \E retried \in SUBSET EntriesOf(b) : ControlQueue(b, retried)
  \/ \E b \in Batches, status \in {"committed", "discarded"} : Finish(b, status)

Loop ==
  \/ LoopEnds
  \/ \E b \in Batches : LoopWaits(b) \/ LoopFails(b) \/ LoopCompletes(b) \/ BeginCall(b)

ModelAnswers ==
  \E place \in [asked -> (Choices \ {"skip"}) \union {None}], certain \in SUBSET asked :
    Answer(place, certain)

Worker == Loop \/ ModelAnswers \/ CallFails \/ TaskEnds \/ TimerFires

Next == User \/ Staging \/ Worker \/ Stop \/ Exit \/ Launch

Spec == Init /\ [][Next]_vars

\* JavaScript runs the loop, its microtasks and its timer; a call is aborted
\* after 120 seconds at the latest (chat.ts, runDraft).
FairSpec == Spec /\ WF_vars(Loop) /\ WF_vars(ModelAnswers \/ CallFails)
                 /\ WF_vars(TaskEnds) /\ WF_vars(TimerFires)
-----------------------------------------------------------------------------
TypeOK ==
  /\ batch \in [Batches -> {"review", "committed", "discarded"}]
  /\ file \in [Entries -> {"waiting", "ready", "error", "skipped", "policy"}]
  /\ choice \in [Entries -> Choices]
  /\ job \in [Batches -> {"none", "running", "paused", "complete", "failed"}]
  /\ suggested \in [Entries -> Choices \union {None}] /\ before \in [Entries -> Choices \union {None}]
  /\ sure \subseteq Entries /\ applied \subseteq Entries /\ protected \subseteq Entries
  /\ attempts \in [Entries -> 0..2]
  /\ up \in BOOLEAN /\ stopped \in BOOLEAN /\ timer \in BOOLEAN /\ again \in BOOLEAN
  /\ phase \in {"off", "loop", "call", "end"}
  /\ active \in Batches \union {None} /\ asked \subseteq Entries
  /\ sameJob \in BOOLEAN /\ sameBatch \in BOOLEAN /\ aborted \in BOOLEAN
  /\ reviewed \in [Entries -> Choices \union {None}] /\ asks \in [Entries -> Nat]
  /\ cut \in BOOLEAN /\ uncertain \subseteq Batches

\* At most one job runs, and only for a batch still in review: starting,
\* resuming and finishing exclude each other across batches.
OneJobRuns ==
  \A b, c \in Batches : job[b] = "running" =>
    batch[b] = "review" /\ (job[c] = "running" => b = c)

\* No wake-up is lost: while a job runs in an open application, the worker's
\* loop, its call or its timer is under way, or the loop that ends starts again.
RunningJobsAreServed ==
  up /\ ~stopped /\ Running # {} =>
    timer \/ phase \in {"loop", "call"} \/ (phase = "end" /\ again)

\* imports.ts:571: "User edits always remain protected."  Once the user filed
\* an entry himself, or accepted a suggestion for it, no call in flight, no
\* later run and no resume files it elsewhere.
ReviewedChoicesKept ==
  \A e \in Entries : reviewed[e] # None => choice[e] = reviewed[e]

\* Until the user resumes the job, a file is shared with the model at most
\* twice: once, and once more for its repair.
AskedAtMostTwice == \A e \in Entries : asks[e] <= 2

\* import-organization-jobs.ts:54: an application that was interrupted during a
\* call does not silently send that batch to the model again.
InterruptedCallsNotRepeated ==
  [][\A b \in Batches : active # b /\ active' = b => b \notin uncertain]_vars

\* The answer to a call during which the user paused the job is never saved,
\* not even if he resumed it before the answer came.
CutAnswersDropped ==
  [][\A e \in asked : suggested'[e] # suggested[e] => ~cut]_vars

\* A job completes when every included file is processed and analyzed, reviewed
\* or tried twice: none is omitted silently.
CompleteMeansSettled ==
  [][\A b \in Batches : job[b] # "complete" /\ job'[b] = "complete" =>
       \A e \in EntriesOf(b) :
         \/ Excluded(e)
         \/ file[e] = "ready" /\ (\/ choice[e] = "profile" \/ suggested[e] # None
                                  \/ e \in protected \/ attempts[e] = 2)]_vars

\* The rows that staging shares with organization change as ImportContract says.
Shared == INSTANCE ImportContract WITH
  included <- {e \in Entries : choice[e] # "skip"},
  organizing <- {b \in Batches : job[b] = "running"}
ImplementsImportContract == Shared!Spec

\* Calls are made, cut and given up as PaidCalls says.  A pause, a resume and a
\* stop of the application cut the call in flight; an answer that was retained
\* is never replaced by a later one.
Calls == INSTANCE PaidCalls WITH
  Callers <- Batches, Answers <- Entries \X Choices,
  wanted <- Running, calling <- active,
  cut <- cut \/ (stopped /\ active # None),
  doubtful <- uncertain,
  retained <- {<<e, suggested[e]>> : e \in {x \in Entries : suggested[x] # None}}
ImplementsPaidCalls == Calls!Spec

\* A running job ends, pauses, fails or waits for files, provided the user does
\* not resume it over and over.
JobsEnd ==
  (<>[][~\E b \in Batches : Resume(b)]_vars) =>
    \A b \in Batches : b \in Running ~> (b \notin Running \/ Waiting(b) \/ stopped \/ ~up)
=============================================================================
