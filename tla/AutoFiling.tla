------------------------------ MODULE AutoFiling ------------------------------
(***************************************************************************)
(* Background AI filing suggestions for unfiled documents.                 *)
(*   runtime/src/workspace/auto-filing.ts         settings, tasks, results *)
(*   runtime/src/workspace/auto-filing-schema.ts  triggers                 *)
(*   runtime/src/workspace/auto-filing-worker.ts  the loop                 *)
(*   runtime/src/workspace/chat.ts                enable and control       *)
(*                                                                         *)
(* A claim and everything up to the provider call is one synchronous       *)
(* stretch, so a call is asked about exactly what was claimed.  There is   *)
(* one call at a time: the generation of a task and its run id only tell   *)
(* whether the task is still the one claimed, which is that it is still    *)
(* running.  The order of the queue and requests that arrive while the     *)
(* application stops are left out.                                         *)
(***************************************************************************)
EXTENDS Naturals, FiniteSets

CONSTANTS
  Sources,      \* retained documents
  MaxVersion,   \* bound: versions of a document
  Private,      \* versions that are local-only, profiles or unreadable
  MaxMatters,   \* bound: matters added
  Instructions, \* filing instructions of the user
  Limit         \* documents per request (8 in the code)

ASSUME FilingAssumption ==
  /\ MaxVersion \in Nat \ {0} /\ Private \subseteq 1..MaxVersion
  /\ MaxMatters \in Nat /\ Limit \in Nat \ {0} /\ Instructions # {}

\* importLinkDigest([version, candidate matters, instruction])
Fingerprints == [version : 1..MaxVersion, matters : 0..MaxMatters, instruction : Instructions]

VARIABLES
  version,        \* the current version of each document
  explicit,       \* auto_filing_protection: filed or linked by hand, ever
  matters,        \* the candidate matters
  mode,           \* auto_filing_settings: off, running, paused or failed
  instruction,
  marker,         \* activeRunId is set
  task,           \* auto_filing_tasks.state
  result,         \* auto_filing_results.state, for each fingerprint
  app,            \* the application: open, stopping or closed
  chatting,       \* a chat response runs
  asked,          \* the fingerprints a call in flight was asked about
  calling,        \* the worker awaits the provider
  same,           \* the settings revision is still the one of the claim
  aborted,        \* the call was aborted
  fresh, sawRunning, \* the window: its settings revision is current, it showed a run
  shown,          \* the suggestions it shows
  interrupted,    \* the application ended with a call in flight (history)
  errored         \* a call failed by itself (history); both until resumed

documents == <<version, explicit, matters>>
settings  == <<mode, instruction, marker>>
call      == <<asked, calling, same, aborted>>
window    == <<fresh, sawRunning, shown>>
history   == <<interrupted, errored>>
vars == <<documents, settings, task, result, app, chatting, call, window, history>>

Fingerprint(s)    == [version |-> version[s], matters |-> matters, instruction |-> instruction]
Readable(s) == s \notin explicit /\ version[s] \notin Private
Queued      == {s \in Sources : task[s] = "queued"}
Running     == {s \in Sources : task[s] = "running"}
With(S, state) == [s \in Sources |-> IF s \in S THEN state ELSE task[s]]
\* UPDATE auto_filing_results SET state='superseded' WHERE ... state='ready'
Supersede(S) ==
  [s \in Sources |-> [f \in Fingerprints |->
     IF s \in S /\ result[s][f] = "ready" THEN "superseded" ELSE result[s][f]]]

\* Every save() gives the settings a new revision.
NewRevision == same' = FALSE /\ fresh' = FALSE

-----------------------------------------------------------------------------
\* The triggers, in the transaction that changes a document or a matter

Revise(s) ==
  /\ app = "open" /\ version[s] < MaxVersion
  /\ version' = [version EXCEPT ![s] = @ + 1]
  /\ task' = With({s}, "queued") /\ result' = Supersede({s})
  /\ UNCHANGED <<explicit, matters, settings, app, chatting, call, window, history>>

\* DEFECT: the open suggestion stays.
Untouched(S) == result
ByHand(S) == Supersede(S)
FileByHand(s) ==
  /\ app = "open"
  /\ explicit' = explicit \union {s}
  /\ task' = With({s}, "protected") /\ result' = ByHand({s})
  /\ UNCHANGED <<version, matters, settings, app, chatting, call, window, history>>

AddMatter ==
  /\ app = "open" /\ matters < MaxMatters
  /\ matters' = matters + 1
  /\ task' = With(Sources \ explicit, "queued")
  /\ UNCHANGED <<version, explicit, settings, result, app, chatting, call, window, history>>

-----------------------------------------------------------------------------
\* The user

EnqueueUnfiled == task' = With(Sources \ explicit, "queued")

Enable(i) ==
  /\ app = "open" /\ (fresh \/ mode = "off")
  /\ mode' = "running" /\ instruction' = i
  /\ EnqueueUnfiled /\ NewRevision
  /\ aborted' = calling
  /\ interrupted' = FALSE /\ errored' = FALSE
  /\ UNCHANGED <<documents, marker, result, app, chatting, asked, calling, sawRunning, shown>>

\* A pause needs no current revision; it is retained with the completed work.
Pause ==
  /\ app = "open" /\ mode # "off"
  /\ mode' = "paused" /\ NewRevision /\ aborted' = calling
  /\ UNCHANGED <<documents, instruction, marker, task, result, app, chatting, asked, calling,
                 sawRunning, shown, history>>

\* A window shows the button for the mode it knows, which is the current one.
Resume ==
  /\ app = "open" /\ mode \in {"paused", "failed"} /\ fresh
  /\ mode' = "running" /\ EnqueueUnfiled /\ NewRevision
  /\ interrupted' = FALSE /\ errored' = FALSE
  /\ UNCHANGED <<documents, instruction, marker, result, app, chatting, asked, calling, aborted,
                 sawRunning, shown>>

\* "Check unfiled files" is disabled in a window that shows a run.
Check ==
  /\ app = "open" /\ mode # "off" /\ fresh /\ ~sawRunning
  /\ EnqueueUnfiled /\ NewRevision
  /\ UNCHANGED <<documents, settings, result, app, chatting, asked, calling, aborted,
                 sawRunning, shown, history>>

Show ==
  /\ app = "open"
  /\ fresh' = TRUE /\ sawRunning' = (Running # {})
  /\ shown' = {i \in Sources \X Fingerprints : result[i[1]][i[2]] = "ready"}
  /\ UNCHANGED <<documents, settings, task, result, app, chatting, call, history>>

\* review(): all the selected suggestions or none; the record is read again.
Current(i) == result[i[1]][i[2]] = "ready" /\ Readable(i[1]) /\ i[2] = Fingerprint(i[1])
Review(items, apply) ==
  LET files == {i[1] : i \in items}
      outcome == IF apply THEN "applied" ELSE "dismissed"
      left == IF apply THEN Supersede(files) ELSE result
  IN /\ app = "open" /\ items # {} /\ items \subseteq shown
     /\ \A i \in items : Current(i)
     /\ result' = [s \in Sources |-> [f \in Fingerprints |->
                     IF <<s, f>> \in items THEN outcome ELSE left[s][f]]]
     /\ explicit' = IF apply THEN explicit \union files ELSE explicit
     /\ task' = IF apply THEN With(files, "protected") ELSE task
     /\ UNCHANGED <<version, matters, settings, app, chatting, call, window, history>>

-----------------------------------------------------------------------------
\* The worker

\* Results that answer for the document as it is: of the same fingerprint, or
\* a dismissal of the same version.
Dismissals(s) == {f \in Fingerprints : result[s][f] = "dismissed" /\ f.version = version[s]}
Answered(s) == result[s][Fingerprint(s)] # "none" \/ Dismissals(s) # {}

\* One of these rows is taken, whichever the database finds first; a superseded
\* suggestion is open again when it is the one.
MayRevive(s) == result[s][Fingerprint(s)] = "superseded"
MustRevive(s) == MayRevive(s) /\ Dismissals(s) = {}

MayCall == mode = "running" /\ ~marker

\* claim(): the queue is gone through until the request is full.
Claim ==
  /\ app = "open" /\ ~calling /\ ~chatting /\ MayCall
  /\ \E seen \in SUBSET Queued, revived \in SUBSET Queued :
       LET open  == {s \in seen : Readable(s)}
           files == {s \in open : ~Answered(s)}
       IN /\ seen # {} /\ Cardinality(files) <= Limit
          /\ seen = Queued \/ Cardinality(files) = Limit
          /\ revived \subseteq {s \in open : MayRevive(s)}
          /\ {s \in open : MustRevive(s)} \subseteq revived
          /\ task' = [s \in Sources |->
               IF s \notin seen THEN task[s]
               ELSE IF s \in explicit THEN "protected"
               ELSE IF s \in files THEN "running"
               ELSE IF s \in open THEN "complete" ELSE "blocked"]
          /\ result' = [s \in Sources |->
               IF s \in revived THEN [result[s] EXCEPT ![Fingerprint(s)] = "ready"]
               ELSE Supersede(files)[s]]
          /\ asked' = [s \in files |-> Fingerprint(s)]
          /\ calling' = (files # {}) /\ marker' = (files # {})
          /\ IF files = {} THEN UNCHANGED <<same, aborted, fresh>>
             ELSE same' = TRUE /\ aborted' = FALSE /\ fresh' = FALSE
  /\ UNCHANGED <<documents, mode, instruction, app, chatting, sawRunning, shown, history>>

\* release(): what the call still holds is queued again.
\* DEFECT: the tasks stay as they are.
KeepTasks == UNCHANGED task
Release == task' = With(Running, "queued")
\* DEFECT: the marker of the call stays.
MarkerStays == calling' = FALSE /\ asked' = <<>> /\ aborted' = FALSE /\ UNCHANGED marker /\ NewRevision
CallEnds == calling' = FALSE /\ asked' = <<>> /\ aborted' = FALSE /\ marker' = FALSE /\ NewRevision

\* complete() under other settings: nothing is retained.
AnswerDropped ==
  /\ app # "closed" /\ calling /\ ~aborted
  /\ ~same \/ mode # "running"
  /\ Release /\ CallEnds
  /\ UNCHANGED <<documents, mode, instruction, result, app, chatting, sawRunning, shown, history>>

\* What the answer is retained for: tasks still claimed, of unchanged documents.
\* DEFECT: everything that was asked about.
AllAsked(s) == TRUE
Unchanged(s) == task[s] = "running" /\ Readable(s) /\ asked[s] = Fingerprint(s)
Answer(bad) ==
  LET kept == {s \in DOMAIN asked : Unchanged(s)} \ bad
  IN /\ app # "closed" /\ calling /\ ~aborted
     /\ same /\ mode = "running"
     /\ bad \subseteq Running   \* suggestions without evidence in the file
     /\ result' = [s \in Sources |->
          IF s \in kept /\ result[s][asked[s]] = "none"
          THEN [result[s] EXCEPT ![asked[s]] = "ready"] ELSE result[s]]
     /\ task' = [s \in Sources |->
          IF s \in kept THEN "complete"
          ELSE IF s \notin Running THEN task[s]
          ELSE IF s \in bad \/ ~Readable(s) THEN "blocked" ELSE "queued"]
     /\ CallEnds
     /\ UNCHANGED <<documents, mode, instruction, app, chatting, sawRunning, shown, history>>

\* fail(): an error, an incomplete answer or an abort.
CallFails ==
  /\ app # "closed" /\ calling
  /\ Release /\ CallEnds
  /\ mode' = IF same THEN "failed" ELSE mode
  /\ errored' = (errored \/ ~aborted)
  /\ UNCHANGED <<documents, instruction, result, app, chatting, sawRunning, shown, interrupted>>

-----------------------------------------------------------------------------
Chat ==
  /\ app = "open" /\ chatting' = ~chatting
  /\ UNCHANGED <<documents, settings, task, result, app, call, window, history>>

Stop ==
  /\ app = "open" /\ app' = "stopping" /\ aborted' = calling
  /\ UNCHANGED <<documents, settings, task, result, chatting, asked, calling, same, window, history>>

\* The process ends, at any moment.
Exit ==
  /\ app # "closed" /\ app' = "closed"
  /\ interrupted' = (interrupted \/ calling)
  /\ calling' = FALSE /\ asked' = <<>> /\ aborted' = FALSE /\ same' = FALSE /\ chatting' = FALSE
  /\ UNCHANGED <<documents, settings, task, result, window, errored>>

\* recover(): a call that was in flight is not repeated without the user.
\* DEFECT: only the tasks tell of a call.
TasksTell == Running # {}
WasCalling == marker \/ Running # {}
Launch ==
  /\ app = "closed" /\ app' = "open"
  /\ marker' = FALSE /\ task' = With(Running, "queued")
  /\ IF WasCalling
     THEN fresh' = FALSE /\ mode' = IF mode = "off" THEN mode ELSE "paused"
     ELSE UNCHANGED <<fresh, mode>>
  /\ UNCHANGED <<documents, instruction, result, chatting, call, sawRunning, shown, history>>

-----------------------------------------------------------------------------
Init ==
  /\ version \in [Sources -> {1}] /\ explicit = {} /\ matters = 0
  /\ mode = "off" /\ instruction \in Instructions /\ marker = FALSE
  /\ task = [s \in Sources |-> "queued"] /\ result = [s \in Sources |-> [f \in Fingerprints |-> "none"]]
  /\ app = "open" /\ chatting = FALSE
  /\ asked = <<>> /\ calling = FALSE /\ same = FALSE /\ aborted = FALSE
  /\ fresh = FALSE /\ sawRunning = FALSE /\ shown = {}
  /\ interrupted = FALSE /\ errored = FALSE

User ==
  \/ \E s \in Sources : Revise(s) \/ FileByHand(s)
  \/ AddMatter
  \/ \E i \in Instructions : Enable(i)
  \/ Pause \/ Resume \/ Check \/ Show
  \/ \E items \in SUBSET shown, apply \in BOOLEAN : Review(items, apply)

CallReturns == AnswerDropped \/ CallFails \/ \E bad \in SUBSET Sources : Answer(bad)
Worker == Claim \/ CallReturns

Next == User \/ Worker \/ Chat \/ Stop \/ Exit \/ Launch

Spec == Init /\ [][Next]_vars

\* The worker wakes every 1.5 seconds; a request is aborted after 120 seconds.
FairSpec == Spec /\ WF_vars(Claim) /\ WF_vars(CallReturns)
-----------------------------------------------------------------------------
TypeOK ==
  /\ version \in [Sources -> 1..MaxVersion] /\ explicit \subseteq Sources /\ matters \in 0..MaxMatters
  /\ mode \in {"off", "running", "paused", "failed"} /\ instruction \in Instructions /\ marker \in BOOLEAN
  /\ task \in [Sources -> {"queued", "running", "complete", "blocked", "protected"}]
  /\ result \in [Sources -> [Fingerprints -> {"none", "ready", "applied", "dismissed", "superseded"}]]
  /\ app \in {"open", "stopping", "closed"} /\ chatting \in BOOLEAN
  /\ DOMAIN asked \subseteq Sources /\ \A s \in DOMAIN asked : asked[s] \in Fingerprints
  /\ calling \in BOOLEAN /\ same \in BOOLEAN /\ aborted \in BOOLEAN
  /\ fresh \in BOOLEAN /\ sawRunning \in BOOLEAN /\ shown \subseteq Sources \X Fingerprints
  /\ interrupted \in BOOLEAN /\ errored \in BOOLEAN
  /\ calling <=> asked # <<>>
  /\ mode = "off" => ~marker /\ Running = {}

\* auto-filing-schema.ts:31 "An explicit filing or matter-link choice is
\* preserved": no suggestion is open for a document that was filed by hand,
\* however the filing, a call in flight and a review interleave.
ExplicitChoicesWin ==
  \A s \in explicit, f \in Fingerprints : result[s][f] # "ready"

\* A running task is held by the marker and, while the application is open, by
\* a call that will release it: none is left behind by an abort, by changed
\* settings or by a crash.
RunningTasksAreHeld ==
  /\ Running # {} => marker
  /\ app = "open" => (marker = calling) /\ Running \subseteq DOMAIN asked

\* A suggestion opens only for the document, the matters and the instruction
\* of that moment, however late its answer is.
OpenedSuggestionsAreCurrent ==
  [][\A s \in Sources, f \in Fingerprints :
       result[s][f] # "ready" /\ result'[s][f] = "ready" => f = Fingerprint(s)]_vars

\* A call that was in flight when the application ended may have been paid
\* for: nothing is sent before the user enables or resumes, even if every
\* document of the call changed meanwhile.
InterruptedCallsWait == [][Claim => ~interrupted]_vars

\* Calls are made, cut and given up as PaidCalls says: only a call under the
\* settings it was claimed with retains suggestions or fails the filing, and
\* what was interrupted waits for the user.
Calls == INSTANCE PaidCalls WITH
  Callers <- {"filing"}, Answers <- Sources \X Fingerprints, None <- "none",
  wanted <- IF mode = "running" THEN {"filing"} ELSE {},
  calling <- IF calling THEN "filing" ELSE "none",
  cut <- calling /\ ~same,
  doubtful <- IF interrupted THEN {"filing"} ELSE {},
  retained <- {i \in Sources \X Fingerprints : result[i[1]][i[2]] # "none"}
ImplementsPaidCalls == Calls!Spec

\* docs/architecture/standalone-workspace.md:159: "Errors and interrupted paid
\* requests require explicit resume".
ErrorsWaitForResume == [][Claim => ~errored]_vars

\* Every queued document is settled, while AI filing runs, no chat response
\* does and everything else is left alone.
QueuedDocumentsAreSettled ==
  <>[](app = "open" /\ ~chatting /\ mode = "running") /\ <>[][Worker]_vars =>
    \A s \in Sources : task[s] \in {"queued", "running"} ~> task[s] \notin {"queued", "running"}
=============================================================================
