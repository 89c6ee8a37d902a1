# Verification of the Counsel OS workspace engine

This directory holds TLA+ models of the workspace engine of Counsel OS
(`src/runtime/src/workspace/`), TLC configurations that check them on small
instances, and theorems about them that TLAPS proves for every value of the
constants. File names below are relative to `src/runtime/src/workspace/` unless
they say otherwise. `PROJECT.json` is the index: it maps each definition to the
lines it models, lists the runs with their properties, a broken variant of the
code for each property (a "mutant", marked `DEFECT` in the modules), the hazards
of the code and the theorems.

## 1. The system

Counsel OS is a local-first legal workspace. Its engine is one Bun process with
one JavaScript thread and one SQLite database beside a directory of retained
originals. Browser windows (or the macOS shell's) talk to it over local HTTP.
Chat, organization and filing call paid external models.

Two facts decide how everything is modelled:

- **One thread.** A handler runs without interruption up to its next `await`.
  `db.transaction(...).immediate()` is synchronous. So an action of a module is a
  stretch between awaits, and interleaving happens exactly at awaits, timers
  and the boundaries of requests. What was read before an await is remembered in a
  variable and may be stale after it.
- **One process.** A crash loses everything that is not in SQLite and can come
  between two transactions of the same stretch. Where a stretch has several
  transactions (an upkeep pulse) the model splits it there, so that a crash can
  come between them.

Revision ids are fresh UUIDs used for compare-and-swap. All a handler learns from
one is whether it is still the current one; the modules keep that fact (`view`,
`fresh`, `same`, `sameJob`, `shown`) rather than the id.

### Inventory

| Component | State it keeps | Operations | What makes it hard | What makes it correct |
|---|---|---|---|---|
| Staged imports (`imports.ts`) | batches, entries, pause flags, extracted text; in memory a timer, a parse task, a fault | create, upload, parse, retry, pause, edit, discard, commit | parser answers after an await; windows act on old revisions; lost receipts; crash; 250 MB budget | acknowledged originals are kept, text belongs to its original, what is committed was reviewed, a finished batch is final |
| AI organization of imports (`import-organization-*.ts`) | one job per batch, results, attempts, protected files; in memory the one worker | start, pause, resume, call, save, apply | late answers, pause and resume within a call, a wake-up lost at the end of a loop, crash in a paid call | reviewed choices stay, one job at a time, no file omitted or asked for a third time, no silent repetition |
| Chat responses (`chat.ts`, `conversations.ts`, `conversation-lifecycle.ts`) | turns, works, life cycle; in memory slots, turn objects, abort signals | send, stream, stop, fail, time out, commit, recover, archive, trash, restore | stop races the commit, a provider that never answers, repeated sends, stop of the application | one response per conversation, ended turns are final, work exactly with completion, slots are freed |
| Upkeep (`upkeep*.ts`, `source-links-schema.ts`) | queue, runs, findings, dismissals, link refresh flag | triggers, pulse, request, decide | changes during a pulse, damaged records, crash between transactions | no stale finding is forgotten, a completed run is current, what the user left as it is stays hidden until its records change, runs end |
| Background AI filing (`auto-filing*.ts`) | settings, tasks, results, protected sources; in memory one worker | enable, pause, resume, check, claim, answer, fail, review, recover | the same hazards as organization, plus triggers that change tasks in flight | filing by hand wins, no suggestion for an old version, no repeated paid call |
| Brief and knowledge proposals (`chat-tools.ts`, `brief-proposals.ts`, `context-library.ts`, `store.ts`) | proposals inside turns, the pinned library, briefs and practice items with revisions | pin, read, propose, commit, review, undo | a proposal is made from a brief that changes before the response completes | nothing unseen is overwritten, undo restores exactly, edits leave the baseline |
| Drafts (`drafts.ts`, `ui/.../draft-recovery.ts`) | a row per draft; in each window text, revision, a pending write | save, retry, consume, reload | lost responses, two windows, autosave after sending | a sent message does not come back, no blind overwrite |
| Workspace lock (`lock.ts`) | mutex database, pid file | lock, release, crash | two launchers, stale pid | one engine per workspace |
| Originals (`store.ts` retainDocument) | content-addressed files and rows | retain, roll back, commit | files and rows are not one transaction | a row's file is whole |
| Backup, restore, upgrade | archives, copies, markers | back up, verify, restore, migrate | crash at any step | the live workspace survives, an incomplete copy is refused |
| Record life cycle (`record-lifecycle.ts`, `import-maintenance.ts`) | trash states, import receipts | trash, restore, delete, undo import | use by running work | nothing in use disappears |
| Library, search, retrieval, exports, redlines | SQLite rows, generated files | edits, queries, conversions | data rather than control | see unit tests |
| Providers (`codex.ts`, `claude-code.ts`, `connection.ts`) | external processes | run, abort | late or no answers | their use is modelled in the modules above |
| HTTP, windows, legacy runtime, browser helper, macOS shell, scripts | — | — | — | not modelled, see section 7 |

Interactions: a parse changes batches that organization reads (`organizing` in
`ImportStaging`, the staging actions in `ImportOrganization`); a running response
holds back upkeep and filing (`busy`, `chatting`); document and matter edits
enqueue upkeep and filing by triggers in the same transaction; a commit of an
import publishes sources, which are new records for both.

## 2. Plan

Most important first; the first eight are in place (section 3).

1. `ImportStaging`, `ImportStagingProofs` — done.
2. `ImportOrganization`, `ImportOrganizationProofs` — done.
3. `TurnContract` (abstract), `ChatTurns`, `ChatTurnsProofs` (refinement) — done.
4. `Upkeep`, `UpkeepProofs` — done.
5. `AutoFiling`, `AutoFilingProofs` — done.
6. `ChatDrafts`, `ChatDraftsProofs` — done for the draft of a conversation.
7. `ExclusiveUse` (abstract), `WorkspaceStorage`, `WorkspaceStorageProofs`
   (refinement) — done.
8. `ResponseRecords`, `ResponseRecordsProofs` — done.
9. Later: review of preferences and of the practice document, work records and
   document rounds, the legacy runtime's threads and event streams, the browser helper's buffers, the window's uploader.

The abstract specifications are all in place: `TurnContract`, `ExclusiveUse`,
`ImportContract` (what staging and organization promise each other about the rows
they share, implemented by both) and `PaidCalls` (what the calls of a paid model
promise the user, implemented by organization and by filing).

Modules that are proved about use no RECURSIVE operator; parameters are constants
with named assumptions; an invariant is a conjunction of named parts.

## 3. Modules

**`ImportStaging`** models `imports.ts`. `batch`, `paused`, the columns `status`,
`bytes`, `hash`, `text`, `dest` and `meta` are SQLite rows; `timer`, `task`,
`fault` and `waiting` are the dispatcher's memory. `Create`, `Receive`,
`Control`, the edits, `Discard` and `Commit` are the handlers; `Dispatch` is the
timer's callback up to the parser's await: it reads the bytes of the row into
`given`, and `ParseSucceeds`, one of the outcomes with `ParseFails` and
`ParseDropped`, writes the text of `given`, whatever the row holds by then. The
wake-up in the task's `finally` is part of each outcome; `Stop`, crash and relaunch
end and begin the process. `view[w]` is what a window was shown while its revision
id is still the batch's: a page of at most `PageSize` rows and the number of files a
commit would import. Every write of the batch (`Bump`) draws a new id and so takes
the view from all windows, and nothing is said of rows that a window was not shown.
A dialog that keeps an older page, and a request for filing suggestions that awaits
the model, are windows of their own. A content is a member of `Versions`; locality
labels and text size are functions of it.

**`ImportOrganization`** models the job rows and the worker. `Loop` is the
synchronous stretch from the head of the loop to the await of the model;
`ModelAnswers` and `CallFails` are what follows; `TaskEnds` is the `finally` in a
microtask of its own, where a wake-up asked for meanwhile is honoured. Staging
appears as what may happen to a file (`waiting`, `ready`, `error`, `skipped`).

**`ImportContract`** is what the two modules above share: the status of batches and
files, which files are kept, and which batch is organized. Each of them models its
own side in detail and takes the other for an environment (`organizing` and its
changes in `ImportStaging`, `Process`, `ControlQueue` and `Finish` in
`ImportOrganization`). Both implement the contract, so what either takes the other to
do stays within what the other is shown to do or what both are held to. The
refinement mappings are the identity on the rows; a choice counts only as "kept" or
"left out". Every action of the contract is one that several handlers map to: `Rest`
stands for a pause, a completion, a failure, a stop and the recovery at launch.

**`PaidCalls`** is what a paid call promises, whoever makes it: one at a time, for a
caller the user lets run (`wanted`) and not while its last call is `doubtful`; a call
that was cut leaves no answer, and does not fail a caller that was resumed since;
what is `retained` is added to and never replaced. `ImportOrganization` implements it
with a caller per batch, `AutoFiling` with one caller. What counts as a cut differs:
in organization a pause, a resume or a stop of the application during the call
(`cut`, a history variable, and `stopped`), in filing any new revision of the settings
(`~same`), which a pause, a resume, an enabling and a check give them.

**`TurnContract`** says what a chat response promises without slots, objects or
signals: one running response per conversation, each ends once, work is recorded
exactly with a completion. **`ChatTurns`** is the
engine: `Start` is the send handler to the creation of the slot, `RunBegins`
the deferred start, `Progress`, `Completes`, `Fails` the events of the provider,
`Deadline` the five-minute signal, `FreeSlot` the `finally` after the provider
closed. `ChatTurns` implements `TurnContract` under the identity on the rows.

**`Upkeep`** models triggers, the link refresh flag, pulses and decisions. A
pulse is several transactions (`PulseRequests`, `PulseTakes` with the refresh, a
`PulseChecks` per record, `PulseEnds`), and the process can end between any two. A record's content stands for
all a check reads, the digest of a finding is the contents it was made from, and
the finding codes of one record are folded into one. A note refers to other
records, so a change of a file changes the finding of the note. The order in which
an `INSERT ... SELECT` lists the records it queues is left open.

**`AutoFiling`** models settings, tasks, results and the worker. A fingerprint
is a record of version, candidate matters and instruction. `Claim` is the
transaction and everything up to the provider call; `AnswerDropped`, `Answer`
and `CallFails` are the transactions after the await. Since there is one call at
a time, a task's generation and run id tell only whether the task is still the
one claimed, which is that it is still running (each trigger that raises the
generation also takes the task out of `running`); they are not variables.

**`ChatDrafts`** models the draft of one conversation. `row` and `turns` are what
SQLite holds; each window has its composer (`text`), the revision its next write
expects, the value it takes for acknowledged, the write without an answer
(`pending`), how far its send is (`sending`) and the call it awaits. A text is a
draft with one client id, since typing and adding or removing a file draw a new
one; `form` tells apart the rest: a change that keeps the id (`Adjust`: model or
matters; `Suggest`: a suggested question in place of the message, even while a send
saves the draft), and the freezing by a send. The properties are about client ids. `Save` is the workspace's transaction; `ServeWrite`, `Restore` and
`ServeSend` serve a call and hear its answer in one step, because between the two a
window can only edit its text, which neither looks at. Where the two must be apart
they are: an answer is lost (`ServeWrite`, `LoseSent`), a call fails unserved
(`Fail`), a write given up after five seconds is served later (`ServeLate`), and a
window ends and opens again (`Vanish`, `Open`). `Refresh` and `Discard` are the list
of recovered drafts. `shown` and `stored` are history variables.

**`ExclusiveUse`** says what the workspace lock promises: one process uses the
workspace at a time, and the stored data changes only at its hand.
**`WorkspaceStorage`** is what is on disk and the processes that open it. `pc` is
where a launcher stands, system call by system call where two may meet
(`TakeMutex`, `CreatePidFile`, `UnlinkStalePid`, `WritePid`, `ReleasePid`,
`CloseMutex`) and step by step afterwards: `CheckVersion`, the archive, the
migration in `OpenDatabase`, `Recover`, and then use. `StoreOriginal`,
`WriteOriginal` and `Register` are an upload or an import's commit: files first,
then their records in one transaction, with the cleanup of either failure. A backup
(`TakeSnapshot`, `CopyOriginals`) runs in a worker of its own while all that goes on;
`StartRestore` to `FinishRestore` fill a new folder, and `OpenFolder` may be tried at
any moment. `Kill` ends a process anywhere and frees the mutex, and nothing else.
`WorkspaceStorage` implements `ExclusiveUse` with the processes between the lock and
its release as `users` and database and files as `data`.

**`ResponseRecords`** models what running responses and windows do to the same
three records: an imported original, the practice item made from it, the brief of a
matter. Revisions are immutable, so a record is a sequence of them, each with the
revision its writer had before him; a text is named by the revision that introduced
it. `Begin` pins the library (`contextLibrary`) and reads the brief; `ReadSource` and
`ReadItem` are the tool's checks of scope and Trash; `ReplaceItem`,
`ReplaceOriginal` stage a replacement; `Complete` is the one transaction that writes
what still applies, defers the brief's update when the brief moved on or a review is
asked for, and drops a replacement that was overtaken. `changeRecord`, the reviews,
the edits with the revision a window loaded, `undoBriefUpdate` and `undoImport` are
an action each. `turn`, `read`, `update`, `context` and `proposal` are the parts of a
response's state that these checks look at. The tool saves what it read one microtask
after the read; the model takes both as one step, because nothing else that the
engine runs comes between them.

The `MC...` modules give the constants that a `.cfg` cannot write: functions from
entries to batches, sends to conversations, and symmetry sets.

## 4. Runs

| Run | Instance | What it shows |
|---|---|---|
| `import_review` | 1 batch, 2 files, 2 windows, pages of 1 row, 2 contents (one local-only policy), budget of one text | nothing acknowledged is lost, a row never has the text of other bytes, what a window was shown holds while its revision is accepted, a commit registers all included files or none, a finished batch is final; staging implements `ImportContract` |
| `import_queue` | 2 batches of 1 file, 1 window, budget of one text, fairness | the budget holds across batches, every queued file leaves the queue (so no wake-up is lost), `idle()` settles after `stop()` |
| `organize_jobs` | 2 batches of 1 file, one with a retained suggestion, 1 file per call, fairness | reviewed choices stay, two attempts at most, completion omits no file, jobs end; organization implements `ImportContract` (one job at a time, which nobody edits or finishes under it) and `PaidCalls` (answers of a cut call are dropped, no repeated call after a crash) |
| `chat_turns` | 3 sends in 2 conversations, 2 slots, fairness | all chat safety, the refinement of `TurnContract`, and that every slot is freed |
| `upkeep_checks` | a note and the file it refers to, 3 contents, the file can be damaged, 1 record per pulse, fairness | no stale finding is forgotten, completed runs are current, what is left as is stays hidden until its records change, every queued record is checked, every run is completed |
| `upkeep_spin` (violation) | a note and a file | see findings |
| `filing_calls` | 2 documents, a second version that cannot be read, 1 added matter, 1 per request, fairness | no late answer or old window overrides the user; filing implements `PaidCalls`; every queued document is settled |
| `filing_errors` (violation) | 2 documents, 2 per request | see findings |
| `draft_windows` | 2 windows and the list, 2 messages, 2 writes per window, 1 discard, 1 failure | no sent message comes back as a draft; nobody replaces a text he has not seen |
| `draft_clean` (violation) | 1 window, 2 messages | see findings |
| `storage_disk` | 3 launchers of 2 builds, 2 originals, 1 backup in use | the lock implements `ExclusiveUse`; no database is migrated without its archive; no record names a broken original; no unfinished recovery is opened |
| `records_windows` | 2 responses, 1 window, 4 revisions, 2 versions of the original | nothing in use is put away; nobody overwrites what he did not see; undo gives back what stood before; a proposed edit leaves the baseline |

### Bounds, and why they are enough

Two of everything that can interfere: two windows for a stale revision, two files
for partial failure and for order in a queue, two batches or conversations for
exclusion, and a limit (budget, slots, records per pulse, files per call) of one
less than what competes for it, so that the limit is met. `MaxText`,
`MaxVersion`, `MaxMatters` cap counters the code does not cap; each is reached in
the run. In `upkeep_checks` a pulse takes one record, so that two queued ones
compete for it, and only one can be damaged: with as many damaged records as a
pulse takes, the queue's head could be damaged records only until each got its
error. `organize_jobs` has `Retained = {2}` so that a resume finds something to
stage before any call. In `import_review` a page has one row of two (`PageSize`), so
that a window commits or edits rows it was not shown, as the code lets it; in
`import_queue`, whose properties are not about windows, pages are empty.

`storage_disk` has a launcher of an older build and two of a newer one: three are
needed for one to inspect a stale PID file while a second replaced it, and an older
one for a workspace to be upgraded again and refused. Two originals make an import
of several files fail in the middle; one backup of an open workspace (`MaxArchives`)
besides the archive of an upgrade is copied while files come and go. In
`records_windows` item and brief together get up to four revisions
(`MaxRevisions`), enough for an automatic update, its undo and an edit between, or
for an edit, its review and a replacement; the original gets two (`MaxVersions`).
One window is enough there, because a window that holds an old revision while
another writes is the same to the store as one that a response overtook. Both runs
name alike processes, contents and responses symmetric; they check no liveness.

In the draft runs a window draws at most two writes (`MaxWrites`: one may be lost
or late while the other is drawn), the list discards once (`MaxDiscards`) and one
call fails (`MaxFailures`). The proofs hold for any of these bounds.

Deadlock is checked in every run but the two of drafts: there a send that needs a
third write waits for ever, which only the bound makes it do.

### Fairness

Weak fairness is assumed of what the event loop or a timer will do by itself:
`Dispatch`, `TimerFires`, `Pulse`, `Claim` (timers), `RunBegins`, `TaskEnds`,
`FreeSlot` (microtasks), `Deadline` and the end of a call (an
`AbortSignal.timeout` of five minutes or 120 seconds). A parse either succeeds or
fails in a bounded time, but may be put off when the shared parser pool is busy
(`ParseBusy`, tried again after 250 ms), hence strong fairness of its ending
in `ImportStaging`. A provider's answer is never assumed to come; what is assumed
is that a provider heeds its abort signal (`WF(aborted[s] /\ Fails(s))`), which
the adapters implement by killing their process. `RunsComplete` needs, besides the
fairness of `Pulse`, that the records rest and can be read in the end: a run grows with
every change and stays open on a damaged record, as the code means it to. No fairness is assumed of a user
or of a relaunch.

## 5. Proofs

`ImportStagingProofs` proves, for any windows, batches, files, contents and
budgets: `TypeOK`, `AcknowledgedOriginalsKept`, `ParserWritesItsOwnJob`,
`TextMatchesOriginal`, `PublishedOnlyPermittedOriginals`,
`FinishedBatchesAreFinal`, `NoLostWakeup` (with `OneDispatcher` and
`IdleWaiterHasOwner`), `ShownRowsAreCurrent`, `CommitIsAllOrNothing`,
`TextWithinBudget`, and that `Spec` implements `ImportContract`. The invariant is the
conjunction of the type invariant, `StagingInv` (rows agree column by column: text
only beside ready files, original kept from receipt to commit, the parsed row is
the pending one it was read as) and `ProcessInv` (one dispatcher; memory is empty
while the process is down; who waits is owned). None of the listed properties is inductive alone: that an
acknowledged original is kept needs that the parser's row is still pending, and
that needs that nobody but the parser moves a pending row with bytes, except to
finish its batch. The assumptions are those of `ConstantsAssumption`.

`TextWithinBudget` bounds a sum over a set of files, which is a fold, and induction
over a fold is out of the prover's reach. The proof goes around it: the sum of natural
numbers is the cardinality of a set of units (pairs of a file and a number below its
size), so that the library's facts about cardinalities give what a step needs: the sum
over fewer files is not greater, and a file whose text changes adds at most its new
size. That the fold is this cardinality is shown once, by taking a smallest subset
for which it is not (the finite subsets of a set are well-founded under inclusion).

`CommitIsAllOrNothing` rests on the lemma that nothing but a commit registers a file
or finishes a batch as committed. `StagingImplementsContract` needs `OrganizingInv`: at
most one job runs, and its batch is in review, since the contract lets nobody finish
the batch meanwhile.

`ChatTurnsProofs` proves `TypeOK`, `RunningTurnsAreOwned`, `RunsAreBounded`,
`PutAwayConversationsAreIdle`, `EndedTurnsAreFinal` and
`TurnsImplementContract`, that `Spec` implements `TurnContract`, by the invariant
`TurnInv == TypeOK /\ RunningTurnsAreOwned /\ ClosedIsEmpty`: a completion is a
legal step of the contract because the slot whose object is running has a running
row, which needs ownership; ownership across a crash needs that a closed
application has no slots. Each action maps to one action of the contract or a
stutter. The bound on slots uses the cardinality theorems of the library.

`ImportOrganizationProofs` proves `TypeOK`, `OneJobRuns`, `ReviewedChoicesKept`,
`CutAnswersDropped`, `InterruptedCallsNotRepeated`, `AskedAtMostTwice`,
`CompleteMeansSettled` and `RunningJobsAreServed` for any batches, files, places and
files per call, and that `Spec` implements `ImportContract` and `PaidCalls`. What
carries them: `ReviewInv` (a file its user filed is protected while its batch
is in review, and suggestions pass over what is protected), `CallInv` (outside a call nobody is asked; a call
that was cut has lost its job's revision), `UncertainInv` (an interrupted batch's job
runs only after its user resumed it) and `AskInv`, which counts how often a file
was shared against its failed attempts, with the call in flight. That a completed
job leaves nothing open needs that `FirstOf` of a set is empty only if the set is,
by well-founded induction from the library.

`RunningJobsAreServed` is not inductive: while a call is in flight its end leaves the
worker idle unless the loop goes on. `ServedInv` says what such a call owes: either its
job is the running one under the revision it began with (then an answer goes on with
the loop and a failure ends the job), or whoever cut it also asked for a wake-up.
`OrganizationImplementsContract` needs `OneJobRuns` and `NeverSkips` (no suggestion
leaves a file out, so that no answer changes which files are kept);
`OrganizationImplementsCalls` needs `CallInv`, `UncertainInv` and `HaltInv` (a stop
aborts the call it finds).

`AutoFilingProofs` proves `TypeOK`, `RunningTasksAreHeld`, `ExplicitChoicesWin`,
`OpenedSuggestionsAreCurrent` and `InterruptedCallsWait`, and that `Spec` implements
`PaidCalls`. `CallInv` ties the durable
marker to the call in memory, whatever the application does; `InterruptedInv` says
that a marker left by a crash survives until the launch that pauses; the lemma
`ResultsStep` gives the effect of every action on the suggestions: what opens is
current and readable, and what is filed by hand has none; `SavedStep` that a
suggestion once made is never gone and only an accepted answer makes one, which is what
`PaidCalls` asks of what is retained.

`UpkeepProofs` proves `TypeOK`, `StaleFindingsAreQueued`, `CompletedRunsAreCurrent`
and `LeftAsIsStaysHidden`, for any records, references between them and contents. Each
trigger queues the changed record and, where notes are concerned, sets the refresh
flag; a check makes the finding current before it removes the row. The lemmas at the
top say that appending and removing leave the queue a sequence of the same records.
A run completes only with an empty queue, and then the first property says that
nothing is stale. `LeftAsIsStaysHidden` is inductive with the types of the columns: a
change ends it for every record whose check reads the changed one, a decision is
compared with what a check finds now, and a later check of an unchanged record finds
what the user saw. That runs are completed (`RunsComplete`) is liveness and left to TLC.

`ChatDraftsProofs` proves `TypeOK`, `SentMessagesStaySent` and `StoredTextIsKept`,
for any windows, messages, failures and late writes. The last rests on `KeptInv`:
whoever holds a revision has shown the text that is, or will be, stored under it
(`Knows`), and a write that may still be served was drawn by an editor that knew the
revision it expects (`RequestInv`). Write ids are drawn once, so a late write finds
either the revision it expects or is refused. The assumptions say that
the names of writes, messages and the absent values differ.

`WorkspaceStorageProofs` proves `TypeOK`, `UpgradesAreRecoverable`,
`RegisteredOriginalsAreWhole`, `RecoveredFoldersAreWhole` and that `Spec` implements
`ExclusiveUse`, for any launchers, builds and originals. Everything rests on
`HoldersInv`: who is past the mutex holds it, so there is one; the PID file adds
nothing to safety. `FilesInv` says that every file a call is about to register is
whole, but for the one it is writing; `ArchivesInv`, that whatever a worker finished
holds the originals of its snapshot; `UpgradeInv`, that between the
archive and the migration the database stays as archived; `FolderInv`, that an
opened folder is complete.

`ResponseRecordsProofs` proves `TypeOK` and all four properties of `records_windows`,
for any responses, windows and histories of any length. `UseInv` says which record a
response holds, so that Trash cannot take it; `Prepared`, that a staged replacement
whose item has not changed since still has in front of it all that stands of the item; `BriefInv`, that what a response was given is what the brief said at that
revision, and that the stage of its suggestion tells which revisions it wrote, so
that undo, which writes the response's context, writes the revision before last.

Every safety property of a passing run, invariant, action property or refinement, is
proved. Only model-checked are the six liveness properties (`QueuedFilesAreProcessed`,
`IdleSettles`, `JobsEnd`, `SlotsAreFreed`, `QueuedRecordsAreChecked`,
`QueuedDocumentsAreSettled`), which under fairness are out of the prover's reach.
Their safety halves are proved where they say something: `NoLostWakeup` and
`IdleWaiterHasOwner` for the first two, `RunningJobsAreServed` for the third,
`RunningTurnsAreOwned` for the fourth, `RunningTasksAreHeld` for the last.

Proved but in no run of their own, because a property of a run implies them:
`OneJobRuns` (by `ImportContract`), `CutAnswersDropped`, `InterruptedCallsNotRepeated`
and `InterruptedCallsWait` (by `PaidCalls`), `NoLostWakeup` (by
`QueuedFilesAreProcessed`) and `RunningJobsAreServed` (by `JobsEnd`). They stay as
theorems since they are what the refinements and a reader rely on.

## 6. Findings

- `upkeep_spin`: a full check that a damaged record keeps open is asked for again
  at every pulse once it is four hours old (`upkeep.ts:46`, `61-62`), so that the
  record is retried every 1.5 seconds. `upkeep.ts:81` says "Do not spin on a
  damaged/unsupported record".
- `filing_errors`: a request whose documents all changed in flight can fail without
  stopping AI filing, if the user pressed Check meanwhile (`auto-filing.ts:153`);
  the architecture document says that errors require an explicit resume.
- `draft_clean`: if the first load of a draft fails, "Retry draft save" loads again
  and takes a text that was never written for acknowledged
  (`ui/src/workspace/draft-recovery.ts:47`), so that the window neither saves it
  nor warns when it is closed; the comment at line 65 says that durability is
  provided only by an acknowledged workspace write.

## 7. Not modelled

Profile and preference inputs of an import's commit; link reports; the contents of
prompts and the validation of evidence quotes; failures of SQLite itself other
than the one the dispatcher handles; requests that reach a stopping application's
filing worker; the tools a model may call during a response, except reading
records and what they prepare for its commit. Of the storage: the archive's format
and its byte-by-byte verification, the streamed upload of a backup, disk estimates.
Of the records: attachments carried over from earlier messages of a conversation
(`chat.ts:268` gives them to a response, but `record-lifecycle.ts:42-47` counts only
the running message's own as in use, so `UsedRecordsAreKept` is stated, and holds,
for those alone), templates, work records and redlines, evidence links between records, briefs too
long to be undone, and the change of a record between a window's preview of Trash or
undo and its confirmation (the version it sends must match, so the action behaves as
if it had been previewed at that moment). The undo of an import whose practice item is
in Trash is offered by the preview and then refused by `reviseKnowledge`; the model
has the refusal.

Of the drafts: a suggested question chosen while the composer is still restoring, or
after a send has fixed the draft (it changes the message under an unchanged client id,
by which the properties are stated). Of the chat: a database failure between the
beginning of a turn and its slot (`chat.ts:163-190`).

Not at all: exports, document rounds and redlines (data
transformations), retrieval and ranking (pure functions), providers (external
processes whose use is modelled), the HTTP layer's routing, the legacy runtime
(`server`, `threads`, `loop`, `vault`, ...), the browser helper, the macOS shell and
the scripts. `PROJECT.json` lists each with its reason; `hazards` lists what is known
to be hard and not covered, with a note.
