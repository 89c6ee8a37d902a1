---------------------------- MODULE ImportStaging ----------------------------
(***************************************************************************)
(* Staged imports of the workspace engine:                                 *)
(*   runtime/src/workspace/imports.ts                                      *)
(*                                                                         *)
(* A batch of files is created from a browser selection, its originals     *)
(* are uploaded one by one, a single in-process dispatcher parses them,    *)
(* the user reviews and edits the filing choices, and one transaction      *)
(* commits (or discards) the batch.  The batch, its entries, its pause     *)
(* flag and the extraction metadata are SQLite rows; the dispatcher (its   *)
(* timer, its task, its fault) lives in memory and dies with the process.  *)
(*                                                                         *)
(* Every handler runs its database work in one immediate transaction and   *)
(* the engine has one JavaScript thread, so a handler is one action.  The  *)
(* only await is the parser's: Dispatch starts it, the Parse... actions    *)
(* are its outcomes, and any handler may run in between.                   *)
(*                                                                         *)
(* A window is shown one page of a batch, with the batch's revision id and *)
(* a summary of all its files.  The id is a fresh UUID that every write    *)
(* replaces, and "the window's id is still the current one" is all that a  *)
(* handler learns from it: view[w] is the page while its id is current.    *)
(* A dialog that keeps the page it was opened with is a window of its own, *)
(* and so is a request for filing suggestions, which reads its files with  *)
(* the id and answers with both after a model call.                        *)
(***************************************************************************)
EXTENDS Naturals, FiniteSets, FiniteSetsExt

CONSTANTS
  Windows,      \* browser windows
  Batches,      \* batch numbers, in creation order
  Entries,      \* entry row ids, in insertion order
  BatchOf,      \* the batch an entry is a row of
  Versions,     \* contents an upload may carry
  LocalOnly,    \* the versions marked local-only
  LocalPolicy,  \* those that state a workspace-wide local-only policy
  Textless,     \* those without readable text
  Unsupported,  \* entries importSkipReason excludes on creation
  ByteCount,    \* declared size of an entry
  TextSize,     \* size of a version's extracted text
  PageSize,     \* rows of a page (at most 100 in the code)
  MaxReview,    \* batches in review at once (3 in the code)
  MaxBytes,     \* IMPORT_MAX_BYTES
  MaxText,      \* IMPORT_MAX_TEXT_BYTES
  None          \* no version, no entry

ASSUME ConstantsAssumption ==
  /\ Batches \subseteq Nat /\ Entries \subseteq Nat
  /\ IsFiniteSet(Entries)
  /\ BatchOf \in [Entries -> Batches]
  /\ LocalPolicy \subseteq LocalOnly /\ LocalOnly \subseteq Versions
  /\ Textless \subseteq Versions /\ Unsupported \subseteq Entries
  /\ ByteCount \in [Entries -> Nat] /\ TextSize \in [Versions -> Nat]
  /\ PageSize \in Nat /\ MaxReview \in Nat /\ MaxBytes \in Nat /\ MaxText \in Nat
  /\ None \notin Versions /\ None \notin Entries

VARIABLES
  batch,       \* import_batches.status ("none" before creation)
  paused,      \* batches whose import_queue row says paused
  status, bytes, hash, text, dest,  \* import_entries rows, by column
  meta,        \* entries with an import_entry_metadata row
  published,   \* version registered as a Source for an entry, by a commit
  organizing,  \* batches whose AI organization job is running
  up, stopped, \* the engine process runs; its queue was told to stop
  timer,       \* a dispatch is scheduled
  task,        \* the entry being parsed, or None
  given,       \* the bytes its parser was given
  fault,       \* the dispatcher gave up until the next control call
  waiting,     \* somebody awaits idle()
  view,        \* what a window was shown of the current revision of a batch
  acked        \* versions acknowledged to an uploader (history)

rows    == <<status, bytes, hash, text, dest>>
durable == <<batch, paused, rows, meta, published, organizing>>
memory  == <<up, stopped, timer, task, given, fault, waiting>>
vars    == <<durable, memory, view, acked>>

Destinations == {"source", "position", "skip"}
Original == Versions \union {None}

\* An operator marked DEFECT is a plausible bug in the definition below it; no
\* behaviour uses it.  Each one shows that some property can fail.

EntriesOf(b) == {e \in Entries : BatchOf[e] = b}
InReview     == {b \in Batches : batch[b] = "review"}
Excluded(e)  == status[e] = "skipped" \/ dest[e] = "skip"
\* DEFECT: the policy marker is ignored.
NoPolicyFound(b) == FALSE
PolicyFound(b) ==
  \E e \in EntriesOf(b) : status[e] = "skipped" /\ hash[e] \in LocalPolicy

-----------------------------------------------------------------------------
\* Shared effects of the handlers

\* review(id, revision): the revision a window sends is the current one.
Holds(w, b) == view[w] # None /\ view[w].batch = b
\* DEFECT: the write keeps the batch's revision id.
KeepRevision(b) == UNCHANGED view
Bump(b) == view' = [w \in Windows |-> IF Holds(w, b) THEN None ELSE view[w]]

\* DEFECT: the job is not asked.
Unasked(b) == TRUE
\* assertEditable(): no running organization job.
Editable(b) == b \notin organizing

\* What discard and commit leave of a batch's rows.
\* DEFECT: the extracted text stays.
ReleaseBytesOnly(b) ==
  /\ bytes' = [e \in Entries |-> IF e \in EntriesOf(b) THEN None ELSE bytes[e]]
  /\ meta' = meta \ EntriesOf(b)
  /\ UNCHANGED <<status, hash, text, dest>>
Release(b) ==
  /\ bytes' = [e \in Entries |-> IF e \in EntriesOf(b) THEN None ELSE bytes[e]]
  /\ text' = [e \in Entries |-> IF e \in EntriesOf(b) THEN None ELSE text[e]]
  /\ meta' = meta \ EntriesOf(b)
  /\ UNCHANGED <<status, hash, dest>>

\* private wake(): schedule a dispatch unless one is pending or running.
Wake(faulted) == timer' = (timer \/ (~stopped /\ ~faulted /\ task = None))

\* DEFECT: the queue is not looked at again.
EndTaskAsleep(faulted) ==
  /\ task' = None /\ given' = None
  /\ fault' = faulted
  /\ UNCHANGED <<up, stopped, timer, waiting>>
\* finally { active.delete; task = undefined; settle or wake again }
EndTask(faulted) ==
  /\ task' = None /\ given' = None
  /\ fault' = faulted
  /\ timer' = ~(stopped \/ faulted)
  /\ waiting' = (waiting /\ ~(stopped \/ faulted))
  /\ UNCHANGED <<up, stopped>>

-----------------------------------------------------------------------------
\* Requests

Reserved == MapThenSumSet(LAMBDA e : ByteCount[e],
              {e \in Entries : batch[BatchOf[e]] = "review" /\ status[e] # "skipped"})

\* create(): the next batch, each file pending or excluded, with a suggested
\* destination.
Create(b, suggested) ==
  /\ up
  /\ batch[b] = "none" /\ \A c \in Batches : c < b => batch[c] # "none"
  /\ Cardinality(InReview) < MaxReview
  /\ Reserved + MapThenSumSet(LAMBDA e : ByteCount[e], EntriesOf(b) \ Unsupported) <= MaxBytes
  /\ batch' = [batch EXCEPT ![b] = "review"]
  /\ status' = [e \in Entries |-> IF e \in EntriesOf(b)
       THEN IF e \in Unsupported THEN "skipped" ELSE "pending" ELSE status[e]]
  /\ dest' = [e \in Entries |-> IF e \in EntriesOf(b) THEN suggested ELSE dest[e]]
  /\ Bump(b)
  /\ UNCHANGED <<paused, bytes, hash, text, meta, published, organizing, memory, acked>>

\* DEFECT: files that are not ready are left out silently.
ReadyOnly(b) == {e \in EntriesOf(b) : ~Excluded(e) /\ status[e] = "ready"}
Included(b) == {e \in EntriesOf(b) : ~Excluded(e)}
Row(e) == [entry |-> e, status |-> status[e], dest |-> dest[e], text |-> text[e]]

\* get(), organizationInput(): a window is shown some rows of the batch (those
\* of a page of a filtered list, or the files it asks suggestions for), its
\* current revision, and how many files a commit would import.
Load(w, b, page) ==
  /\ up /\ batch[b] = "review"
  /\ Cardinality(page) <= PageSize
  /\ view' = [view EXCEPT ![w] = [batch |-> b, rows |-> {Row(e) : e \in page},
                                 included |-> Cardinality(Included(b))]]
  /\ UNCHANGED <<durable, memory, acked>>

\* The upload carries the original the entry was staged with.
\* DEFECT: the digest is not compared.
AnyOriginal(e, v) == TRUE
SameOriginal(e, v) == hash[e] \in {None, v}
\* DEFECT: until it is parsed, the last upload of a file counts.
LastUpload(e, v) == status[e] # "ready"
\* Bytes are stored for an entry without any, or one that failed.
Accepted(e, v) == /\ SameOriginal(e, v)
                  /\ status[e] # "ready"
                  /\ ~(status[e] = "pending" /\ bytes[e] # None)

\* receive(): the branch that stores bytes.  Uploading what is already stored
\* is acknowledged again and changes nothing.
Receive(e, v) ==
  LET b == BatchOf[e] IN
  /\ up /\ batch[b] = "review"
  /\ status[e] # "skipped"
  /\ Accepted(e, v)
  /\ b \notin paused
  /\ bytes' = [bytes EXCEPT ![e] = v] /\ hash' = [hash EXCEPT ![e] = v]
  /\ status' = [status EXCEPT ![e] = "pending"] /\ text' = [text EXCEPT ![e] = None]
  /\ meta' = meta \ {e}
  /\ Bump(b)
  /\ Wake(fault)
  /\ acked' = [acked EXCEPT ![e] = @ \union {v}]
  /\ UNCHANGED <<batch, paused, dest, published, organizing, up, stopped, task, given, fault, waiting>>

RetriedStatus == "pending"

\* control(): pause, resume, or retry the failed files; always clears the fault.
Control(b, action) ==
  /\ up /\ batch[b] = "review"
  /\ paused' = IF action = "pause" THEN paused \union {b} ELSE paused \ {b}
  /\ status' = [e \in Entries |->
       IF action = "retry" /\ e \in EntriesOf(b) /\ status[e] = "error" /\ bytes[e] # None
       THEN RetriedStatus ELSE status[e]]
  /\ UNCHANGED <<bytes, hash, text, dest>>
  /\ Bump(b)
  /\ fault' = FALSE
  /\ Wake(FALSE)
  /\ UNCHANGED <<batch, meta, published, organizing, up, stopped, task, given, waiting, acked>>

\* edit(), bulkEdit(), editChoices(): file the chosen entries under d.
EditChoices(w, b, chosen, d) ==
  /\ up /\ batch[b] = "review" /\ Holds(w, b)
  /\ Editable(b)
  /\ \A e \in chosen : status[e] = "skipped" => d = "skip"
  /\ dest' = [e \in Entries |-> IF e \in chosen THEN d ELSE dest[e]]
  /\ UNCHANGED <<status, bytes, hash, text>>
  /\ Bump(b)
  /\ Wake(fault)
  /\ UNCHANGED <<batch, paused, meta, published, organizing,
                 up, stopped, task, given, fault, waiting, acked>>

\* discard(): refused while any of the batch's files is being parsed.
Discard(w, b) ==
  /\ up /\ batch[b] = "review" /\ Holds(w, b)
  /\ Editable(b)
  /\ task \notin EntriesOf(b)
  /\ batch' = [batch EXCEPT ![b] = "discarded"]
  /\ Release(b)
  /\ Bump(b)
  /\ UNCHANGED <<paused, published, organizing, memory, acked>>

\* commit(): register a Source for every included entry, all or none.
Commit(w, b) ==
  /\ up /\ batch[b] = "review" /\ Holds(w, b)
  /\ Editable(b)
  /\ ~PolicyFound(b)
  /\ Included(b) # {}
  /\ \A e \in Included(b) : /\ status[e] = "ready" /\ e # task
                            /\ bytes[e] # None /\ bytes[e] = hash[e]
                            /\ dest[e] = "position" => text[e] \notin Textless
  /\ published' = [e \in Entries |-> IF e \in Included(b) THEN bytes[e] ELSE published[e]]
  /\ batch' = [batch EXCEPT ![b] = "committed"]
  /\ Release(b)
  /\ Bump(b)
  /\ UNCHANGED <<paused, organizing, memory, acked>>

-----------------------------------------------------------------------------
\* AI organization of a batch, as far as staging sees it (ImportOrganization
\* has the job itself): at most one job runs; a running job freezes the
\* choices for everyone else and stages its own for ready files.

StartOrganizing(b) ==
  /\ up /\ batch[b] = "review" /\ organizing \intersect InReview = {}
  /\ organizing' = organizing \union {b}
  /\ UNCHANGED <<batch, paused, rows, meta, published, memory, view, acked>>

StageOrganizationChoice(e, d) ==
  LET b == BatchOf[e] IN
  /\ up /\ batch[b] = "review" /\ b \in organizing
  /\ status[e] = "ready" /\ ~Excluded(e) /\ d # "skip"
  /\ dest' = [dest EXCEPT ![e] = d]
  /\ UNCHANGED <<status, bytes, hash, text>>
  /\ Bump(b)
  /\ UNCHANGED <<batch, paused, meta, published, organizing, memory, acked>>

EndOrganizing(b) ==
  /\ up /\ b \in organizing
  /\ organizing' = organizing \ {b}
  /\ UNCHANGED <<batch, paused, rows, meta, published, memory, view, acked>>

-----------------------------------------------------------------------------
\* The dispatcher

Queued(e) == /\ batch[BatchOf[e]] = "review" /\ BatchOf[e] \notin paused
             /\ status[e] = "pending" /\ bytes[e] # None
             /\ dest[e] # "skip"

\* The timer fires: the first queued entry's bytes are read and given to the
\* parser, or everybody who waits is settled.
Dispatch ==
  /\ up /\ timer
  /\ timer' = FALSE
  /\ \/ \E e \in Entries : /\ Queued(e) /\ \A f \in Entries : Queued(f) => e <= f
                             /\ task' = e /\ given' = bytes[e]
                             /\ UNCHANGED waiting
     \/ /\ \A e \in Entries : ~Queued(e)
        /\ waiting' = FALSE
        /\ UNCHANGED <<task, given>>
  /\ UNCHANGED <<durable, up, stopped, fault, view, acked>>

\* The timer fires and the queue cannot be read.
DispatchFails ==
  /\ up /\ timer
  /\ timer' = FALSE /\ fault' = TRUE /\ waiting' = FALSE
  /\ UNCHANGED <<durable, up, stopped, task, given, view, acked>>

\* review(): the batch was finished while its file was being parsed.
Late(e) == batch[BatchOf[e]] # "review"

\* The parser answers after stop(), or after the batch was finished: the
\* answer is dropped.
ParseDropped ==
  /\ up /\ task # None
  /\ stopped \/ Late(task)
  /\ EndTask(fault)
  /\ UNCHANGED <<durable, view, acked>>

\* DocumentParserBusyError: the shared parser pool is full, try again later.
ParseBusy ==
  /\ up /\ task # None /\ ~stopped
  /\ EndTask(fault)
  /\ UNCHANGED <<durable, view, acked>>

\* DEFECT: the budget looks at the file's own batch only.
StagedTextOfBatch == MapThenSumSet(LAMBDA e : TextSize[text[e]], meta \intersect EntriesOf(BatchOf[task]))
\* Rows of import_entry_metadata count against the text budget.
StagedText == MapThenSumSet(LAMBDA e : TextSize[text[e]], meta)

\* The UPDATE names only the entry: the text of the bytes read at dispatch is
\* written to the row as it is now.
ParseSucceeds ==
  LET e == task
      excluded == given \in LocalOnly
      withinBudget == StagedText + TextSize[given] <= MaxText
  IN
  /\ up /\ task # None /\ ~stopped /\ ~Late(e)
  /\ \/ /\ excluded
        /\ status' = [status EXCEPT ![e] = "skipped"]
        /\ bytes' = [bytes EXCEPT ![e] = None] /\ text' = [text EXCEPT ![e] = None]
        /\ meta' = meta
     \/ /\ ~excluded /\ withinBudget
        /\ status' = [status EXCEPT ![e] = "ready"]
        /\ bytes' = bytes /\ text' = [text EXCEPT ![e] = given]
        /\ meta' = meta \union {e}
  /\ Bump(BatchOf[e])
  /\ EndTask(fault)
  /\ UNCHANGED <<batch, paused, hash, dest, published, organizing, acked>>

\* DEFECT: the failure is written without asking for the batch again.
FailsUnasked ==
  /\ up /\ task # None /\ ~stopped
  /\ status' = [status EXCEPT ![task] = "error"]
  /\ Bump(BatchOf[task])
  /\ EndTask(fault)
  /\ UNCHANGED <<batch, paused, bytes, hash, text, dest, meta, published, organizing, acked>>
\* The file cannot be read, the parser timed out, or its text exceeds the budget.
ParseFails ==
  LET e == task IN
  /\ up /\ task # None /\ ~stopped /\ ~Late(e)
  /\ status' = [status EXCEPT ![e] = "error"]
  /\ Bump(BatchOf[e])
  /\ EndTask(fault)
  /\ UNCHANGED <<batch, paused, bytes, hash, text, dest, meta, published, organizing, acked>>

\* Neither the result nor the failure can be written: the dispatcher gives up.
ParseWriteFails ==
  /\ up /\ task # None /\ ~stopped /\ ~Late(task)
  /\ EndTask(TRUE)
  /\ UNCHANGED <<durable, view, acked>>

-----------------------------------------------------------------------------
\* The process

AwaitIdle ==
  /\ up /\ (timer \/ task # None)
  /\ waiting' = TRUE
  /\ UNCHANGED <<durable, up, stopped, timer, task, given, fault, view, acked>>

\* DEFECT: settling is left to a task that may not exist.
StopUnsettled ==
  /\ up
  /\ stopped' = TRUE /\ timer' = FALSE
  /\ UNCHANGED <<durable, up, task, given, fault, waiting, view, acked>>
Stop ==
  /\ up
  /\ stopped' = TRUE /\ timer' = FALSE
  /\ waiting' = (waiting /\ task # None)
  /\ UNCHANGED <<durable, up, task, given, fault, view, acked>>

\* The process ends, at any moment; what memory held is gone.
Exit ==
  /\ up
  /\ up' = FALSE /\ stopped' = FALSE /\ timer' = FALSE
  /\ task' = None /\ given' = None /\ fault' = FALSE /\ waiting' = FALSE
  /\ UNCHANGED <<durable, view, acked>>

\* Launch: the constructor wakes the queue; organization jobs are paused.
Launch ==
  /\ ~up
  /\ up' = TRUE /\ timer' = TRUE
  /\ organizing' = {}
  /\ UNCHANGED <<batch, paused, rows, meta, published, stopped, task, given, fault, waiting, view, acked>>

-----------------------------------------------------------------------------
Init ==
  /\ batch = [b \in Batches |-> "none"]
  /\ paused = {} /\ meta = {} /\ organizing = {}
  /\ status = [e \in Entries |-> "pending"] /\ dest = [e \in Entries |-> "source"]
  /\ bytes = [e \in Entries |-> None] /\ hash = bytes /\ text = bytes
  /\ published = [e \in Entries |-> None]
  /\ up = TRUE /\ stopped = FALSE /\ timer = TRUE
  /\ task = None /\ given = None /\ fault = FALSE /\ waiting = FALSE
  /\ view = [w \in Windows |-> None]
  /\ acked = [e \in Entries |-> {}]

Request ==
  \/ \E b \in Batches, d \in Destinations : Create(b, d)
  \/ \E w \in Windows, b \in Batches : \E page \in SUBSET EntriesOf(b) : Load(w, b, page)
  \/ \E e \in Entries, v \in Versions : Receive(e, v)
  \/ \E b \in Batches, action \in {"pause", "resume", "retry"} : Control(b, action)
  \/ \E w \in Windows, b \in Batches :
       \E chosen \in (SUBSET EntriesOf(b)) \ {{}}, d \in Destinations : EditChoices(w, b, chosen, d)
  \/ \E w \in Windows, b \in Batches : Discard(w, b)
  \/ \E w \in Windows, b \in Batches : Commit(w, b)

Organizer ==
  \/ \E b \in Batches : StartOrganizing(b)
  \/ \E e \in Entries, d \in Destinations : StageOrganizationChoice(e, d)
  \/ \E b \in Batches : EndOrganizing(b)

Parser ==
  \/ ParseDropped
  \/ ParseBusy
  \/ ParseSucceeds
  \/ ParseFails
  \/ ParseWriteFails

Process == AwaitIdle \/ Stop \/ Exit \/ Launch

Next == Request \/ Organizer \/ Dispatch \/ DispatchFails \/ Parser \/ Process

Spec == Init /\ [][Next]_vars

\* The event loop runs due timers and settles the parser's promise (a child
\* process with a 20 s limit), and the two parser slots are not held forever.
FairSpec == /\ Spec
            /\ WF_vars(Dispatch)
            /\ WF_vars(ParseDropped)
            /\ SF_vars(ParseSucceeds \/ ParseFails)
-----------------------------------------------------------------------------
Statuses == {"pending", "ready", "error", "skipped"}
Rows == [entry : Entries, status : Statuses, dest : Destinations, text : Original]
Views == [batch : Batches, rows : SUBSET Rows, included : Nat]

RowsOK ==
  /\ batch \in [Batches -> {"none", "review", "committed", "discarded"}]
  /\ paused \subseteq Batches /\ organizing \subseteq Batches
  /\ status \in [Entries -> Statuses]
  /\ dest \in [Entries -> Destinations]
  /\ bytes \in [Entries -> Original] /\ hash \in [Entries -> Original]
  /\ text \in [Entries -> Original]
  /\ meta \subseteq Entries
  /\ published \in [Entries -> Original]
  /\ view \in [Windows -> Views \union {None}]
  /\ given \in Original
  /\ acked \in [Entries -> SUBSET Versions]

QueueOK ==
  /\ up \in BOOLEAN /\ stopped \in BOOLEAN /\ timer \in BOOLEAN
  /\ fault \in BOOLEAN /\ waiting \in BOOLEAN
  /\ task \in Entries \union {None}

TypeOK == RowsOK /\ QueueOK

\* imports.ts:392: an upload is acknowledged only once its exact original is
\* stored.  From then on, through crashes, retries, pauses and other uploads,
\* that original and no other is staged until the batch is finished, unless
\* parsing found it local-only.
AcknowledgedOriginalsKept ==
  \A e \in Entries : acked[e] # {} =>
    /\ acked[e] = {hash[e]}
    /\ batch[BatchOf[e]] = "review" =>
         bytes[e] = hash[e] \/ status[e] = "skipped"

\* The parser's UPDATE names only the entry id, and what it writes is the text
\* of bytes read before it was awaited.  Whatever ran in between, the row of a
\* batch still in review is still pending and holds those very bytes: an
\* upload has not replaced them, nor a retry, a commit or a discard released
\* them.  (Its filing choice may have changed.)
ParserWritesItsOwnJob ==
  task # None /\ batch[BatchOf[task]] = "review" =>
    status[task] = "pending" /\ bytes[task] = given /\ given # None

\* imports.ts:404-462: text is written after an await, by entry id, from bytes
\* read before it.  What a row has as its text is still the text of the
\* original staged with it, its metadata row exists exactly then, a finished
\* batch keeps neither, and text of a local-only file is never retained.
TextMatchesOriginal ==
  \A e \in Entries :
    /\ e \in meta <=> text[e] # None
    /\ e \in meta => /\ text[e] = bytes[e] /\ status[e] = "ready"
                     /\ batch[BatchOf[e]] = "review"
    /\ text[e] \notin LocalOnly

\* The text of all batches in review stays within the 250 MB budget although
\* the check is made against the metadata table, one parse at a time.
TextWithinBudget ==
  MapThenSumSet(LAMBDA e : TextSize[text[e]], {e \in Entries : text[e] # None}) <= MaxText

\* As long as the revision of a window is accepted, what the window was shown
\* under it is so: every row of its page (status, filing choice, text) and the
\* number of files a commit would import, although parser, organizer and other
\* windows write in between.  Of rows it was not shown nothing is said.
ShownRowsAreCurrent ==
  \A w \in Windows : view[w] # None =>
    /\ \A shown \in view[w].rows : shown = Row(shown.entry)
    /\ view[w].included = Cardinality(Included(view[w].batch))

\* What commits register: the acknowledged original of a committed batch, never
\* local-only material, never a file of a batch with a local-only policy.
PublishedOnlyPermittedOriginals ==
  \A e \in Entries : published[e] # None =>
    /\ batch[BatchOf[e]] = "committed" /\ acked[e] = {published[e]}
    /\ published[e] \notin LocalOnly
    /\ \A f \in EntriesOf(BatchOf[e]) :
         status[f] = "skipped" => hash[f] \notin LocalPolicy

\* No wake-up is lost: a queued file of a running, healthy engine always has a
\* dispatch scheduled or a parse under way that will schedule one.
NoLostWakeup ==
  up /\ ~stopped /\ ~fault /\ (\E e \in Entries : Queued(e)) => timer \/ task # None

\* Whoever awaits idle() will be settled: by the timer or by the task's end.
IdleWaiterHasOwner == waiting => timer \/ task # None

\* There is one dispatcher: never a dispatch scheduled while a file is parsed,
\* and nothing scheduled once stopped.
OneDispatcher == /\ ~(timer /\ task # None)
                 /\ stopped => ~timer

\* A finished batch is final: no late parser answer, upload, retry or
\* organizer write changes its rows or what it registered.
FinishedBatchesAreFinal ==
  [][\A e \in Entries : batch[BatchOf[e]] \in {"committed", "discarded"} =>
       /\ batch'[BatchOf[e]] = batch[BatchOf[e]]
       /\ status'[e] = status[e] /\ dest'[e] = dest[e]
       /\ hash'[e] = hash[e] /\ bytes'[e] = bytes[e] /\ published'[e] = published[e]]_vars

\* A commit registers every included file of its batch and touches no other.
CommitIsAllOrNothing ==
  [][\A b \in Batches :
       LET registered == {e \in EntriesOf(b) : published'[e] # published[e]} IN
       /\ registered # {} => /\ batch[b] = "review" /\ batch'[b] = "committed"
                             /\ registered = {e \in EntriesOf(b) : status[e] = "ready"
                                                                /\ dest[e] # "skip"}
                             /\ \A e \in EntriesOf(b) : status[e] \in {"pending", "error"}
                                                        => dest[e] = "skip"
       /\ registered = {} => batch'[b] = batch[b] \/ batch'[b] # "committed"]_vars

\* The rows that organization shares with staging change as ImportContract says.
FileOf(e) == IF status[e] = "pending" THEN "waiting"
             ELSE IF status[e] = "skipped" /\ hash[e] \in LocalPolicy THEN "policy"
             ELSE status[e]
Shared == INSTANCE ImportContract WITH
  file <- [e \in Entries |-> FileOf(e)],
  included <- {e \in Entries : dest[e] # "skip"}
ImplementsImportContract == Shared!Spec

\* Every queued file is eventually taken out of the queue (parsed, failed,
\* paused or skipped) unless the engine stops or needs the user's retry,
\* provided failed files are not put back for ever.
Requeued == \E e \in Entries : status[e] = "error" /\ status'[e] = "pending"
QueuedFilesAreProcessed ==
  (<>[][~Requeued]_vars) =>
    \A e \in Entries : Queued(e) ~> (~Queued(e) \/ fault \/ stopped \/ ~up)

\* stop() or an empty queue settles everybody who awaits idle().
IdleSettles == stopped /\ waiting ~> ~waiting
=============================================================================
