-------------------------------- MODULE Upkeep --------------------------------
(***************************************************************************)
(* Workspace upkeep: derived findings about sources and imports.           *)
(*   runtime/src/workspace/upkeep.ts                queue, runs, pulse     *)
(*   runtime/src/workspace/upkeep-schema.ts         triggers that enqueue  *)
(*   runtime/src/workspace/source-links-schema.ts   the link refresh flag  *)
(*                                                                         *)
(* Triggers put every changed record on a durable queue.  A pulse, every   *)
(* 1.5 seconds while no chat response runs, checks the first few: it is    *)
(* one synchronous stretch, but a transaction per record, so that a        *)
(* killed process leaves it half done (pc "check").  A record whose check  *)
(* throws stays on the queue with an error.                                *)
(*                                                                         *)
(* A record's content is abstracted to what a check makes of it, and the   *)
(* digest that versions a finding to the content it was made from.         *)
(***************************************************************************)
EXTENDS Naturals, FiniteSets, SequencesExt

CONSTANTS
  Records,   \* sources and import batches
  Refers,    \* the records the links of a note lead to
  Contents,  \* what a record may contain
  Flawed,    \* contents with a finding
  Damaged,   \* contents no check can read
  Breakable, \* bound: the records that may get such a content
  Limit,     \* records in one pulse (25 in the code)
  None       \* no finding

ASSUME UpkeepAssumption ==
  /\ IsFiniteSet(Records)
  /\ Refers \in [Records -> SUBSET Records]
  /\ Flawed \subseteq Contents /\ Damaged \subseteq Contents /\ Breakable \subseteq Records
  /\ Limit \in Nat \ {0}

VARIABLES
  content,         \* the records themselves
  queue, failed,   \* upkeep_queue in rowid order, and the rows with an error
  refresh,         \* source_link_refresh has its row
  finding,         \* upkeep_findings: the version of the active finding
  dismissed,       \* upkeep_findings.dismissed_version
  run,             \* the reason of the run that is not completed
  runOld, fullOld, \* that run, and the last completed full run, began four hours ago
  up, busy,        \* the application is open; a chat response runs
  pc, tasks,       \* the pulse and the records it has left to check
  shown,           \* the finding the user has on the screen
  tried,           \* records found damaged since anything called for a check (history)
  left             \* findings left as they are, nothing they say having changed since (history)

records == <<content, queue, failed, refresh>>
checks  == <<finding, dismissed>>
runs    == <<run, runOld, fullOld>>
process == <<up, busy, pc, tasks>>
history == <<tried, left>>
vars    == <<records, checks, runs, process, shown, history>>

Queued == {queue[i] : i \in DOMAIN queue}
Notes  == {r \in Records : Refers[r] # {}}

\* inspect(): the finding about a record, by what it was made from.
Basis(r)   == {r} \union Refers[r]
Inspect(r) == IF \E q \in Basis(r) : content[q] \in Flawed
              THEN [q \in Basis(r) |-> content[q]] ELSE None
Readable(r) == content[r] \notin Damaged
Versions == {None} \union UNION {[Basis(r) -> Contents] : r \in Records}

\* INSERT ... ON CONFLICT DO UPDATE SET error=NULL: a row keeps its place, the
\* others come behind in the order the database lists them, which is left open.
Enqueue(S) ==
  /\ \E new \in SetToSeqs(S \ Queued) : queue' = queue \o new
  /\ failed' = failed \ S

-----------------------------------------------------------------------------
\* A transaction of the application changes a record; the triggers run in it.
Triggers(r) == Enqueue({r}) /\ refresh' = TRUE
Change(r, c) ==
  /\ up /\ pc = "idle" /\ c # content[r]
  /\ c \in Damaged => r \in Breakable
  /\ content' = [content EXCEPT ![r] = c]
  /\ Triggers(r)
  /\ LET about == {n \in Records : r \in Basis(n)} IN
       tried' = tried \ about /\ left' = left \ about
  /\ UNCHANGED <<checks, runs, process, shown>>

\* finish(): the run is complete once nothing is left, failed rows included.
\* DEFECT: failed rows do not count.
UnfailedLeft == \E r \in Queued : r \notin failed
AnythingLeft == queue # <<>> \/ refresh

\* request(): one full check at a time; with failed rows it is asked for again.
\* DEFECT: it is started over.
NeverIgnored == FALSE
RequestIgnored == run \notin {"none", "changes"} /\ failed = {}
FullCheck(reason) ==
  IF RequestIgnored THEN UNCHANGED <<records, runs>>
  ELSE /\ Enqueue(Records)
       /\ run' = reason
       /\ runOld' = (run # "none" /\ runOld)
       /\ UNCHANGED <<content, refresh, fullOld>>

\* "Check now".
CheckNow ==
  /\ up /\ pc = "idle"
  /\ FullCheck("manual")
  /\ tried' = {}
  /\ UNCHANGED <<checks, process, shown, left>>

\* The window loads the findings.
Show ==
  /\ up /\ pc = "idle"
  /\ shown' = finding
  /\ UNCHANGED <<records, checks, runs, process, history>>

\* decide(): the record is checked first.  One that cannot be read, or whose
\* finding is not the one shown, is refused and nothing changes.
Matches(r) == Readable(r) /\ Inspect(r) = shown[r]
Decide(r, dismiss) ==
  /\ up /\ pc = "idle"
  /\ shown[r] # None
  /\ Matches(r)
  /\ finding' = [finding EXCEPT ![r] = IF Readable(r) THEN Inspect(r) ELSE @]
  /\ dismissed' = [dismissed EXCEPT ![r] = IF dismiss THEN shown[r] ELSE None]
  /\ left' = IF dismiss THEN left \union {r} ELSE left \ {r}
  /\ UNCHANGED <<records, runs, process, shown, tried>>

-----------------------------------------------------------------------------
\* A pulse

\* The last full run began four hours ago or there was none.
Overdue == IF run \in {"periodic", "manual"} THEN runOld ELSE fullOld

PulseRequests ==
  /\ up /\ ~busy /\ pc = "idle"
  /\ IF Overdue THEN FullCheck("periodic") ELSE UNCHANGED <<records, runs>>
  /\ pc' = "refresh"
  /\ UNCHANGED <<checks, up, busy, tasks, shown, history>>

\* The link refresh queues every note and clears the flag; then the first
\* records without an error are taken.
\* DEFECT: the newest rows are taken.
LastOf(q, n) == SubSeq(q, IF Len(q) < n THEN 1 ELSE Len(q) - n + 1, Len(q))
FirstOf(q, n) == SubSeq(q, 1, IF Len(q) < n THEN Len(q) ELSE n)
\* DEFECT: the flag is cleared, the notes are not queued.
ForgetLinks == UNCHANGED <<queue, failed>> /\ refresh' = FALSE
RefreshLinks == (IF refresh THEN Enqueue(Notes) ELSE UNCHANGED <<queue, failed>>) /\ refresh' = FALSE
PulseTakes ==
  /\ up /\ pc = "refresh"
  /\ RefreshLinks
  /\ \E oldest \in BoundedSeq(Queued', Limit) :
       /\ oldest = FirstOf(SelectSeq(queue', LAMBDA r : r \notin failed'), Limit)
       /\ tasks' = oldest
  /\ IF tasks' # <<>> /\ run = "none"
     THEN run' = "changes" /\ runOld' = FALSE ELSE UNCHANGED <<run, runOld>>
  /\ pc' = "check"
  /\ UNCHANGED <<content, checks, fullOld, up, busy, shown, history>>

\* sync() updates the row of a finding and leaves its dismissed version alone.
\* DEFECT: the row is replaced.
ForgetDecision(r) == dismissed' = [dismissed EXCEPT ![r] = None]
KeepDecision(r) == UNCHANGED dismissed
\* One transaction: sync() and the removal of the queue row.
Checked(r) ==
  /\ finding' = [finding EXCEPT ![r] = Inspect(r)]
  /\ KeepDecision(r)
  /\ \E i \in DOMAIN queue : queue[i] = r /\ queue' = RemoveAt(queue, i)
  /\ failed' = failed \ {r} /\ UNCHANGED tried
\* The check threw: the row keeps its place, with an error.
KeepDamaged(r) ==
  /\ failed' = failed \union {r} /\ tried' = tried \union {r}
  /\ UNCHANGED <<checks, queue>>
PulseChecks ==
  /\ up /\ pc = "check" /\ tasks # <<>>
  /\ IF Readable(Head(tasks)) THEN Checked(Head(tasks)) ELSE KeepDamaged(Head(tasks))
  /\ tasks' = Tail(tasks)
  /\ UNCHANGED <<content, refresh, runs, up, busy, pc, shown, left>>

PulseEnds ==
  /\ up /\ pc = "check" /\ tasks = <<>>
  /\ IF AnythingLeft \/ run = "none" THEN UNCHANGED runs
     ELSE /\ run' = "none" /\ runOld' = FALSE
          /\ fullOld' = IF run = "changes" THEN fullOld ELSE runOld
  /\ pc' = "idle"
  /\ UNCHANGED <<records, checks, up, busy, tasks, shown, history>>

-----------------------------------------------------------------------------
\* Four hours pass, open or closed.
FourHours ==
  /\ pc = "idle"
  /\ runOld' = (run # "none") /\ fullOld' = TRUE
  /\ tried' = {}
  /\ UNCHANGED <<records, checks, run, process, shown, left>>

\* A chat response starts or ends.
Chat ==
  /\ up /\ pc = "idle" /\ busy' = ~busy
  /\ UNCHANGED <<records, checks, runs, up, pc, tasks, shown, history>>

\* The process ends, at any moment; committed transactions stay.
Exit ==
  /\ up
  /\ up' = FALSE /\ busy' = FALSE /\ pc' = "idle" /\ tasks' = <<>>
  /\ UNCHANGED <<records, checks, runs, shown, history>>
Launch ==
  /\ ~up /\ up' = TRUE
  /\ UNCHANGED <<records, checks, runs, busy, pc, tasks, shown, history>>

-----------------------------------------------------------------------------
\* A workspace whose records were all queued when they were inserted.
Init ==
  /\ content \in [Records -> Contents \ Damaged]
  /\ queue \in SetToSeqs(Records) /\ failed = {} /\ refresh = TRUE
  /\ finding = [r \in Records |-> None] /\ dismissed = [r \in Records |-> None]
  /\ run = "none" /\ runOld = FALSE /\ fullOld = TRUE
  /\ up = TRUE /\ busy = FALSE /\ pc = "idle" /\ tasks = <<>>
  /\ shown = [r \in Records |-> None] /\ tried = {} /\ left = {}

User ==
  \/ \E r \in Records, c \in Contents : Change(r, c)
  \/ \E r \in Records, dismiss \in BOOLEAN : Decide(r, dismiss)
  \/ CheckNow \/ Show

Pulse == PulseRequests \/ PulseTakes \/ PulseChecks \/ PulseEnds

Next == User \/ Pulse \/ FourHours \/ Chat \/ Exit \/ Launch

Spec == Init /\ [][Next]_vars

\* The timer fires again after every pulse, and a pulse runs to its end.
FairSpec == Spec /\ WF_vars(Pulse)
-----------------------------------------------------------------------------
TypeOK ==
  /\ content \in [Records -> Contents]
  /\ queue \in Seq(Records) /\ failed \subseteq Records
  /\ refresh \in BOOLEAN
  /\ finding \in [Records -> Versions] /\ dismissed \in [Records -> Versions]
  /\ run \in {"none", "changes", "periodic", "manual"}
  /\ runOld \in BOOLEAN /\ fullOld \in BOOLEAN
  /\ up \in BOOLEAN /\ busy \in BOOLEAN
  /\ pc \in {"idle", "refresh", "check"} /\ tasks \in Seq(Records)
  /\ shown \in [Records -> Versions] /\ tried \subseteq Records /\ left \subseteq Records

\* A finding that does not describe the records as they are is on the queue or
\* will be: no change, crash or failed check is forgotten.
StaleFindingsAreQueued ==
  \A r \in Records : finding[r] # Inspect(r) => r \in Queued \/ (refresh /\ r \in Notes)

\* A run is completed only when every finding is current.
CompletedRunsAreCurrent ==
  [][run # "none" /\ run' = "none" => \A r \in Records : finding'[r] = Inspect(r)']_vars

\* WorkspaceUpkeep.tsx:66: '"Leave as is" hides this finding until its record
\* changes': background checks, full checks, crashes and checks of other records
\* leave it hidden (the version dismissed is the finding's), and what is hidden
\* is what the records say, although the user decided from a window loaded
\* earlier and the table may have been behind the records.
LeftAsIsStaysHidden ==
  \A r \in left : /\ finding[r] # None /\ dismissed[r] = finding[r]
                  /\ finding[r] = Inspect(r)

\* upkeep.ts:81: "Do not spin on a damaged/unsupported record".  Once its check
\* failed it is not checked again before it changed, the user asked for it or
\* four hours passed.
DamagedRecordsAreNotSpunOn ==
  [][\A r \in Records : pc = "check" /\ tasks # <<>> /\ tasks' = Tail(tasks) /\ Head(tasks) = r
       => r \notin tried]_vars

\* upkeep.ts:70 takes the oldest rows: every queued record is eventually checked,
\* however often the others change, once no chat response runs any more and the
\* others can be read.
QueuedRecordsAreChecked ==
  \A r \in Records :
    <>[](up /\ ~busy /\ \A q \in Records \ {r} : Readable(q)) =>
      (r \in Queued ~> (r \notin Queued \/ r \in failed))

\* upkeep.ts:46: a run, once begun, is completed, however often a check is asked
\* for again by the user or the clock and wherever a pulse was killed, provided
\* the records are eventually left alone, readable, and no chat response runs.
RunsComplete ==
  /\ <>[](up /\ ~busy /\ \A r \in Records : Readable(r))
  /\ <>[][UNCHANGED content]_vars
  => (run # "none" ~> run = "none")
=============================================================================
