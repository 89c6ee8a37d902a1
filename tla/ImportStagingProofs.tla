------------------------- MODULE ImportStagingProofs -------------------------
(***************************************************************************)
(* Theorems about staged imports (ImportStaging), for any windows, batches,*)
(* files, contents and limits.                                             *)
(*                                                                         *)
(* The rows (functions, sets) and the dispatcher's memory (booleans) are   *)
(* typed and strengthened apart, since no one backend does both well:      *)
(* RowsOK and StagingInv go to SMT, QueueOK and ProcessInv to Zenon.       *)
(***************************************************************************)
EXTENDS ImportStaging, FiniteSetTheorems, TLAPS

-----------------------------------------------------------------------------
\* What the steps below need of the constants: None is no content and no
\* entry, every entry is a row of a batch.
LEMMA ConstantFacts ==
  /\ None \notin Versions /\ None \notin LocalOnly /\ None \notin LocalPolicy /\ None \notin Entries
  /\ \A e \in Entries : BatchOf[e] \in Batches
BY ConstantsAssumption DEF ConstantsAssumption

\* A new database is well-formed.
LEMMA InitTyped == Init => TypeOK
<1> USE ConstantsAssumption DEF ConstantsAssumption
<1>1. Init => RowsOK
  BY SMT DEF Init, RowsOK, Statuses, Destinations, Original
<1>2. Init => QueueOK
  BY DEF Init, QueueOK
<1> QED
  BY <1>1, <1>2 DEF TypeOK

\* Every step leaves the dispatcher's memory well-formed.
LEMMA QueueStep ==
  ASSUME QueueOK, [Next]_vars
  PROVE  QueueOK'
<1> USE DEF QueueOK, durable, memory, rows
<1>1. CASE Request
  BY <1>1, Zenon DEF Request, Create, Load, Receive, Control, EditChoices, Discard, Commit, Wake
<1>2. CASE Organizer
  BY <1>2, Zenon DEF Organizer, StartOrganizing, StageOrganizationChoice, EndOrganizing
<1>3. CASE Dispatch \/ DispatchFails
  BY <1>3, Zenon DEF Dispatch, DispatchFails
<1>4. CASE Parser
  BY <1>4, Zenon DEF Parser, ParseDropped, ParseBusy, ParseSucceeds, ParseFails, ParseWriteFails, EndTask
<1>5. CASE Process
  BY <1>5, Zenon DEF Process, AwaitIdle, Stop, Exit, Launch
<1>6. CASE UNCHANGED vars
  BY <1>6, Zenon DEF vars
<1> QED
  BY <1>1, <1>2, <1>3, <1>4, <1>5, <1>6 DEF Next

\* What windows were shown stays well-formed.
LEMMA BumpTyped ==
  ASSUME RowsOK, NEW b \in Batches, Bump(b)
  PROVE  view' \in [Windows -> Views \union {None}]
BY SMT DEF RowsOK, Statuses, Bump

LEMMA LoadTyped ==
  ASSUME RowsOK, NEW w \in Windows, NEW b \in Batches, NEW page \in SUBSET EntriesOf(b), Load(w, b, page)
  PROVE  view' \in [Windows -> Views \union {None}]
<1>1. Cardinality(Included(b)) \in Nat
  <2>1. Included(b) \subseteq Entries BY DEF Included, EntriesOf
  <2> QED
    BY <2>1, ConstantsAssumption, FS_Subset, FS_CardinalityType DEF ConstantsAssumption
<1>2. page \subseteq Entries BY DEF EntriesOf
<1>3. \A e \in page : Row(e) \in Rows
  BY <1>2, SMT DEF RowsOK, Statuses, Row, Rows
<1>4. [batch |-> b, rows |-> {Row(e) : e \in page}, included |-> Cardinality(Included(b))] \in Views
  <2>1. {Row(e) : e \in page} \in SUBSET Rows BY <1>3
  <2> QED BY <1>1, <2>1, Zenon DEF Views
<1> QED BY <1>4, Zenon DEF Load, RowsOK, Statuses

\* Every step leaves well-formed rows.
LEMMA RowsStep ==
  ASSUME RowsOK, QueueOK, [Next]_vars
  PROVE  RowsOK'
<1> USE ConstantFacts
<1> USE DEF RowsOK, Statuses, Destinations, Original, EntriesOf, durable, memory, rows
<1>1. ASSUME NEW b \in Batches, NEW d \in Destinations, Create(b, d) PROVE RowsOK'
  BY <1>1, BumpTyped, SMT DEF Create
<1>2. ASSUME NEW w \in Windows, NEW b \in Batches, NEW page \in SUBSET EntriesOf(b), Load(w, b, page)
      PROVE RowsOK'
  BY <1>2, LoadTyped, SMT DEF Load
<1>3. ASSUME NEW e \in Entries, NEW v \in Versions, Receive(e, v) PROVE RowsOK'
  BY <1>3, BumpTyped, SMT DEF Receive, Accepted
<1>4. ASSUME NEW b \in Batches, NEW action \in {"pause", "resume", "retry"}, Control(b, action)
      PROVE RowsOK'
  BY <1>4, BumpTyped, SMT DEF Control, RetriedStatus
<1>5. ASSUME NEW w \in Windows, NEW b \in Batches, NEW chosen \in SUBSET EntriesOf(b),
             NEW d \in Destinations, EditChoices(w, b, chosen, d)
      PROVE RowsOK'
  BY <1>5, BumpTyped, SMT DEF EditChoices
<1>6. ASSUME NEW w \in Windows, NEW b \in Batches, Discard(w, b) PROVE RowsOK'
  BY <1>6, BumpTyped, SMT DEF Discard, Release
<1>7. ASSUME NEW w \in Windows, NEW b \in Batches, Commit(w, b) PROVE RowsOK'
  BY <1>7, BumpTyped, SMT DEF Commit, Release, Included
<1>8. ASSUME NEW b \in Batches, StartOrganizing(b) \/ EndOrganizing(b) PROVE RowsOK'
  BY <1>8, SMT DEF StartOrganizing, EndOrganizing
<1>9. ASSUME NEW e \in Entries, NEW d \in Destinations, StageOrganizationChoice(e, d) PROVE RowsOK'
  BY <1>9, BumpTyped, SMT DEF StageOrganizationChoice
<1>10. CASE ParseSucceeds
  <2>1. task \in Entries
    BY <1>10 DEF ParseSucceeds, QueueOK
  <2> QED
    BY <1>10, <2>1, BumpTyped, SMT DEF ParseSucceeds, EndTask
<1>11. CASE ParseFails
  <2>1. task \in Entries
    BY <1>11 DEF ParseFails, QueueOK
  <2> QED
    BY <1>11, <2>1, BumpTyped, SMT DEF ParseFails, EndTask
<1>12. ASSUME UNCHANGED <<durable, view, acked>>, given' \in Original PROVE RowsOK'
  BY <1>12, SMT
<1>13. CASE Launch
  BY <1>13, SMT DEF Launch
<1> QED
  <2>1. CASE DispatchFails \/ ParseDropped \/ ParseBusy \/ ParseWriteFails
             \/ AwaitIdle \/ Stop \/ Exit \/ UNCHANGED vars
    <3>1. UNCHANGED <<durable, view, acked>> /\ (given' = given \/ given' = None)
      BY <2>1, Zenon DEF DispatchFails, ParseDropped, ParseBusy, ParseWriteFails, EndTask,
         AwaitIdle, Stop, Exit, vars
    <3>2. given' \in Original BY <3>1, Zenon
    <3> QED BY <1>12, <3>1, <3>2
  <2>2. CASE Dispatch
    <3>1. UNCHANGED <<durable, view, acked>>
      BY <2>2, Zenon DEF Dispatch
    <3>2. given' = given \/ \E e \in Entries : given' = bytes[e]
      BY <2>2, Zenon DEF Dispatch
    <3>3. given' \in Original BY <3>2, SMT
    <3> QED BY <1>12, <3>1, <3>3
  <2> QED
    BY <1>1, <1>2, <1>3, <1>4, <1>5, <1>6, <1>7, <1>8, <1>9, <1>10, <1>11, <1>13, <2>1, <2>2
       DEF Next, Request, Organizer, Parser, Process

\* The rows satisfy the CHECK constraints of import_batches and import_entries,
\* and the dispatcher parses at most one entry.
THEOREM TypeCorrect == Spec => []TypeOK
<1>1. TypeOK /\ [Next]_vars => TypeOK'
  BY QueueStep, RowsStep DEF TypeOK
<1> QED
  BY InitTyped, <1>1, PTL DEF Spec
-----------------------------------------------------------------------------
RowInv(e) ==
  /\ acked[e] = IF hash[e] = None THEN {} ELSE {hash[e]}
  /\ bytes[e] # None => bytes[e] = hash[e]
  /\ batch[BatchOf[e]] = "none" => hash[e] = None /\ published[e] = None
  /\ batch[BatchOf[e]] = "review" /\ hash[e] # None => bytes[e] = hash[e] \/ status[e] = "skipped"
  /\ batch[BatchOf[e]] = "review" /\ status[e] = "ready" => e \in meta
  /\ e \in meta <=> text[e] # None
  /\ e \in meta => text[e] = bytes[e] /\ status[e] = "ready" /\ batch[BatchOf[e]] = "review"
  /\ text[e] \notin LocalOnly

PublishedInv(e) ==
  published[e] # None =>
    /\ batch[BatchOf[e]] = "committed"
    /\ published[e] = hash[e] /\ published[e] \notin LocalOnly
    /\ \A f \in EntriesOf(BatchOf[e]) : status[f] = "skipped" => hash[f] \notin LocalPolicy

TaskInv ==
  task # None => /\ batch[BatchOf[task]] # "none"
                 /\ batch[BatchOf[task]] = "review" =>
                      status[task] = "pending" /\ bytes[task] # None /\ bytes[task] = given

StagingInv ==
  /\ \A e \in Entries : RowInv(e) /\ PublishedInv(e)
  /\ TaskInv

\* An empty database satisfies the strengthening.
LEMMA InitStaging == Init => StagingInv
BY ConstantFacts, SMT DEF Init, StagingInv, RowInv, PublishedInv, TaskInv

\* An upload keeps it: the row it writes to is neither ready nor being parsed.
LEMMA ReceiveStep ==
  ASSUME RowsOK, QueueOK, StagingInv, NEW e \in Entries, NEW v \in Versions, Receive(e, v)
  PROVE  StagingInv'
<1> USE ConstantFacts
<1> USE DEF RowsOK, Statuses, QueueOK, StagingInv, RowInv, PublishedInv, TaskInv, Original, EntriesOf
<1>1. ASSUME NEW f \in Entries PROVE RowInv(f)'
  <2>1. acked'[e] = {v} /\ hash'[e] = v
    BY SMT DEF Receive, Accepted, SameOriginal
  <2>2. CASE f = e
    BY <2>1, <2>2, SMT DEF Receive, Accepted
  <2>3. CASE f # e
    BY <2>3, SMT DEF Receive, Accepted
  <2> QED
    BY <2>2, <2>3
<1>2. ASSUME NEW f \in Entries PROVE PublishedInv(f)'
  BY SMT DEF Receive, Accepted
<1>3. TaskInv'
  BY SMT DEF Receive, Accepted
<1> QED
  BY <1>1, <1>2, <1>3

\* Every step keeps the strengthening.
LEMMA StagingStep ==
  ASSUME RowsOK, QueueOK, StagingInv, [Next]_vars
  PROVE  StagingInv'
<1> USE ConstantFacts
<1> USE DEF RowsOK, Statuses, QueueOK, StagingInv, RowInv, PublishedInv, TaskInv, Original, EntriesOf, durable, memory, rows
<1>1. ASSUME NEW b \in Batches, NEW d \in Destinations, Create(b, d) PROVE StagingInv'
  BY <1>1, SMT DEF Create
<1>3. ASSUME NEW e \in Entries, NEW v \in Versions, Receive(e, v) PROVE StagingInv'
  BY <1>3, ReceiveStep
<1>4. ASSUME NEW b \in Batches, NEW action \in {"pause", "resume", "retry"}, Control(b, action)
      PROVE StagingInv'
  BY <1>4, SMT DEF Control, RetriedStatus
<1>5. ASSUME NEW w \in Windows, NEW b \in Batches, NEW chosen \in SUBSET EntriesOf(b),
             NEW d \in Destinations, EditChoices(w, b, chosen, d)
      PROVE StagingInv'
  BY <1>5, SMT DEF EditChoices
<1>6. ASSUME NEW w \in Windows, NEW b \in Batches, Discard(w, b) PROVE StagingInv'
  BY <1>6, SMT DEF Discard, Release
<1>7. ASSUME NEW w \in Windows, NEW b \in Batches, Commit(w, b) PROVE StagingInv'
  BY <1>7, SMT DEF Commit, Release, Included, PolicyFound, Excluded
<1>9. ASSUME NEW e \in Entries, NEW d \in Destinations, StageOrganizationChoice(e, d) PROVE StagingInv'
  BY <1>9, SMT DEF StageOrganizationChoice
<1>10. CASE ParseSucceeds
    BY <1>10, SMT DEF ParseSucceeds, EndTask, Late
<1>11. CASE ParseFails
    BY <1>11, SMT DEF ParseFails, EndTask, Late
<1>12. ASSUME UNCHANGED <<batch, paused, rows, meta, published, acked>>, UNCHANGED <<task, given>> \/ task' = None
       PROVE StagingInv'
  BY <1>12, SMT
<1>13. CASE Dispatch
  BY <1>13, SMT DEF Dispatch, Queued
<1>14. CASE \/ DispatchFails \/ ParseDropped \/ ParseBusy \/ ParseWriteFails
            \/ AwaitIdle \/ Stop \/ Exit \/ Launch \/ UNCHANGED vars
            \/ \E b \in Batches : StartOrganizing(b) \/ EndOrganizing(b)
            \/ \E w \in Windows, b \in Batches : \E page \in SUBSET EntriesOf(b) : Load(w, b, page)
  <2>1. UNCHANGED <<batch, paused, rows, meta, published, acked>> /\ (UNCHANGED <<task, given>> \/ task' = None)
    BY <1>14, Zenon DEF DispatchFails, ParseDropped, ParseBusy, ParseWriteFails, EndTask,
       AwaitIdle, Stop, Exit, Launch, vars, StartOrganizing, EndOrganizing, Load
  <2> QED
    BY <1>12, <2>1
<1> HIDE DEF RowsOK, Statuses, QueueOK, StagingInv, RowInv, PublishedInv, TaskInv, durable, memory, rows
<1> QED
  BY <1>1, <1>3, <1>4, <1>5, <1>6, <1>7, <1>9, <1>10, <1>11, <1>13, <1>14
     DEF Next, Request, Organizer, Parser, Process

\* Rows, originals and text stay consistent through every interleaving.
LEMMA StagingAlways == Spec => [](TypeOK /\ StagingInv)
<1>1. TypeOK /\ StagingInv /\ [Next]_vars => (TypeOK /\ StagingInv)'
  BY QueueStep, RowsStep, StagingStep DEF TypeOK
<1> QED
  BY InitTyped, InitStaging, <1>1, PTL DEF Spec

\* Through crashes, retries, pauses and other uploads, an acknowledged original
\* stays staged until its batch is finished or it is found local-only.
THEOREM AcknowledgedKept == Spec => []AcknowledgedOriginalsKept
<1>1. TypeOK /\ StagingInv => AcknowledgedOriginalsKept
  BY SMT DEF TypeOK, RowsOK, Statuses, Original, StagingInv, RowInv, AcknowledgedOriginalsKept
<1> QED
  BY StagingAlways, <1>1, PTL

\* Whatever ran while a file was parsed, a row of a batch still in review is
\* pending and holds the very bytes the parser was given at dispatch.
THEOREM ParserOwnsItsRow == Spec => []ParserWritesItsOwnJob
<1>1. TypeOK /\ StagingInv => ParserWritesItsOwnJob
  BY Zenon DEF StagingInv, TaskInv, ParserWritesItsOwnJob
<1> QED
  BY StagingAlways, <1>1, PTL

\* The text a row has was parsed from the original it holds, although bytes
\* are read before the parser is awaited and text is written, by entry id,
\* after it: this follows from ParserOwnsItsRow's invariant.
THEOREM TextMatches == Spec => []TextMatchesOriginal
<1>1. TypeOK /\ StagingInv => TextMatchesOriginal
  BY Zenon DEF StagingInv, RowInv, TextMatchesOriginal
<1> QED
  BY StagingAlways, <1>1, PTL

\* Commits register acknowledged, permitted originals only.
THEOREM PublishedPermitted == Spec => []PublishedOnlyPermittedOriginals
<1>1. TypeOK /\ StagingInv => PublishedOnlyPermittedOriginals
  BY ConstantFacts, SMT
     DEF TypeOK, RowsOK, Statuses, Original, StagingInv, RowInv, PublishedInv, PublishedOnlyPermittedOriginals
<1> QED
  BY StagingAlways, <1>1, PTL

\* No step changes the rows of a finished batch or what it registered.
THEOREM FinishedFinal == Spec => FinishedBatchesAreFinal
<1> DEFINE Kept(e) == /\ batch'[BatchOf[e]] = batch[BatchOf[e]]
                      /\ status'[e] = status[e] /\ dest'[e] = dest[e]
                      /\ hash'[e] = hash[e] /\ bytes'[e] = bytes[e] /\ published'[e] = published[e]
<1>1. ASSUME TypeOK, StagingInv, [Next]_vars,
             NEW e \in Entries, batch[BatchOf[e]] \in {"committed", "discarded"}
      PROVE Kept(e)
  <2> USE <1>1, ConstantFacts
  <2> USE DEF TypeOK, RowsOK, Statuses, QueueOK, Original, EntriesOf, durable, memory, rows
  <2>1. ASSUME NEW b \in Batches, NEW d \in Destinations, Create(b, d) PROVE Kept(e)
    BY <2>1, SMT DEF Create
  <2>2. ASSUME NEW f \in Entries, NEW v \in Versions, Receive(f, v) PROVE Kept(e)
    BY <2>2, SMT DEF Receive, Accepted
  <2>3. ASSUME NEW b \in Batches, NEW action \in {"pause", "resume", "retry"}, Control(b, action)
        PROVE Kept(e)
    BY <2>3, SMT DEF Control
  <2>4. ASSUME NEW w \in Windows, NEW b \in Batches, NEW chosen \in SUBSET EntriesOf(b),
               NEW d \in Destinations, EditChoices(w, b, chosen, d)
        PROVE Kept(e)
    BY <2>4, SMT DEF EditChoices
  <2>5. ASSUME NEW w \in Windows, NEW b \in Batches, Discard(w, b) PROVE Kept(e)
    BY <2>5, SMT DEF Discard, Release
  <2>6. ASSUME NEW w \in Windows, NEW b \in Batches, Commit(w, b) PROVE Kept(e)
    BY <2>6, SMT DEF Commit, Release, Included
  <2>7. ASSUME NEW f \in Entries, NEW d \in Destinations, StageOrganizationChoice(f, d) PROVE Kept(e)
    BY <2>7, SMT DEF StageOrganizationChoice
  <2>8. CASE ParseSucceeds
    BY <2>8, SMT DEF ParseSucceeds, Late
  <2>9. CASE ParseFails
    BY <2>9, SMT DEF ParseFails, Late
  <2>10. CASE \/ Dispatch \/ DispatchFails \/ ParseDropped \/ ParseBusy \/ ParseWriteFails
              \/ AwaitIdle \/ Stop \/ Exit \/ Launch \/ UNCHANGED vars
              \/ \E b \in Batches : StartOrganizing(b) \/ EndOrganizing(b)
              \/ \E w \in Windows, b \in Batches : \E page \in SUBSET EntriesOf(b) : Load(w, b, page)
    <3>1. UNCHANGED <<batch, status, dest, hash, bytes, published>>
      BY <2>10, Zenon DEF Dispatch, DispatchFails, ParseDropped, ParseBusy, ParseWriteFails,
         AwaitIdle, Stop, Exit, Launch, vars, StartOrganizing, EndOrganizing, Load
    <3> QED
      BY <3>1
  <2> QED
    BY <2>1, <2>2, <2>3, <2>4, <2>5, <2>6, <2>7, <2>8, <2>9, <2>10
       DEF Next, Request, Organizer, Parser, Process
<1>2. TypeOK /\ StagingInv /\ [Next]_vars =>
        [\A e \in Entries : batch[BatchOf[e]] \in {"committed", "discarded"} => Kept(e)]_vars
  BY <1>1
<1> QED
  BY StagingAlways, <1>2, PTL DEF Spec, FinishedBatchesAreFinal

\* What a step of an unfinished batch may register: all of it, and only by the
\* commit of that batch.
LEMMA RegisteredStep ==
  ASSUME TypeOK, StagingInv, [Next]_vars
  PROVE  \/ published' = published /\ \A b \in Batches : batch'[b] = "committed" => batch'[b] = batch[b]
         \/ \E w \in Windows, b \in Batches : Commit(w, b)
<1> DEFINE Nothing == published' = published
                      /\ \A b \in Batches : batch'[b] = "committed" => batch'[b] = batch[b]
<1> USE DEF durable, memory, rows
<1>0. batch \in [Batches -> {"none", "review", "committed", "discarded"}] BY DEF TypeOK, RowsOK, Statuses
<1>1. ASSUME NEW b \in Batches, NEW d \in Destinations, Create(b, d) PROVE Nothing
  BY <1>0, <1>1, SMT DEF Create
<1>2. ASSUME NEW e \in Entries, NEW v \in Versions, Receive(e, v) PROVE Nothing
  BY <1>2, Zenon DEF Receive
<1>3. ASSUME NEW b \in Batches, NEW action \in {"pause", "resume", "retry"}, Control(b, action) PROVE Nothing
  BY <1>3, Zenon DEF Control
<1>4. ASSUME NEW w \in Windows, NEW b \in Batches, NEW chosen \in SUBSET EntriesOf(b),
             NEW d \in Destinations, EditChoices(w, b, chosen, d)
      PROVE Nothing
  BY <1>4, Zenon DEF EditChoices
<1>5. ASSUME NEW w \in Windows, NEW b \in Batches,
             (\E page \in SUBSET EntriesOf(b) : Load(w, b, page)) \/ Discard(w, b) PROVE Nothing
  BY <1>0, <1>5, SMT DEF Load, Discard, Release
<1>6. CASE Organizer
  BY <1>6, Zenon DEF Organizer, StartOrganizing, StageOrganizationChoice, EndOrganizing
<1>7. CASE Dispatch \/ DispatchFails \/ Parser \/ Process \/ UNCHANGED vars
  BY <1>7, Zenon DEF Dispatch, DispatchFails, Parser, ParseDropped, ParseBusy, ParseSucceeds, ParseFails,
     ParseWriteFails, Process, AwaitIdle, Stop, Exit, Launch, vars
<1> QED
  BY <1>1, <1>2, <1>3, <1>4, <1>5, <1>6, <1>7 DEF Next, Request

\* A commit registers exactly the included files, all of them ready; nothing
\* else registers any.  That the files of a batch in review were not registered
\* before comes from PublishedInv.
THEOREM AllOrNothing == Spec => CommitIsAllOrNothing
<1> DEFINE registered(b) == {e \in EntriesOf(b) : published'[e] # published[e]}
           Whole(b) ==
             /\ registered(b) # {} =>
                  /\ batch[b] = "review" /\ batch'[b] = "committed"
                  /\ registered(b) = {e \in EntriesOf(b) : status[e] = "ready" /\ dest[e] # "skip"}
                  /\ \A e \in EntriesOf(b) : status[e] \in {"pending", "error"} => dest[e] = "skip"
             /\ registered(b) = {} => batch'[b] = batch[b] \/ batch'[b] # "committed"
<1>1. ASSUME TypeOK, StagingInv, [Next]_vars, NEW b \in Batches PROVE Whole(b)
  <2> USE <1>1
  <2>1. CASE published' = published /\ \A c \in Batches : batch'[c] = "committed" => batch'[c] = batch[c]
    <3>1. registered(b) = {} BY <2>1
    <3> QED BY <2>1, <3>1, Zenon
  <2>2. ASSUME NEW w \in Windows, NEW c \in Batches, Commit(w, c) PROVE Whole(b)
    <3>1. /\ batch \in [Batches -> {"none", "review", "committed", "discarded"}]
          /\ status \in [Entries -> {"pending", "ready", "error", "skipped"}]
      BY DEF TypeOK, RowsOK, Statuses
    <3>2. CASE b # c
      <4>1. registered(b) = {} BY <3>2, <2>2, SMT DEF Commit, Included, EntriesOf
      <4>2. batch'[b] = batch[b] BY <3>1, <3>2, <2>2, SMT DEF Commit
      <4> QED BY <4>1, <4>2, Zenon
    <3>3. CASE b = c
      <4>1. batch[b] = "review" /\ batch'[b] = "committed" /\ Included(b) # {}
        BY <3>1, <3>3, <2>2, SMT DEF Commit
      <4>2. \A e \in EntriesOf(b) : e \in Entries /\ BatchOf[e] = b BY DEF EntriesOf
      <4>3. \A e \in EntriesOf(b) : published[e] = None
        BY <4>1, <4>2, Zenon DEF StagingInv, PublishedInv
      <4>4. \A e \in Included(b) : status[e] = "ready" /\ bytes[e] # None
        BY <3>3, <2>2, Zenon DEF Commit
      <4>5. \A e \in EntriesOf(b) : published'[e] = IF e \in Included(b) THEN bytes[e] ELSE published[e]
        BY <3>3, <2>2, <4>2, Zenon DEF Commit
      <4>6. registered(b) = Included(b)
        BY <4>3, <4>4, <4>5 DEF Included
      <4>7. \A e \in EntriesOf(b) : e \in Included(b) <=> status[e] # "skipped" /\ dest[e] # "skip"
        BY Zenon DEF Included, Excluded
      <4>8. \A e \in EntriesOf(b) : e \in Included(b) <=> status[e] = "ready" /\ dest[e] # "skip"
        BY <4>4, <4>7
      <4>9. Included(b) = {e \in EntriesOf(b) : status[e] = "ready" /\ dest[e] # "skip"}
        BY <4>8 DEF Included
      <4>10. \A e \in EntriesOf(b) : status[e] \in {"pending", "error"} => dest[e] = "skip"
        BY <4>4, <4>7
      <4> QED BY <4>1, <4>6, <4>9, <4>10, Zenon
    <3> QED BY <3>2, <3>3
  <2> HIDE DEF Whole
  <2> QED BY <2>1, <2>2, RegisteredStep
<1>2. TypeOK /\ StagingInv /\ [Next]_vars => [\A b \in Batches : Whole(b)]_vars
  <2> HIDE DEF Whole
  <2> QED BY <1>1, Zenon
<1> QED
  BY StagingAlways, <1>2, PTL DEF Spec, CommitIsAllOrNothing

-----------------------------------------------------------------------------
\* The organizer's promise: one job at a time, of a batch in review.  Nobody
\* finishes a batch while its job runs, and a launch starts without any.
OrganizingInv == \A b, c \in organizing : batch[b] = "review" /\ b = c

LEMMA OrganizingStep ==
  ASSUME TypeOK, OrganizingInv, [Next]_vars
  PROVE  OrganizingInv'
<1> USE ConstantFacts DEF TypeOK, RowsOK, Statuses, OrganizingInv, durable, memory, rows
<1>1. ASSUME NEW b \in Batches, NEW d \in Destinations, Create(b, d) PROVE OrganizingInv'
  BY <1>1, SMT DEF Create
<1>2. ASSUME NEW w \in Windows, NEW b \in Batches,
             (\E page \in SUBSET EntriesOf(b) : Load(w, b, page)) \/ Discard(w, b) \/ Commit(w, b)
      PROVE OrganizingInv'
  BY <1>2, SMT DEF Load, Discard, Commit, Editable
<1>3. ASSUME NEW b \in Batches, StartOrganizing(b) PROVE OrganizingInv'
  BY <1>3, SMT DEF StartOrganizing, InReview
<1>4. ASSUME NEW b \in Batches, EndOrganizing(b) PROVE OrganizingInv'
  BY <1>4, SMT DEF EndOrganizing
<1>5. CASE Launch
  BY <1>5, SMT DEF Launch
<1>6. CASE \/ \E e \in Entries, v \in Versions : Receive(e, v)
           \/ \E b \in Batches, action \in {"pause", "resume", "retry"} : Control(b, action)
           \/ \E w \in Windows, b \in Batches :
                \E chosen \in (SUBSET EntriesOf(b)) \ {{}}, d \in Destinations :
                  EditChoices(w, b, chosen, d)
           \/ \E e \in Entries, d \in Destinations : StageOrganizationChoice(e, d)
           \/ Dispatch \/ DispatchFails \/ Parser \/ AwaitIdle \/ Stop \/ Exit \/ UNCHANGED vars
  <2>1. UNCHANGED <<batch, organizing>>
    BY <1>6, Zenon DEF Receive, Control, EditChoices, StageOrganizationChoice, Dispatch, DispatchFails,
       Parser, ParseDropped, ParseBusy, ParseSucceeds, ParseFails, ParseWriteFails, AwaitIdle, Stop,
       Exit, vars
  <2> QED BY <2>1
<1> QED
  BY <1>1, <1>2, <1>3, <1>4, <1>5, <1>6, Zenon DEF Next, Request, Organizer, Process

\* Every step of staging is one of the contract or none.
LEMMA SharedStep ==
  ASSUME TypeOK, StagingInv, OrganizingInv, [Next]_vars
  PROVE  [Shared!Next]_(Shared!ivars)
<1> DEFINE fileOf == [e \in Entries |-> FileOf(e)]
           kept == {e \in Entries : dest[e] # "skip"}
           Same == UNCHANGED <<batch, fileOf, kept, organizing>>
<1> USE ConstantFacts
<1> USE DEF TypeOK, RowsOK, Statuses, QueueOK, EntriesOf, Shared!EntriesOf, durable, memory, rows
<1>0. Same => UNCHANGED Shared!ivars
  BY DEF Shared!ivars
<1>1. ASSUME NEW b \in Batches, NEW d \in Destinations, Create(b, d)
      PROVE  \E queued, chosen \in SUBSET Shared!EntriesOf(b) : Shared!Create(b, queued, chosen)
  <2> DEFINE queued == EntriesOf(b) \ Unsupported
             chosen == IF d = "skip" THEN {} ELSE EntriesOf(b)
  <2>1. \A e \in EntriesOf(b) : hash[e] = None
    BY <1>1, SMT DEF Create, StagingInv, RowInv
  <2>2. Shared!Create(b, queued, chosen)
    BY <1>1, <2>1, SMT DEF Create, Shared!Create, FileOf
  <2> QED BY <2>2
<1>2. ASSUME NEW w \in Windows, NEW b \in Batches, NEW page \in SUBSET EntriesOf(b), Load(w, b, page)
      PROVE Same
  BY <1>2, SMT DEF Load, FileOf
<1>3. ASSUME NEW e \in Entries, NEW v \in Versions, Receive(e, v)
      PROVE  Same \/ \E b \in Batches : \E failed \in SUBSET Shared!EntriesOf(b) : Shared!Retry(b, failed)
  <2>1. Same \/ Shared!Retry(BatchOf[e], {e})
    BY <1>3, SMT DEF Receive, Accepted, FileOf, Shared!Retry
  <2>2. BatchOf[e] \in Batches /\ {e} \in SUBSET Shared!EntriesOf(BatchOf[e]) OBVIOUS
  <2> HIDE DEF Same
  <2> QED BY <2>1, <2>2, Zenon
<1>4. ASSUME NEW b \in Batches, NEW action \in {"pause", "resume", "retry"}, Control(b, action)
      PROVE  \E failed \in SUBSET Shared!EntriesOf(b) : Shared!Retry(b, failed)
  <2> DEFINE failed == {e \in EntriesOf(b) : action = "retry" /\ status[e] = "error" /\ bytes[e] # None}
  <2>1. Shared!Retry(b, failed)
    BY <1>4, SMT DEF Control, RetriedStatus, FileOf, Shared!Retry
  <2> QED BY <2>1
<1>5. ASSUME NEW w \in Windows, NEW b \in Batches, NEW chosen \in SUBSET EntriesOf(b),
             NEW d \in Destinations, EditChoices(w, b, chosen, d)
      PROVE  Shared!Include(b, chosen) \/ Shared!LeaveOut(b, chosen)
  BY <1>5, SMT DEF EditChoices, Editable, FileOf, Shared!Include, Shared!LeaveOut, Shared!LeftOut
<1>6. ASSUME NEW w \in Windows, NEW b \in Batches, Discard(w, b) PROVE Shared!Finish(b, "discarded")
  BY <1>6, SMT DEF Discard, Editable, Release, FileOf, Shared!Finish
<1>7. ASSUME NEW w \in Windows, NEW b \in Batches, Commit(w, b) PROVE Shared!Finish(b, "committed")
  <2>1. Shared!Kept(b) = Included(b)
    BY SMT DEF Shared!Kept, Shared!LeftOut, Included, Excluded, FileOf
  <2>2. \A e \in EntriesOf(b) : FileOf(e) # "policy"
    BY <1>7, SMT DEF Commit, PolicyFound, FileOf
  <2>3. \A e \in Included(b) : e \in Entries /\ FileOf(e) = "ready"
    BY <1>7, SMT DEF Commit, FileOf, Included
  <2>4. UNCHANGED <<fileOf, kept, organizing>>
    BY <1>7, SMT DEF Commit, Release, FileOf
  <2> QED BY <1>7, <2>1, <2>2, <2>3, <2>4, SMT DEF Commit, Editable, Shared!Finish
<1>8. ASSUME NEW b \in Batches, StartOrganizing(b) PROVE Shared!Organize(b)
  BY <1>8, SMT DEF StartOrganizing, InReview, OrganizingInv, FileOf, Shared!Organize
<1>9. ASSUME NEW e \in Entries, NEW d \in Destinations, StageOrganizationChoice(e, d) PROVE Same
  BY <1>9, SMT DEF StageOrganizationChoice, Excluded, FileOf
<1>10. ASSUME NEW b \in Batches, EndOrganizing(b) PROVE Shared!Rest
  BY <1>10, SMT DEF EndOrganizing, OrganizingInv, FileOf, Shared!Rest
<1>11. CASE ParseSucceeds \/ ParseFails
  <2>1. task \in Entries /\ batch[BatchOf[task]] = "review" /\ status[task] = "pending"
    BY <1>11, SMT DEF ParseSucceeds, ParseFails, Late, StagingInv, TaskInv
  <2>2. PICK e \in Entries : e = task BY <2>1
  <2>3. FileOf(e)' \in Shared!Parsed
    BY <1>11, <2>1, <2>2, SMT DEF ParseSucceeds, ParseFails, FileOf, Shared!Parsed
  <2>4. \A f \in Entries : f # e => FileOf(f)' = FileOf(f)
    BY <1>11, <2>1, <2>2, SMT DEF ParseSucceeds, ParseFails, FileOf
  <2>5. UNCHANGED <<batch, dest, organizing>>
    BY <1>11, Zenon DEF ParseSucceeds, ParseFails
  <2>6. fileOf' = [fileOf EXCEPT ![e] = FileOf(e)']
    <3> HIDE DEF TypeOK, RowsOK, Statuses, QueueOK
    <3>1. fileOf' = [f \in Entries |-> IF f = e THEN FileOf(e)' ELSE FileOf(f)]
      BY <2>4, Zenon
    <3> QED BY <3>1, Zenon
  <2>7. fileOf[e] = "waiting" BY <2>1, <2>2 DEF FileOf
  <2>8. Shared!Parse(e, FileOf(e)')
    BY <2>1, <2>2, <2>5, <2>6, <2>7, Zenon DEF Shared!Parse
  <2> QED BY <2>3, <2>8, Zenon DEF Shared!Next
<1>12. CASE \/ Dispatch \/ DispatchFails \/ ParseDropped \/ ParseBusy \/ ParseWriteFails
            \/ AwaitIdle \/ Stop \/ Exit \/ UNCHANGED vars
  <2>1. UNCHANGED <<batch, status, hash, dest, organizing>>
    BY <1>12, Zenon DEF Dispatch, DispatchFails, ParseDropped, ParseBusy, ParseWriteFails,
       AwaitIdle, Stop, Exit, vars
  <2>2. Same BY <2>1 DEF FileOf
  <2> QED BY <1>0, <2>2
<1>13. CASE Launch
  <2>1. UNCHANGED <<batch, status, hash, dest>> /\ organizing' = {}
    BY <1>13, Zenon DEF Launch
  <2>2. Shared!Rest BY <2>1 DEF Shared!Rest, FileOf
  <2> QED BY <2>2 DEF Shared!Next
<1> QED
  <2>1. \A b \in Batches : EntriesOf(b) = Shared!EntriesOf(b) OBVIOUS
  <2> HIDE DEF Same
  <2>2. CASE Request
    BY <1>0, <1>1, <1>2, <1>3, <1>4, <1>5, <1>6, <1>7, <2>1, <2>2, ZenonT(60) DEF Request, Shared!Next
  <2>3. CASE Organizer
    BY <1>0, <1>8, <1>9, <1>10, <2>3, Zenon DEF Organizer, Shared!Next
  <2>4. CASE ~Request /\ ~Organizer
    BY <1>11, <1>12, <1>13, <2>4, Zenon DEF Next, Parser, Process
  <2> QED BY <2>2, <2>3, <2>4

\* Staging implements the contract it shares with organization.
THEOREM StagingImplementsContract == Spec => ImplementsImportContract
<1>1. Init => OrganizingInv BY DEF Init, OrganizingInv
<1>2. Init => Shared!Init
  BY ConstantFacts, SMT DEF Init, Shared!Init, Shared!Parsed, FileOf
<1>3. Spec => [](TypeOK /\ StagingInv /\ OrganizingInv)
  BY <1>1, OrganizingStep, StagingAlways, PTL DEF Spec
<1> QED
  BY <1>2, <1>3, SharedStep, StagingAlways, PTL DEF Spec, ImplementsImportContract, Shared!Spec
-----------------------------------------------------------------------------
(* The dispatcher *)

\* Memory is empty while the process is down, or a relaunch could find a timer
\* or a task of its predecessor.
ProcessInv ==
  /\ ~up => ~stopped /\ ~timer /\ ~fault /\ ~waiting /\ task = None
  /\ OneDispatcher
  /\ IdleWaiterHasOwner

\* Every step keeps one dispatcher and an owner for every waiter.
LEMMA ProcessStep ==
  ASSUME QueueOK, ProcessInv, [Next]_vars
  PROVE  ProcessInv'
<1> USE DEF QueueOK, ProcessInv, OneDispatcher, IdleWaiterHasOwner
<1> DEFINE Woken == timer' = timer \/ timer' = (timer \/ (~stopped /\ task = None))
                                   \/ timer' = (timer \/ (~stopped /\ ~fault /\ task = None))
<1>1. CASE UNCHANGED memory
  BY <1>1, Zenon DEF memory
<1>2. ASSUME up, UNCHANGED <<up, stopped, task, waiting>>, timer => timer', timer' => timer \/ (~stopped /\ task = None)
      PROVE ProcessInv'
  BY <1>2, Zenon
<1>3. CASE Request
  <2>1. Request => UNCHANGED memory \/ (/\ up /\ UNCHANGED <<up, stopped, task, waiting>> /\ (timer => timer') /\ (timer' => timer \/ (~stopped /\ task = None)))
    BY ZenonT(30) DEF Request, Create, Load, Receive, Control, EditChoices, Discard, Commit, Wake, memory, durable, rows
  <2> QED
    BY <1>1, <1>2, <1>3, <2>1, Zenon
<1>4. CASE Dispatch \/ DispatchFails
  BY <1>4, ConstantFacts, Zenon DEF Dispatch, DispatchFails
<1>5. CASE Parser
  <2>1. Parser => up /\ UNCHANGED <<up, stopped>> /\ task' = None /\ (stopped => ~timer') /\ (waiting' => timer')
    BY ZenonT(30) DEF Parser, ParseDropped, ParseBusy, ParseSucceeds, ParseFails, ParseWriteFails, EndTask, memory, durable, rows
  <2>2. up' /\ task' = None /\ (stopped' => ~timer') /\ (waiting' => timer')
    BY <1>5, <2>1 
  <2> QED
    BY <2>2, Zenon 
<1>6. CASE AwaitIdle
  BY <1>6, Zenon DEF AwaitIdle
<1>7. CASE Stop
  BY <1>7, Zenon DEF Stop
<1>8. CASE Exit
  BY <1>8, Zenon DEF Exit
<1>9. CASE Launch
  BY <1>9, Zenon DEF Launch
<1>10. CASE UNCHANGED vars
  BY <1>1, <1>10, Zenon DEF vars, memory
<1>11. CASE Organizer
  BY <1>1, <1>11, Zenon DEF Organizer, StartOrganizing, StageOrganizationChoice, EndOrganizing, memory
<1> QED
  BY <1>3, <1>4, <1>5, <1>6, <1>7, <1>8, <1>9, <1>10, <1>11 DEF Next, Process
\* A step that makes an entry queued also schedules a dispatch.
LEMMA WakeupStep ==
  ASSUME RowsOK, QueueOK, StagingInv, ProcessInv, NoLostWakeup, [Next]_vars
  PROVE  NoLostWakeup'
<1> USE DEF ProcessInv, OneDispatcher, durable, memory, rows
<1> DEFINE NothingNew == (\A e \in Entries : Queued(e)' => Queued(e))
<1>1. ASSUME NothingNew, UNCHANGED <<up, stopped, timer, fault, task>> PROVE NoLostWakeup'
  BY <1>1, Zenon DEF NoLostWakeup
<1>2. ASSUME NEW b \in Batches, NEW d \in Destinations, Create(b, d) PROVE NoLostWakeup'
  <2>1. NothingNew
    BY <1>2, SMT DEF Create, Queued, RowsOK, Statuses, StagingInv, RowInv, EntriesOf
  <2> QED
    BY <1>1, <1>2, <2>1, Zenon DEF Create
<1>3. ASSUME NEW b \in Batches, NEW w \in Windows, NEW page \in SUBSET EntriesOf(b),
             Load(w, b, page) \/ Discard(w, b) \/ Commit(w, b) PROVE NoLostWakeup'
  <2>1. NothingNew
    <3>1. ASSUME Load(w, b, page) PROVE NothingNew
      BY <3>1, SMT DEF Load, Queued
    <3>2. ASSUME Discard(w, b) PROVE NothingNew
      BY <3>2, SMT DEF Discard, Queued, RowsOK, Statuses, EntriesOf, Release
    <3>3. ASSUME Commit(w, b) PROVE NothingNew
      BY <3>3, SMT DEF Commit, Queued, RowsOK, Statuses, EntriesOf, Release
    <3> QED
      BY <1>3, <3>1, <3>2, <3>3
  <2> QED
    BY <1>1, <1>3, <2>1, Zenon DEF Load, Discard, Commit
<1>4. ASSUME NEW e \in Entries, NEW v \in Versions, Receive(e, v) PROVE NoLostWakeup'
  BY <1>4, Zenon DEF Receive, Wake, NoLostWakeup
<1>5. ASSUME NEW b \in Batches, NEW action \in {"pause", "resume", "retry"}, Control(b, action) PROVE NoLostWakeup'
  BY <1>5, Zenon DEF Control, Wake, NoLostWakeup
<1>6. ASSUME NEW w \in Windows, NEW b \in Batches, NEW chosen \in SUBSET EntriesOf(b),
             NEW d \in Destinations, EditChoices(w, b, chosen, d) PROVE NoLostWakeup'
  BY <1>6, Zenon DEF EditChoices, Wake, NoLostWakeup
<1>7. ASSUME NEW b \in Batches, StartOrganizing(b) \/ EndOrganizing(b) PROVE NoLostWakeup'
  <2>1. NothingNew
    BY <1>7, SMT DEF StartOrganizing, EndOrganizing, Queued, RowsOK, Statuses
  <2> QED
    BY <1>1, <1>7, <2>1, Zenon DEF StartOrganizing, EndOrganizing
<1>8. ASSUME NEW e \in Entries, NEW d \in Destinations, StageOrganizationChoice(e, d) PROVE NoLostWakeup'
  <2>1. NothingNew
    BY <1>8, SMT DEF StageOrganizationChoice, Queued, RowsOK, Statuses
  <2> QED
    BY <1>1, <1>8, <2>1, Zenon DEF StageOrganizationChoice
<1>9. CASE Dispatch
  <2>1. NothingNew
    BY <1>9, SMT DEF Dispatch, Queued, RowsOK, Statuses
  <2>2. NothingNew /\ (task' # None \/ ~\E e \in Entries : Queued(e))
    BY <1>9, <2>1, ConstantFacts, Zenon DEF Dispatch
  <2> QED
    BY <2>2, Zenon DEF NoLostWakeup
<1>10. CASE Parser
  <2>1. timer' \/ stopped' \/ fault'
    BY <1>10, Zenon DEF Parser, ParseDropped, ParseBusy, ParseSucceeds, ParseFails, ParseWriteFails, EndTask, QueueOK
  <2> QED
    BY <2>1, Zenon DEF NoLostWakeup
<1>11. CASE DispatchFails
  BY <1>11, Zenon DEF DispatchFails, NoLostWakeup
<1>12. CASE AwaitIdle
  <2>1. NothingNew
    BY <1>12, SMT DEF AwaitIdle, Queued, RowsOK, Statuses
  <2> QED
    BY <1>1, <1>12, <2>1, Zenon DEF AwaitIdle
<1>13. CASE Stop \/ Exit \/ Launch
  BY <1>13, Zenon DEF Stop, Exit, Launch, NoLostWakeup
<1>14. CASE UNCHANGED vars
  <2>1. NothingNew
    BY <1>14, SMT DEF vars, Queued, RowsOK, Statuses
  <2> QED
    BY <1>1, <1>14, <2>1, Zenon DEF vars
<1> QED
  BY <1>2, <1>3, <1>4, <1>5, <1>6, <1>7, <1>8, <1>9, <1>10, <1>11, <1>12, <1>13, <1>14 DEF Next, Request, Organizer, Process

\* There is one dispatcher, waiters have an owner, no wake-up is lost.
THEOREM DispatcherSafe == Spec => [](OneDispatcher /\ IdleWaiterHasOwner /\ NoLostWakeup)
<1>1. Init => ProcessInv /\ NoLostWakeup
  BY Zenon DEF Init, ProcessInv, OneDispatcher, IdleWaiterHasOwner, NoLostWakeup
<1>2. TypeOK /\ StagingInv /\ ProcessInv /\ NoLostWakeup /\ [Next]_vars
        => (ProcessInv /\ NoLostWakeup)'
  BY ProcessStep, WakeupStep DEF TypeOK
<1>3. ProcessInv => OneDispatcher /\ IdleWaiterHasOwner
  BY DEF ProcessInv
<1> QED
  BY StagingAlways, <1>1, <1>2, <1>3, PTL DEF Spec

-----------------------------------------------------------------------------
(* What a window was shown *)

\* What a window was shown is so.  Rows shown are rows of the batch of the
\* view, so that a write of another batch, which leaves the view current, does
\* not change them.
Shown(w) ==
  view[w] # None =>
    /\ \A shown \in view[w].rows : shown = Row(shown.entry) /\ shown.entry \in EntriesOf(view[w].batch)
    /\ view[w].included = Cardinality(Included(view[w].batch))
ReviewInv == \A w \in Windows : Shown(w)

\* What a view says depends only on the rows of its batch.
LEMMA ViewKept ==
  ASSUME NEW w \in Windows, Shown(w), view'[w] = view[w],
         view[w] # None => \A e \in EntriesOf(view[w].batch) :
            status'[e] = status[e] /\ dest'[e] = dest[e] /\ text'[e] = text[e]
  PROVE  Shown(w)'
<1> SUFFICES ASSUME view[w] # None PROVE Shown(w)'
  BY DEF Shown
<1> DEFINE seen == view[w]
           b == seen.batch
<1>1. ASSUME NEW shown \in seen.rows PROVE shown = Row(shown.entry)' /\ shown.entry \in EntriesOf(b)
  <2>1. shown = Row(shown.entry) /\ shown.entry \in EntriesOf(b)
    BY Zenon DEF Shown
  <2>2. Row(shown.entry)' = Row(shown.entry) BY <2>1, Zenon DEF Row
  <2> QED BY <2>1, <2>2
<1>2. seen.included = Cardinality(Included(b))
  BY Zenon DEF Shown
<1>3. PICK c : c = b OBVIOUS
<1>4. Included(c)' = Included(c)
  BY <1>3 DEF Included, Excluded, EntriesOf
<1>5. view'[w].batch = c /\ view'[w] = seen /\ EntriesOf(c)' = EntriesOf(c)
  BY <1>3 DEF EntriesOf
<1> QED BY <1>1, <1>2, <1>3, <1>4, <1>5, Zenon DEF Shown

\* A step that changes rows of a batch takes its revision from every window.
LEMMA ReviewStep ==
  ASSUME RowsOK, QueueOK, ReviewInv, [Next]_vars
  PROVE  ReviewInv'
<1> USE DEF durable, memory, rows
<1>0. ASSUME NEW w \in Windows, view'[w] # None =>
               /\ view'[w] = view[w]
               /\ \A e \in EntriesOf(view[w].batch) :
                     status'[e] = status[e] /\ dest'[e] = dest[e] /\ text'[e] = text[e]
      PROVE Shown(w)'
  <2>1. CASE view'[w] = None
    BY <2>1 DEF Shown
  <2>2. CASE view'[w] # None
    BY <1>0, <2>2, ViewKept, Zenon DEF ReviewInv
  <2> QED BY <2>1, <2>2
<1>1. ASSUME NEW b \in Batches, Bump(b),
             \A e \in Entries : BatchOf[e] # b =>
                status'[e] = status[e] /\ dest'[e] = dest[e] /\ text'[e] = text[e]
      PROVE ReviewInv'
  <2>1. ASSUME NEW w \in Windows, view'[w] # None
        PROVE  /\ view'[w] = view[w]
               /\ \A e \in EntriesOf(view[w].batch) :
                     status'[e] = status[e] /\ dest'[e] = dest[e] /\ text'[e] = text[e]
    BY <1>1, <2>1, Zenon DEF Bump, Holds, EntriesOf
  <2> QED BY <1>0, <2>1, Zenon DEF ReviewInv
<1>2. CASE UNCHANGED <<view, status, dest, text>>
  BY <1>0, <1>2, Zenon DEF ReviewInv
<1>3. ASSUME NEW b \in Batches, NEW d \in Destinations, Create(b, d) PROVE ReviewInv'
  BY <1>1, <1>3, SMT DEF Create, EntriesOf, RowsOK, Statuses
<1>4. ASSUME NEW v \in Windows, NEW b \in Batches, NEW page \in SUBSET EntriesOf(b), Load(v, b, page)
      PROVE ReviewInv'
  <2>1. UNCHANGED <<status, dest, text>> BY <1>4, Zenon DEF Load
  <2>2. Included(b)' = Included(b) /\ EntriesOf(b)' = EntriesOf(b)
    BY <2>1 DEF Included, Excluded, EntriesOf
  <2>3. \A e \in Entries : Row(e)' = Row(e) BY <2>1 DEF Row
  <2>4. view' = [view EXCEPT ![v] = [batch |-> b, rows |-> {Row(e) : e \in page},
                                     included |-> Cardinality(Included(b))]]
    BY <1>4, Zenon DEF Load
  <2>5. ASSUME NEW w \in Windows PROVE Shown(w)'
    <3>1. CASE w = v
      <4>1. view'[w].batch = b /\ view'[w].rows = {Row(e) : e \in page}
            /\ view'[w].included = Cardinality(Included(b))
        BY <3>1, <2>4, Zenon DEF RowsOK, Statuses
      <4>2. \A e \in page : Row(e).entry = e /\ e \in Entries /\ e \in EntriesOf(b)
        BY DEF Row, EntriesOf
      <4>3. ASSUME NEW shown \in view'[w].rows
            PROVE  shown = Row(shown.entry)' /\ shown.entry \in EntriesOf(b)
        <5>1. PICK e \in page : shown = Row(e) BY <4>1, <4>3, Zenon
        <5>2. shown.entry = e BY <4>2, <5>1
        <5>3. Row(e)' = Row(e) BY <2>3, <4>2
        <5> QED BY <4>2, <5>1, <5>2, <5>3, Zenon
      <4> QED BY <4>1, <4>3, <2>2, Zenon DEF Shown
    <3>2. CASE w # v
      <4>1. view'[w] = view[w] BY <3>2, <2>4, Zenon DEF RowsOK, Statuses
      <4> QED BY <4>1, <2>1, ViewKept, Zenon DEF ReviewInv
    <3> QED BY <3>1, <3>2
  <2> QED BY <2>5, Zenon DEF ReviewInv
<1>5. ASSUME NEW e \in Entries, NEW v \in Versions, Receive(e, v) PROVE ReviewInv'
  BY <1>1, <1>5, ConstantFacts, SMT DEF Receive, RowsOK, Statuses
<1>6. ASSUME NEW b \in Batches, NEW action \in {"pause", "resume", "retry"}, Control(b, action) PROVE ReviewInv'
  BY <1>1, <1>6, SMT DEF Control, EntriesOf, RowsOK, Statuses
<1>7. ASSUME NEW w \in Windows, NEW b \in Batches, NEW chosen \in SUBSET EntriesOf(b),
             NEW d \in Destinations, EditChoices(w, b, chosen, d) PROVE ReviewInv'
  BY <1>1, <1>7, SMT DEF EditChoices, EntriesOf, RowsOK, Statuses
<1>8. ASSUME NEW w \in Windows, NEW b \in Batches, Discard(w, b) \/ Commit(w, b) PROVE ReviewInv'
  BY <1>1, <1>8, SMT DEF Discard, Commit, Release, EntriesOf, RowsOK, Statuses
<1>9. ASSUME NEW e \in Entries, NEW d \in Destinations, StageOrganizationChoice(e, d) PROVE ReviewInv'
  BY <1>1, <1>9, ConstantFacts, SMT DEF StageOrganizationChoice, RowsOK, Statuses
<1>10. CASE ParseSucceeds
  <2>1. task \in Entries /\ BatchOf[task] \in Batches
    BY <1>10, ConstantFacts DEF ParseSucceeds, QueueOK
  <2> QED
    BY <1>1, <1>10, <2>1, SMT DEF ParseSucceeds, RowsOK, Statuses
<1>11. CASE ParseFails
  <2>1. task \in Entries /\ BatchOf[task] \in Batches
    BY <1>11, ConstantFacts DEF ParseFails, QueueOK
  <2> QED
    BY <1>1, <1>11, <2>1, SMT DEF ParseFails, RowsOK, Statuses
<1>12. CASE \/ Dispatch \/ DispatchFails \/ ParseDropped \/ ParseBusy \/ ParseWriteFails
            \/ AwaitIdle \/ Stop \/ Exit \/ Launch \/ UNCHANGED vars
            \/ \E b \in Batches : StartOrganizing(b) \/ EndOrganizing(b)
  BY <1>2, <1>12, Zenon DEF Dispatch, DispatchFails, ParseDropped, ParseBusy, ParseWriteFails,
     AwaitIdle, Stop, Exit, Launch, vars, StartOrganizing, EndOrganizing
<1> QED
  BY <1>3, <1>4, <1>5, <1>6, <1>7, <1>8, <1>9, <1>10, <1>11, <1>12
     DEF Next, Request, Organizer, Parser, Process

\* While its revision is accepted, what a window was shown of a batch, one page
\* of it, is what the rows say, and so is its count of the files a commit
\* imports.
THEOREM ShownCurrent == Spec => []ShownRowsAreCurrent
<1>1. Init => ReviewInv
  BY DEF Init, ReviewInv, Shown
<1>2. TypeOK /\ ReviewInv /\ [Next]_vars => ReviewInv'
  BY ReviewStep DEF TypeOK
<1>3. ReviewInv => ShownRowsAreCurrent BY Zenon DEF ReviewInv, Shown, ShownRowsAreCurrent
<1> QED
  BY TypeCorrect, <1>1, <1>2, <1>3, PTL DEF Spec
-----------------------------------------------------------------------------
(* Sums over finite sets                                                    *)
(*                                                                          *)
(* The text budget is a sum, and MapThenSumSet a fold: a function on the    *)
(* subsets of its set that is defined by recursion.  It is shown to count   *)
(* the units of weight of the set, a set of pairs, so that what sums do     *)
(* follows from the library's facts on cardinalities.                       *)

\* The element the fold takes next.
Some(s) == CHOOSE x \in s : TRUE
\* iter is the fold that adds up w over the subsets of S.
AddsUp(iter, w, S) ==
  iter = [s \in SUBSET S |-> IF s = {} THEN 0 ELSE w[Some(s)] + iter[s \ {Some(s)}]]

\* One pair per unit of weight.
Units(w, s) == {p \in s \X Nat : p[2] < w[p[1]]}

\* One element has as many units as its weight.
LEMMA OneElement ==
  ASSUME NEW w, NEW x, w[x] \in Nat
  PROVE  IsFiniteSet(Units(w, {x})) /\ Cardinality(Units(w, {x})) = w[x]
<1>1. Units(w, {x}) = {x} \X (0..(w[x] - 1))
  BY SMT DEF Units
<1>2. IsFiniteSet(0..(w[x] - 1)) /\ Cardinality(0..(w[x] - 1)) = w[x]
  BY FS_Interval, SMT
<1>3. IsFiniteSet({x}) /\ Cardinality({x}) = 1
  BY FS_Singleton
<1>4. IsFiniteSet({x} \X (0..(w[x] - 1))) /\ Cardinality({x} \X (0..(w[x] - 1))) = 1 * w[x]
  BY <1>2, <1>3, FS_Product
<1>5. 1 * w[x] = w[x] BY SMT
<1> QED BY <1>1, <1>4, <1>5, Zenon

\* One element more adds its weight.
LEMMA OneMore ==
  ASSUME NEW w, NEW s, NEW x, x \notin s, w[x] \in Nat, IsFiniteSet(Units(w, s))
  PROVE  /\ IsFiniteSet(Units(w, s \union {x}))
         /\ Cardinality(Units(w, s \union {x})) = w[x] + Cardinality(Units(w, s))
<1>1. Units(w, s \union {x}) = Units(w, s) \union Units(w, {x})
  BY SMT DEF Units
<1>2. Units(w, s) \intersect Units(w, {x}) = {}
  BY SMT DEF Units
<1>3. IsFiniteSet(Units(w, {x})) /\ Cardinality(Units(w, {x})) = w[x]
  BY OneElement
<1>4. /\ IsFiniteSet(Units(w, s) \union Units(w, {x}))
      /\ Cardinality(Units(w, s) \union Units(w, {x})) = Cardinality(Units(w, s)) + w[x]
           - Cardinality(Units(w, s) \intersect Units(w, {x}))
  BY <1>3, FS_Union
<1>5. Cardinality(Units(w, s) \intersect Units(w, {x})) = 0
  BY <1>2, FS_EmptySet
<1>6. Cardinality(Units(w, s)) \in Nat BY FS_CardinalityType
<1>7. \A n \in Nat : n + w[x] - 0 = w[x] + n BY SMT
<1>8. Cardinality(Units(w, s)) + w[x] - 0 = w[x] + Cardinality(Units(w, s)) BY <1>6, <1>7, Zenon
<1> QED BY <1>1, <1>4, <1>5, <1>8, Zenon

\* Every set of subsets of a finite set has a least one.
LEMMA LeastSubset ==
  ASSUME NEW S, IsFiniteSet(S), NEW F \in SUBSET SUBSET S, F # {}
  PROVE  \E s \in F : \A t \in F : ~(t \subseteq s /\ t # s)
<1>1. IsWellFoundedOn(StrictSubsetOrdering(S), SUBSET S)
  BY FS_StrictSubsetOrderingWellFounded, FS_FiniteSubsetsOfFinite, Zenon
<1>2. \E s \in F : \A t \in F : ~(<<t, s>> \in StrictSubsetOrdering(S))
  BY <1>1, WFMin, Zenon
<1>3. \A s, t \in SUBSET S : t \subseteq s /\ t # s => <<t, s>> \in StrictSubsetOrdering(S)
  BY SMT DEF StrictSubsetOrdering
<1> QED BY <1>2, <1>3, Zenon

\* A finite set has finitely many units.
LEMMA FiniteUnits ==
  ASSUME NEW S, IsFiniteSet(S), NEW w, \A e \in S : w[e] \in Nat
  PROVE  \A s \in SUBSET S : IsFiniteSet(Units(w, s))
<1> DEFINE bad == {s \in SUBSET S : ~IsFiniteSet(Units(w, s))}
<1> SUFFICES ASSUME bad # {} PROVE FALSE OBVIOUS
<1>0. bad \in SUBSET SUBSET S /\ \A s \in SUBSET S : s \in bad <=> ~IsFiniteSet(Units(w, s))
  OBVIOUS
<1> HIDE DEF bad
<1>1. PICK s \in bad : \A t \in bad : ~(t \subseteq s /\ t # s)
  BY <1>0, LeastSubset
<1>2. s # {}
  <2>1. Units(w, {}) = {} BY SMT DEF Units
  <2> QED BY <1>0, <2>1, FS_EmptySet
<1>3. PICK x \in s : TRUE BY <1>2
<1>4. s \ {x} \in SUBSET S /\ s \ {x} \subseteq s /\ s \ {x} # s BY <1>0, <1>3
<1>5. s \ {x} \notin bad BY <1>1, <1>4, Zenon
<1>6. IsFiniteSet(Units(w, s \ {x})) BY <1>0, <1>4, <1>5, Zenon
<1>7. IsFiniteSet(Units(w, (s \ {x}) \union {x}))
  <2>1. x \notin s \ {x} /\ w[x] \in Nat BY <1>0, <1>3
  <2> QED BY <1>6, <2>1, OneMore
<1>8. (s \ {x}) \union {x} = s BY <1>3
<1> QED BY <1>0, <1>7, <1>8, Zenon

\* Counting units follows the recursion of the fold.
LEMMA CountSteps ==
  ASSUME NEW S, IsFiniteSet(S), NEW w, \A e \in S : w[e] \in Nat
  PROVE  \A s \in SUBSET S : 
    Cardinality(Units(w, s)) = IF s = {} THEN 0 ELSE w[Some(s)] + Cardinality(Units(w, s \ {Some(s)}))
<1> TAKE s \in SUBSET S
<1>1. CASE s = {}
  <2>1. Units(w, {}) = {} BY SMT DEF Units
  <2> QED BY <1>1, <2>1, FS_EmptySet, Zenon
<1>2. CASE s # {}
  <2>1. Some(s) \in s BY <1>2, Zenon DEF Some
  <2>2. (s \ {Some(s)}) \union {Some(s)} = s BY <2>1
  <2>3. IsFiniteSet(Units(w, s \ {Some(s)})) BY FiniteUnits, s \ {Some(s)} \in SUBSET S, Zenon
  <2>4. Cardinality(Units(w, (s \ {Some(s)}) \union {Some(s)})) = w[Some(s)] + Cardinality(Units(w, s \ {Some(s)}))
    <3> DEFINE x == Some(s)
    <3>1. x \in s /\ x \notin s \ {x} /\ w[x] \in Nat BY <2>1
    <3>2. IsFiniteSet(Units(w, s \ {x})) BY <2>3
    <3> HIDE DEF x
    <3>3. Cardinality(Units(w, (s \ {x}) \union {x})) = w[x] + Cardinality(Units(w, s \ {x}))
      BY <3>1, <3>2, OneMore
    <3> QED BY <3>3 DEF x
  <2> QED BY <1>2, <2>2, <2>4, Zenon
<1> QED BY <1>1, <1>2

\* There is such a fold, and it counts the units.
LEMMA FoldExists ==
  ASSUME NEW S, IsFiniteSet(S), NEW w, \A e \in S : w[e] \in Nat
  PROVE  \E iter : AddsUp(iter, w, S)
<1> DEFINE count == [s \in SUBSET S |-> Cardinality(Units(w, s))]
<1>1. \A s \in SUBSET S : s \ {Some(s)} \in SUBSET S OBVIOUS
<1>2. \A s \in SUBSET S : Cardinality(Units(w, s))
         = IF s = {} THEN 0 ELSE w[Some(s)] + Cardinality(Units(w, s \ {Some(s)}))
  BY CountSteps
<1>3. \A s \in SUBSET S : count[s] = IF s = {} THEN 0 ELSE w[Some(s)] + count[s \ {Some(s)}]
  BY <1>1, <1>2, Zenon
<1>4. AddsUp(count, w, S)
  BY <1>3, Zenon DEF AddsUp
<1> QED BY <1>4, Zenon

\* Whatever follows the recursion counts the units.
LEMMA FoldCounts ==
  ASSUME NEW S, IsFiniteSet(S), NEW w, \A e \in S : w[e] \in Nat, NEW iter, AddsUp(iter, w, S)
  PROVE  iter[S] = Cardinality(Units(w, S))
<1> DEFINE bad == {s \in SUBSET S : iter[s] # Cardinality(Units(w, s))}
<1>1. CASE bad = {} 
  BY <1>1, S \in SUBSET S, Zenon
<1>2. CASE bad # {}
  <2>0. /\ bad \in SUBSET SUBSET S
        /\ \A s \in SUBSET S : s \in bad <=> iter[s] # Cardinality(Units(w, s))
    OBVIOUS
  <2> HIDE DEF bad
  <2>1. PICK s \in bad : \A t \in bad : ~(t \subseteq s /\ t # s)
    BY <1>2, <2>0, LeastSubset
  <2>2. iter[s] = IF s = {} THEN 0 ELSE w[Some(s)] + iter[s \ {Some(s)}]
    BY <2>0, Zenon DEF AddsUp
  <2>3. s # {} => s \ {Some(s)} \in SUBSET S /\ s \ {Some(s)} \subseteq s /\ s \ {Some(s)} # s
    <3>1. s # {} => Some(s) \in s BY Zenon DEF Some
    <3> QED BY <2>0, <3>1
  <2>4. s # {} => iter[s \ {Some(s)}] = Cardinality(Units(w, s \ {Some(s)}))
    BY <2>0, <2>1, <2>3, Zenon
  <2>5. Cardinality(Units(w, s)) = IF s = {} THEN 0 ELSE w[Some(s)] + Cardinality(Units(w, s \ {Some(s)}))
    <3>1. \A t \in SUBSET S : Cardinality(Units(w, t)) = IF t = {} THEN 0 ELSE w[Some(t)] + Cardinality(Units(w, t \ {Some(t)}))
      BY CountSteps
    <3> QED BY <2>0, <3>1, Zenon
  <2> QED BY <2>0, <2>1, <2>2, <2>4, <2>5, Zenon
<1> QED BY <1>1, <1>2

\* The size of what the elements of S hold.
TotalSize(size, content, S) == MapThenSumSet(LAMBDA e : size[content[e]], S)

\* MapThenSumSet counts units.
LEMMA TotalCounts ==
  ASSUME NEW S, IsFiniteSet(S), NEW size, NEW content, \A e \in S : size[content[e]] \in Nat
  PROVE  TotalSize(size, content, S) = Cardinality(Units([e \in S |-> size[content[e]]], S))
<1> DEFINE w == [e \in S |-> size[content[e]]]
<1> DEFINE body(iter) == [s \in SUBSET S |->
       IF s = {} THEN 0 ELSE size[content[CHOOSE x \in s : TRUE]] + iter[s \ {CHOOSE x \in s : TRUE}]]
<1>1. TotalSize(size, content, S) = (CHOOSE iter : iter = body(iter))[S]
  BY Zenon DEF TotalSize, MapThenSumSet, MapThenFoldSet
<1>2. ASSUME NEW iter PROVE iter = body(iter) <=> AddsUp(iter, w, S)
  <2>1. \A s \in SUBSET S : s # {} => Some(s) \in S BY Zenon DEF Some
  <2>2. \A s \in SUBSET S : s # {} => w[Some(s)] = size[content[Some(s)]] BY <2>1, Zenon
  <2>3. \A s \in SUBSET S : (IF s = {} THEN 0 ELSE size[content[Some(s)]] + iter[s \ {Some(s)}])
           = (IF s = {} THEN 0 ELSE w[Some(s)] + iter[s \ {Some(s)}])
    BY <2>2, Zenon
  <2>4. body(iter) = [s \in SUBSET S |-> IF s = {} THEN 0 ELSE w[Some(s)] + iter[s \ {Some(s)}]]
    <3> HIDE DEF w
    <3> QED BY <2>3, Zenon DEF Some
  <2> QED BY <2>4, Zenon DEF AddsUp
<1>3. \A e \in S : w[e] \in Nat BY Zenon
<1> HIDE DEF body, w
<1>4. \E iter : iter = body(iter) BY <1>2, <1>3, FoldExists, Zenon
<1>5. AddsUp(CHOOSE iter : iter = body(iter), w, S) BY <1>2, <1>4, Zenon
<1>6. (CHOOSE iter : iter = body(iter))[S] = Cardinality(Units(w, S))
  BY <1>3, <1>5, FoldCounts
<1> QED BY <1>1, <1>6, Zenon DEF w
\* A total is a number.
LEMMA TotalType ==
  ASSUME NEW S, IsFiniteSet(S), NEW size, NEW content, \A e \in S : size[content[e]] \in Nat
  PROVE  TotalSize(size, content, S) \in Nat
<1> DEFINE w == [e \in S |-> size[content[e]]]
<1>1. TotalSize(size, content, S) = Cardinality(Units(w, S)) BY TotalCounts
<1>2. \A e \in S : w[e] \in Nat OBVIOUS
<1> HIDE DEF w
<1>3. IsFiniteSet(Units(w, S)) BY <1>2, FiniteUnits, S \in SUBSET S
<1> QED BY <1>1, <1>3, FS_CardinalityType

\* Fewer elements of the same size add up to no more.
LEMMA TotalOfFewer ==
  ASSUME NEW S, IsFiniteSet(S), NEW T \in SUBSET S, NEW size, NEW old, NEW new,
         \A e \in S : size[old[e]] \in Nat, \A e \in T : size[new[e]] = size[old[e]]
  PROVE  TotalSize(size, new, T) <= TotalSize(size, old, S)
<1> DEFINE w == [e \in S |-> size[old[e]]]
           v == [e \in T |-> size[new[e]]]
<1>1. IsFiniteSet(T) BY FS_Subset
<1>2. TotalSize(size, old, S) = Cardinality(Units(w, S)) BY TotalCounts
<1>3. TotalSize(size, new, T) = Cardinality(Units(v, T))
  <2>1. \A e \in T : size[new[e]] \in Nat OBVIOUS
  <2> QED BY <1>1, <2>1, TotalCounts
<1>4. (\A e \in S : w[e] \in Nat) /\ (\A e \in T : v[e] = w[e]) OBVIOUS
<1> HIDE DEF w, v
<1>5. Units(v, T) \in SUBSET Units(w, S) BY <1>4, SMT DEF Units
<1>6. IsFiniteSet(Units(w, S)) BY <1>4, FiniteUnits, S \in SUBSET S
<1>7. Cardinality(Units(v, T)) <= Cardinality(Units(w, S)) BY <1>5, <1>6, FS_Subset
<1> QED BY <1>2, <1>3, <1>7, Zenon

\* One element more adds its size.
LEMMA TotalOfOneMore ==
  ASSUME NEW S, IsFiniteSet(S), NEW x, x \notin S, NEW size, NEW content,
         \A e \in S : size[content[e]] \in Nat, size[content[x]] \in Nat
  PROVE  TotalSize(size, content, S \union {x}) = TotalSize(size, content, S) + size[content[x]]
<1> DEFINE X == S \union {x}
           w == [e \in X |-> size[content[e]]]
           v == [e \in S |-> size[content[e]]]
<1>1. IsFiniteSet(X) BY FS_AddElement
<1>2. TotalSize(size, content, X) = Cardinality(Units(w, X))
  <2>1. \A e \in X : size[content[e]] \in Nat OBVIOUS
  <2> QED BY <1>1, <2>1, TotalCounts
<1>3. TotalSize(size, content, S) = Cardinality(Units(v, S))
  <2>1. \A e \in S : size[content[e]] \in Nat OBVIOUS
  <2> QED BY <2>1, TotalCounts
<1>4. (\A e \in X : w[e] \in Nat) /\ (\A e \in S : v[e] = w[e]) /\ w[x] = size[content[x]] OBVIOUS
<1>5. w[x] \in Nat /\ \A e \in S : w[e] \in Nat OBVIOUS
<1> HIDE DEF w, v
<1>6. Units(v, S) = Units(w, S) BY <1>4, SMT DEF Units
<1>7. IsFiniteSet(Units(w, S)) BY <1>5, FiniteUnits, S \in SUBSET S
<1>8. Cardinality(Units(w, X)) = w[x] + Cardinality(Units(w, S)) BY <1>5, <1>7, OneMore
<1>9. Cardinality(Units(w, S)) \in Nat BY <1>7, FS_CardinalityType
<1>10. w[x] + Cardinality(Units(w, S)) = Cardinality(Units(w, S)) + w[x] BY <1>5, <1>9, SMT
<1> QED BY <1>2, <1>3, <1>4, <1>6, <1>8, <1>10, Zenon

-----------------------------------------------------------------------------
(* The text budget *)

\* What is staged is the text of the entries that have a metadata row.
LEMMA StagedIsText ==
  ASSUME TypeOK, StagingInv
  PROVE  /\ IsFiniteSet(meta)
         /\ \A e \in meta : TextSize[text[e]] \in Nat
         /\ {e \in Entries : text[e] # None} = meta
<1>1. meta \subseteq Entries /\ IsFiniteSet(Entries) /\ TextSize \in [Versions -> Nat]
  BY ConstantsAssumption DEF ConstantsAssumption, TypeOK, RowsOK, Statuses
<1>2. IsFiniteSet(meta) BY <1>1, FS_Subset
<1>3. \A e \in meta : text[e] # None
  BY <1>1, Zenon DEF StagingInv, RowInv
<1>5. \A e \in meta : text[e] \in Versions
  BY <1>1, <1>3, SMT DEF TypeOK, RowsOK, Statuses, Original
<1>6. \A e \in Entries : e \in meta <=> text[e] # None BY Zenon DEF StagingInv, RowInv
<1>7. {e \in Entries : text[e] # None} = meta BY <1>1, <1>6
<1> QED BY <1>1, <1>2, <1>5, <1>7

\* What is charged to the budget, as a total.
LEMMA StagedTotal == StagedText = TotalSize(TextSize, text, meta)
BY Zenon DEF StagedText, TotalSize

LEMMA StagedTotalNext == StagedText' = TotalSize(TextSize, text', meta')
<1>1. (StagedText = TotalSize(TextSize, text, meta))' BY StagedTotal, PTL
<1> QED BY <1>1, Zenon

\* Nothing but a parse adds to what is staged, and what stays is not replaced.
LEMMA MetaStep ==
  ASSUME TypeOK, StagingInv, [Next]_vars
  PROVE  \/ meta' \subseteq meta /\ \A e \in meta' : text'[e] = text[e]
         \/ /\ task \in Entries \ meta /\ text'[task] = given /\ TextSize[given] \in Nat
            /\ \A e \in meta : text'[e] = text[e]
            /\ StagedText + TextSize[given] <= MaxText
            /\ meta' = meta \union {task}
<1> DEFINE Less == meta' \subseteq meta /\ \A e \in meta' : text'[e] = text[e]
<1> USE DEF durable, memory, rows
<1>0. meta \subseteq Entries /\ text \in [Entries -> Original] /\ given \in Original
  BY DEF TypeOK, RowsOK, Statuses
<1>1. ASSUME NEW e \in Entries, NEW v \in Versions, Receive(e, v) PROVE Less
  BY <1>0, <1>1, SMT DEF Receive, Accepted
<1>2. ASSUME NEW b \in Batches, NEW d \in Destinations, Create(b, d) PROVE Less
  BY <1>2, Zenon DEF Create
<1>3. ASSUME NEW b \in Batches, NEW action \in {"pause", "resume", "retry"}, Control(b, action) PROVE Less
  BY <1>3, Zenon DEF Control
<1>4. ASSUME NEW w \in Windows, NEW b \in Batches, NEW chosen \in SUBSET EntriesOf(b),
             NEW d \in Destinations, EditChoices(w, b, chosen, d)
      PROVE Less
  BY <1>4, Zenon DEF EditChoices
<1>5. ASSUME NEW w \in Windows, NEW b \in Batches,
             (\E page \in SUBSET EntriesOf(b) : Load(w, b, page)) \/ Discard(w, b) \/ Commit(w, b) PROVE Less
  BY <1>0, <1>5, SMT DEF Load, Discard, Commit, Release
<1>6. CASE Organizer
  BY <1>6, Zenon DEF Organizer, StartOrganizing, StageOrganizationChoice, EndOrganizing
<1>7. CASE ParseSucceeds
  <2>1. task \in Entries /\ status[task] = "pending" /\ given # None
    BY <1>7, Zenon DEF ParseSucceeds, Late, TypeOK, QueueOK, StagingInv, TaskInv
  <2>2. task \notin meta
    BY <2>1, Zenon DEF StagingInv, RowInv
  <2>3. TextSize[given] \in Nat
    BY <1>0, <2>1, ConstantsAssumption, SMT DEF ConstantsAssumption, Original
  <2>4. \/ meta' = meta /\ text' = [text EXCEPT ![task] = None]
        \/ /\ meta' = meta \union {task} /\ text' = [text EXCEPT ![task] = given]
           /\ StagedText + TextSize[given] <= MaxText
    BY <1>7, Zenon DEF ParseSucceeds
  <2>5. \A e \in meta : text'[e] = text[e]
    BY <1>0, <2>2, <2>4, Zenon
  <2>6. meta' # meta => text'[task] = given
    BY <1>0, <2>1, <2>4, Zenon
  <2> QED
    BY <2>1, <2>2, <2>3, <2>4, <2>5, <2>6, Zenon
<1>8. CASE \/ Dispatch \/ DispatchFails \/ ParseDropped \/ ParseBusy \/ ParseFails \/ ParseWriteFails
           \/ Process \/ UNCHANGED vars
  <2>1. UNCHANGED <<meta, text>>
    BY <1>8, Zenon DEF Dispatch, DispatchFails, ParseDropped, ParseBusy, ParseFails, ParseWriteFails,
       Process, AwaitIdle, Stop, Exit, Launch, vars
  <2> QED BY <2>1
<1> QED
  BY <1>1, <1>2, <1>3, <1>4, <1>5, <1>6, <1>7, <1>8 DEF Next, Request, Parser

\* The budget is kept across batches, retries, replacements and releases,
\* although every parse checks it before it writes.
THEOREM WithinBudget == Spec => []TextWithinBudget
<1> DEFINE Budget == StagedText <= MaxText
<1>1. Init => Budget
  <2> SUFFICES ASSUME meta = {} PROVE Budget BY DEF Init
  <2>1. TotalSize(TextSize, text, {}) = Cardinality(Units([e \in {} |-> TextSize[text[e]]], {}))
    BY FS_EmptySet, TotalCounts
  <2>2. Units([e \in {} |-> TextSize[text[e]]], {}) = {} BY SMT DEF Units
  <2>3. StagedText = 0 BY <2>1, <2>2, StagedTotal, FS_EmptySet
  <2> QED BY <2>3, ConstantsAssumption, SMT DEF ConstantsAssumption
<1>2. TypeOK /\ StagingInv /\ Budget /\ [Next]_vars => Budget'
  <2> SUFFICES ASSUME TypeOK, StagingInv, Budget, [Next]_vars PROVE Budget' OBVIOUS
  <2>1. IsFiniteSet(meta) /\ \A e \in meta : TextSize[text[e]] \in Nat BY StagedIsText
  <2>2. TotalSize(TextSize, text, meta) \in Nat /\ MaxText \in Nat
    BY <2>1, TotalType, ConstantsAssumption DEF ConstantsAssumption
  <2>3. CASE meta' \subseteq meta /\ \A e \in meta' : text'[e] = text[e]
    <3>1. TotalSize(TextSize, text', meta') <= TotalSize(TextSize, text, meta)
      BY <2>1, <2>3, TotalOfFewer
    <3>2. IsFiniteSet(meta') BY <2>1, <2>3, FS_Subset
    <3>3. TotalSize(TextSize, text', meta') \in Nat
      <4>1. \A e \in meta' : TextSize[text'[e]] \in Nat BY <2>1, <2>3
      <4> QED BY <3>2, <4>1, TotalType
    <3> QED BY <2>2, <3>1, <3>3, StagedTotal, StagedTotalNext
  <2>4. CASE /\ task \in Entries \ meta /\ text'[task] = given /\ TextSize[given] \in Nat
             /\ \A e \in meta : text'[e] = text[e]
             /\ StagedText + TextSize[given] <= MaxText
             /\ meta' = meta \union {task}
    <3> DEFINE parsed == text'
    <3>1. task \notin meta /\ TextSize[parsed[task]] \in Nat /\ parsed[task] = given BY <2>4
    <3>2. IsFiniteSet(meta) BY <2>1
    <3>3. \A e \in meta : TextSize[parsed[e]] \in Nat /\ TextSize[parsed[e]] = TextSize[text[e]]
      BY <2>1, <2>4
    <3>4. StagedText' = TotalSize(TextSize, parsed, meta \union {task}) BY <2>4, StagedTotalNext
    <3> HIDE DEF parsed
    <3>5. TotalSize(TextSize, parsed, meta \union {task})
            = TotalSize(TextSize, parsed, meta) + TextSize[parsed[task]]
      <4>1. \A e \in meta : TextSize[parsed[e]] \in Nat BY <3>3
      <4> QED BY <3>1, <3>2, <4>1, TotalOfOneMore
    <3>6. TotalSize(TextSize, parsed, meta) <= TotalSize(TextSize, text, meta)
      BY <2>1, <3>3, meta \in SUBSET meta, TotalOfFewer
    <3>7. TotalSize(TextSize, parsed, meta) \in Nat BY <3>2, <3>3, TotalType
    <3> QED BY <2>2, <2>4, <3>1, <3>4, <3>5, <3>6, <3>7, StagedTotal
  <2> QED BY <2>3, <2>4, MetaStep
<1>3. TypeOK /\ StagingInv /\ Budget => TextWithinBudget
  <2> SUFFICES ASSUME TypeOK, StagingInv, Budget PROVE TextWithinBudget OBVIOUS
  <2>1. TextWithinBudget <=> TotalSize(TextSize, text, meta) <= MaxText
    BY StagedIsText, Zenon DEF TextWithinBudget, TotalSize
  <2> QED BY <2>1, StagedTotal
<1> QED BY StagingAlways, <1>1, <1>2, <1>3, PTL DEF Spec
=============================================================================
