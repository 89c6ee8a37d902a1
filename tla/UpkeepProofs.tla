----------------------------- MODULE UpkeepProofs -----------------------------
(***************************************************************************)
(* Proofs about Upkeep, for any records, links, contents and pulses of any *)
(* size.                                                                   *)
(***************************************************************************)
EXTENDS Upkeep, SequenceTheorems, FiniteSetTheorems, TLAPS

Listed(q) == {q[i] : i \in DOMAIN q}

\* An order of a finite set is a sequence of all of its elements.
LEMMA Orders ==
  ASSUME NEW S, IsFiniteSet(S), NEW q \in SetToSeqs(S)
  PROVE  q \in Seq(S) /\ Listed(q) = S
<1> DEFINE n == Cardinality(S)
<1>1. n \in Nat BY FS_CardinalityType
<1>2. q \in [1..n -> S] /\ \A i, j \in 1..n : i # j => q[i] # q[j] BY DEF SetToSeqs
<1>3. q \in Injection(1..n, S) BY <1>2 DEF Injection, IsInjective
<1>4. Cardinality(1..n) = n /\ IsFiniteSet(1..n) BY <1>1, FS_Interval
<1>5. q \in Surjection(1..n, S) BY <1>3, <1>4, FS_Injection
<1>6. \A s \in S : \E i \in 1..n : q[i] = s BY <1>5 DEF Surjection
<1>7. q \in Seq(S) BY <1>1, <1>2, IsASeq
<1> QED BY <1>2, <1>6, <1>7 DEF Listed

\* What was queued stays queued when records are added, and all but one
\* when its row is removed.
LEMMA Appended ==
  ASSUME NEW S, NEW q \in Seq(S), NEW p \in Seq(S)
  PROVE  q \o p \in Seq(S) /\ Listed(q \o p) = Listed(q) \union Listed(p)
<1>1. q \o p \in Seq(S) /\ Len(q \o p) = Len(q) + Len(p)
      /\ \A i \in 1..Len(q) + Len(p) :
           (q \o p)[i] = IF i <= Len(q) THEN q[i] ELSE p[i - Len(q)]
  BY ConcatProperties
<1>2. Len(q) \in Nat /\ Len(p) \in Nat /\ DOMAIN q = 1..Len(q) /\ DOMAIN p = 1..Len(p)
      /\ DOMAIN (q \o p) = 1..Len(q) + Len(p)
  BY <1>1, LenProperties
<1>3. \A i \in DOMAIN q : i \in DOMAIN (q \o p) /\ (q \o p)[i] = q[i] BY <1>1, <1>2
<1>4. \A i \in DOMAIN p : Len(q) + i \in DOMAIN (q \o p) /\ (q \o p)[Len(q) + i] = p[i]
  BY <1>1, <1>2
<1>5. \A i \in DOMAIN (q \o p) : \/ i \in DOMAIN q /\ (q \o p)[i] = q[i]
                                 \/ i - Len(q) \in DOMAIN p /\ (q \o p)[i] = p[i - Len(q)]
  BY <1>1, <1>2
<1>6. Listed(q \o p) \subseteq Listed(q) \union Listed(p) BY <1>5, Zenon DEF Listed
<1>7. Listed(q) \subseteq Listed(q \o p) BY <1>3, Zenon DEF Listed
<1>8. Listed(p) \subseteq Listed(q \o p) BY <1>4, Zenon DEF Listed
<1> QED BY <1>1, <1>6, <1>7, <1>8

LEMMA Removed ==
  ASSUME NEW S, NEW q \in Seq(S), NEW i \in DOMAIN q
  PROVE  RemoveAt(q, i) \in Seq(S) /\ Listed(q) \ {q[i]} \subseteq Listed(RemoveAt(q, i))
<1>1. Len(q) \in Nat /\ DOMAIN q = 1..Len(q) /\ i \in 1..Len(q) BY LenProperties
<1> DEFINE front == SubSeq(q, 1, i - 1)
           back == SubSeq(q, i + 1, Len(q))
<1>2. front \in Seq(S) /\ Len(front) = i - 1 /\ \A j \in 1..i - 1 : front[j] = q[j]
  BY <1>1
<1>3. back \in Seq(S) /\ Len(back) = Len(q) - i /\ \A j \in 1..Len(q) - i : back[j] = q[i + j]
  BY <1>1
<1>4. DOMAIN front = 1..i - 1 /\ DOMAIN back = 1..Len(q) - i
  BY <1>1, <1>2, <1>3, LenProperties
<1>5. RemoveAt(q, i) = front \o back BY DEF RemoveAt
<1> HIDE DEF front, back
<1>6. RemoveAt(q, i) \in Seq(S) /\ Listed(RemoveAt(q, i)) = Listed(front) \union Listed(back)
  BY <1>2, <1>3, <1>5, Appended
<1>7. ASSUME NEW j \in DOMAIN q, q[j] # q[i] PROVE q[j] \in Listed(front) \union Listed(back)
  <2>1. CASE j < i BY <1>1, <1>2, <1>4, <2>1 DEF Listed
  <2>2. CASE j > i
    <3>1. j - i \in DOMAIN back /\ back[j - i] = q[j] BY <1>1, <1>3, <1>4, <2>2
    <3> QED BY <3>1, Zenon DEF Listed
  <2> QED BY <1>1, <1>7, <2>1, <2>2
<1> QED BY <1>6, <1>7 DEF Listed

\* The columns the properties are about.
Columns ==
  /\ content \in [Records -> Contents] /\ queue \in Seq(Records)
  /\ DOMAIN finding = Records /\ DOMAIN dismissed = Records

LEMMA QueuedIsListed == Queued = Listed(queue) /\ Queued' = Listed(queue')
BY DEF Queued, Listed

LEMMA EnqueueEffect ==
  ASSUME queue \in Seq(Records), NEW S \in SUBSET Records, Enqueue(S)
  PROVE  queue' \in Seq(Records) /\ Queued' = Queued \union S
<1>1. IsFiniteSet(S \ Queued) BY UpkeepAssumption, FS_Subset, FS_Difference
<1>2. PICK new \in SetToSeqs(S \ Queued) : queue' = queue \o new BY DEF Enqueue
<1>3. new \in Seq(S \ Queued) /\ Listed(new) = S \ Queued BY <1>1, Orders
<1>4. new \in Seq(Records) BY <1>3, SeqMonotonic
<1>5. queue' \in Seq(Records) /\ Listed(queue') = Listed(queue) \union Listed(new)
  BY <1>2, <1>4, Appended
<1> QED BY <1>3, <1>5, QueuedIsListed

LEMMA RefreshEffect ==
  ASSUME queue \in Seq(Records), RefreshLinks
  PROVE  /\ queue' \in Seq(Records) /\ Queued \subseteq Queued'
         /\ ~refresh' /\ (refresh => Notes \subseteq Queued')
<1>1. CASE refresh
  <2>1. Enqueue(Notes) BY <1>1 DEF RefreshLinks
  <2> QED BY <1>1, <2>1, EnqueueEffect DEF Notes, RefreshLinks
<1>2. CASE ~refresh BY <1>2 DEF RefreshLinks, Queued
<1> QED BY <1>1, <1>2

LEMMA FullCheckEffect ==
  ASSUME queue \in Seq(Records), NEW reason, FullCheck(reason)
  PROVE  queue' \in Seq(Records) /\ Queued \subseteq Queued' /\ UNCHANGED <<content, refresh>>
<1>1. CASE RequestIgnored BY <1>1 DEF FullCheck, records, Queued
<1>2. CASE ~RequestIgnored
  <2>1. Enqueue(Records) /\ UNCHANGED <<content, refresh>> BY <1>2 DEF FullCheck
  <2> QED BY <2>1, EnqueueEffect
<1> QED BY <1>1, <1>2

\* A check changes only what it found and the row it removes.
LEMMA ChecksEffect ==
  ASSUME Columns, PulseChecks
  PROVE  /\ Columns' /\ UNCHANGED <<content, refresh>>
         /\ \A r \in Records : \/ finding'[r] = finding[r] /\ (r \in Queued => r \in Queued')
                               \/ finding'[r] = Inspect(r)
<1> DEFINE h == Head(tasks)
<1>0. UNCHANGED <<content, refresh, dismissed>>
  BY DEF PulseChecks, Checked, KeepDamaged, KeepDecision, checks
<1>1. CASE Checked(h)
  <2>1. PICK i \in DOMAIN queue : queue[i] = h /\ queue' = RemoveAt(queue, i) BY <1>1 DEF Checked
  <2>2. queue' \in Seq(Records) /\ Listed(queue) \ {h} \subseteq Listed(queue')
    BY <2>1, Removed DEF Columns
  <2>3. finding' = [finding EXCEPT ![h] = Inspect(h)] BY <1>1 DEF Checked
  <2> QED BY <1>0, <2>2, <2>3, QueuedIsListed DEF Columns
<1>2. CASE KeepDamaged(h) BY <1>0, <1>2 DEF KeepDamaged, Columns, Queued, checks
<1> QED BY <1>1, <1>2 DEF PulseChecks

LEMMA ColumnsStep == ASSUME Columns, [Next]_vars PROVE Columns'
<1>1. ASSUME NEW r \in Records, NEW c \in Contents, Change(r, c) PROVE Columns'
  BY <1>1, EnqueueEffect DEF Change, Triggers, Columns, checks
<1>2. ASSUME NEW r \in Records, NEW dismiss \in BOOLEAN, Decide(r, dismiss) PROVE Columns'
  BY <1>2 DEF Decide, Columns, records
<1>3. CASE CheckNow BY <1>3, FullCheckEffect DEF CheckNow, Columns, checks
<1>4. CASE PulseRequests BY <1>4, FullCheckEffect DEF PulseRequests, Columns, checks, records
<1>5. CASE PulseTakes BY <1>5, RefreshEffect DEF PulseTakes, Columns, checks
<1>6. CASE PulseChecks BY <1>6, ChecksEffect
<1>7. CASE Show \/ PulseEnds \/ FourHours \/ Chat \/ Exit \/ Launch \/ UNCHANGED vars
  BY <1>7 DEF Show, PulseEnds, FourHours, Chat, Exit, Launch, vars, Columns, records, checks
<1> QED BY <1>1, <1>2, <1>3, <1>4, <1>5, <1>6, <1>7 DEF Next, User, Pulse

LEMMA UpkeepInit == Init => Columns /\ StaleFindingsAreQueued
<1> SUFFICES ASSUME Init PROVE Columns /\ StaleFindingsAreQueued OBVIOUS
<1>1. queue \in Seq(Records) /\ Listed(queue) = Records
  BY UpkeepAssumption, Orders DEF Init
<1>2. Columns BY <1>1 DEF Init, Columns
<1>3. StaleFindingsAreQueued BY <1>1, QueuedIsListed DEF StaleFindingsAreQueued
<1> QED BY <1>2, <1>3

\* What a check of r reads changes only with the record itself, or with one
\* that a note refers to.
LEMMA InspectChanges ==
  ASSUME Columns, NEW r \in Records, NEW c \in Contents, content' = [content EXCEPT ![r] = c],
         NEW q \in Records, q # r, q \notin Notes
  PROVE  Inspect(q)' = Inspect(q)
<1>1. Basis(q) = {q} BY DEF Basis, Notes
<1>2. content'[q] = content[q] BY DEF Columns
<1> QED BY <1>1, <1>2 DEF Inspect, Basis

LEMMA InspectKept == ASSUME UNCHANGED content PROVE \A r : Inspect(r)' = Inspect(r)
BY DEF Inspect, Basis

LEMMA StaleStep ==
  ASSUME Columns, StaleFindingsAreQueued, [Next]_vars PROVE StaleFindingsAreQueued'
<1> USE DEF StaleFindingsAreQueued
<1>k. ASSUME UNCHANGED <<content, finding>>, Queued \subseteq Queued',
             \A n \in Notes : refresh => refresh' \/ n \in Queued'
      PROVE  StaleFindingsAreQueued'
  BY <1>k, InspectKept DEF Notes
<1>1. ASSUME NEW r \in Records, NEW c \in Contents, Change(r, c) PROVE StaleFindingsAreQueued'
  <2>1. Queued' = Queued \union {r} /\ refresh' = TRUE
    BY <1>1, EnqueueEffect DEF Change, Triggers, Columns
  <2>2. finding' = finding /\ content' = [content EXCEPT ![r] = c] BY <1>1 DEF Change, checks
  <2>3. ASSUME NEW q \in Records, finding'[q] # Inspect(q)'
        PROVE  q \in Queued' \/ q \in Notes
    <3>1. CASE q = r BY <2>1, <3>1
    <3>2. CASE q # r /\ q \notin Notes
      <4>1. finding[q] # Inspect(q) BY <2>2, <2>3, <3>2, InspectChanges
      <4> QED BY <2>1, <4>1
    <3> QED BY <3>1, <3>2
  <2> QED BY <2>1, <2>3 DEF Notes
<1>2. ASSUME NEW r \in Records, NEW dismiss \in BOOLEAN, Decide(r, dismiss)
      PROVE  StaleFindingsAreQueued'
  <2>1. finding' = [finding EXCEPT ![r] = Inspect(r)] /\ UNCHANGED records
    BY <1>2 DEF Decide, Matches
  <2>2. Queued' = Queued /\ refresh' = refresh /\ content' = content BY <2>1 DEF records, Queued
  <2> QED BY <2>1, <2>2, InspectKept DEF Columns, Notes
<1>3. CASE CheckNow BY <1>3, <1>k, FullCheckEffect DEF CheckNow, Columns, checks
<1>4. CASE PulseRequests
  <2>1. Queued \subseteq Queued' /\ UNCHANGED <<content, refresh>>
    BY <1>4, FullCheckEffect DEF PulseRequests, Columns, records, Queued
  <2> QED BY <1>4, <2>1, <1>k DEF PulseRequests, checks
<1>5. CASE PulseTakes BY <1>5, <1>k, RefreshEffect DEF PulseTakes, Columns, checks
<1>6. CASE PulseChecks
  <2>1. UNCHANGED <<content, refresh>> BY <1>6 DEF PulseChecks
  <2>2. ASSUME NEW r \in Records, finding'[r] # Inspect(r)'
        PROVE  r \in Queued' \/ (refresh' /\ r \in Notes)
    <3>1. finding'[r] # Inspect(r) BY <2>1, <2>2, InspectKept
    <3>2. finding[r] # Inspect(r) /\ (r \in Queued => r \in Queued') BY <1>6, <3>1, ChecksEffect
    <3> QED BY <2>1, <3>2
  <2> QED BY <2>2 DEF Notes
<1>7. CASE Show \/ PulseEnds \/ FourHours \/ Chat \/ Exit \/ Launch \/ UNCHANGED vars
  <2>1. UNCHANGED <<records, finding>>
    BY <1>7 DEF Show, PulseEnds, FourHours, Chat, Exit, Launch, vars, checks
  <2> QED BY <2>1, <1>k DEF records, Queued
<1> QED BY <1>1, <1>2, <1>3, <1>4, <1>5, <1>6, <1>7 DEF Next, User, Pulse

\* No change, crash or failed check is forgotten.
THEOREM StaleQueued == Spec => []StaleFindingsAreQueued
BY UpkeepInit, ColumnsStep, StaleStep, PTL DEF Spec

\* A run is completed only when every finding is current.
LEMMA CompletionStep ==
  ASSUME StaleFindingsAreQueued, [Next]_vars, run # "none", run' = "none"
  PROVE  \A r \in Records : finding'[r] = Inspect(r)'
<1>1. ASSUME NEW reason, FullCheck(reason), reason # "none" PROVE FALSE
  BY <1>1 DEF FullCheck, runs
<1>2. CASE User \/ PulseRequests
  BY <1>1, <1>2 DEF User, Change, Decide, CheckNow, Show, PulseRequests, runs
<1>3. CASE PulseTakes \/ PulseChecks \/ FourHours \/ Chat \/ Exit \/ Launch \/ UNCHANGED vars
  BY <1>3 DEF PulseTakes, PulseChecks, FourHours, Chat, Exit, Launch, vars, runs
<1>4. CASE PulseEnds
  <2>1. ~AnythingLeft /\ UNCHANGED <<records, checks>> BY <1>4 DEF PulseEnds, runs
  <2>2. Queued = {} /\ ~refresh BY <2>1 DEF AnythingLeft, Queued
  <2> QED BY <2>1, <2>2, InspectKept DEF StaleFindingsAreQueued, records, checks
<1> QED BY <1>2, <1>3, <1>4 DEF Next, Pulse

THEOREM CompletedCurrent == Spec => CompletedRunsAreCurrent
<1>1. ASSUME StaleFindingsAreQueued, [Next]_vars
      PROVE  [run # "none" /\ run' = "none" => \A r \in Records : finding'[r] = Inspect(r)']_vars
  BY <1>1, CompletionStep
<1> QED BY <1>1, StaleQueued, PTL DEF Spec, CompletedRunsAreCurrent

\* What is left as it is stays hidden, and is what the records say: a change
\* ends it for every record whose check reads the changed one, and a check of
\* a record that did not change finds what it found before.
LEMMA LeftStep ==
  ASSUME Columns, left \subseteq Records, LeftAsIsStaysHidden, [Next]_vars
  PROVE  left' \subseteq Records /\ LeftAsIsStaysHidden'
<1> USE DEF LeftAsIsStaysHidden
<1>k. ASSUME UNCHANGED <<content, checks, left>>
      PROVE  left' \subseteq Records /\ LeftAsIsStaysHidden'
  BY <1>k, InspectKept DEF checks
<1>1. ASSUME NEW r \in Records, NEW c \in Contents, Change(r, c)
      PROVE  left' \subseteq Records /\ LeftAsIsStaysHidden'
  <2>1. /\ UNCHANGED checks /\ content' = [content EXCEPT ![r] = c]
        /\ left' = left \ {n \in Records : r \in Basis(n)}
    BY <1>1 DEF Change
  <2>2. ASSUME NEW q \in left' PROVE Inspect(q)' = Inspect(q)
    <3>1. q \in Records /\ r \notin Basis(q) BY <2>1
    <3>2. \A n \in Basis(q) : content'[n] = content[n]
      BY <2>1, <3>1, UpkeepAssumption DEF Basis, Columns
    <3> QED BY <3>2 DEF Inspect, Basis
  <2> QED BY <2>1, <2>2 DEF checks
<1>2. ASSUME NEW r \in Records, NEW dismiss \in BOOLEAN, Decide(r, dismiss)
      PROVE  left' \subseteq Records /\ LeftAsIsStaysHidden'
  <2>1. /\ shown[r] # None /\ Readable(r) /\ Inspect(r) = shown[r]
        /\ finding' = [finding EXCEPT ![r] = Inspect(r)] /\ content' = content
        /\ dismissed' = [dismissed EXCEPT ![r] = IF dismiss THEN shown[r] ELSE None]
        /\ left' = IF dismiss THEN left \union {r} ELSE left \ {r}
    BY <1>2 DEF Decide, Matches, records
  <2>2. left' \subseteq Records BY <2>1
  <2>3. ASSUME NEW q \in left'
        PROVE  finding'[q] # None /\ dismissed'[q] = finding'[q] /\ finding'[q] = Inspect(q)'
    <3>1. Inspect(q)' = Inspect(q) BY <2>1, InspectKept
    <3>2. CASE q = r BY <2>1, <2>3, <3>1, <3>2 DEF Columns
    <3>3. CASE q # r BY <2>1, <2>2, <2>3, <3>1, <3>3 DEF Columns
    <3> QED BY <3>2, <3>3
  <2> QED BY <2>2, <2>3
<1>3. CASE CheckNow \/ PulseRequests
  <2>1. UNCHANGED <<checks, left>> BY <1>3 DEF CheckNow, PulseRequests, history
  <2>2. UNCHANGED content
    BY <1>3, FullCheckEffect DEF CheckNow, PulseRequests, records, Columns
  <2> QED BY <2>1, <2>2, <1>k
<1>4. CASE PulseChecks
  <2>1. UNCHANGED <<content, dismissed, left>>
    BY <1>4 DEF PulseChecks, Checked, KeepDamaged, KeepDecision, checks
  <2>2. ASSUME NEW q \in left PROVE finding'[q] = finding[q] /\ Inspect(q)' = Inspect(q)
    BY <1>4, <2>1, ChecksEffect, InspectKept
  <2> QED BY <2>1, <2>2
<1>5. CASE Show \/ PulseTakes \/ PulseEnds \/ FourHours \/ Chat \/ Exit \/ Launch \/ UNCHANGED vars
  BY <1>5, <1>k DEF Show, PulseTakes, PulseEnds, FourHours, Chat, Exit, Launch, vars, records,
                    history
<1> QED BY <1>1, <1>2, <1>3, <1>4, <1>5 DEF Next, User, Pulse

\* "Leave as is" hides a finding until its record changes, for any records.
THEOREM LeftHidden == Spec => []LeftAsIsStaysHidden
<1>1. Init => left \subseteq Records /\ LeftAsIsStaysHidden BY DEF Init, LeftAsIsStaysHidden
<1>2. ASSUME Columns, left \subseteq Records /\ LeftAsIsStaysHidden, [Next]_vars
      PROVE  (left \subseteq Records /\ LeftAsIsStaysHidden)'
  BY <1>2, LeftStep
<1> QED BY <1>1, <1>2, UpkeepInit, ColumnsStep, PTL DEF Spec
-----------------------------------------------------------------------------
\* What the application shows and keeps of a record's finding is one.
LEMMA InspectType == ASSUME content \in [Records -> Contents], NEW r \in Records
                     PROVE  Inspect(r) \in Versions
<1>1. Basis(r) \subseteq Records BY UpkeepAssumption DEF Basis
<1>2. [q \in Basis(r) |-> content[q]] \in [Basis(r) -> Contents] BY <1>1
<1> QED BY <1>2 DEF Inspect, Versions

LEMMA EnqueueType ==
  ASSUME queue \in Seq(Records), failed \subseteq Records, NEW S \in SUBSET Records, Enqueue(S)
  PROVE  queue' \in Seq(Records) /\ failed' \subseteq Records
BY EnqueueEffect DEF Enqueue

LEMMA FullCheckType ==
  ASSUME TypeOK, NEW reason \in {"periodic", "manual"}, FullCheck(reason)
  PROVE  /\ content' \in [Records -> Contents] /\ queue' \in Seq(Records)
         /\ failed' \subseteq Records /\ refresh' \in BOOLEAN
         /\ run' \in {"none", "changes", "periodic", "manual"}
         /\ runOld' \in BOOLEAN /\ fullOld' \in BOOLEAN
<1>1. CASE RequestIgnored BY <1>1 DEF FullCheck, records, runs, TypeOK
<1>2. CASE ~RequestIgnored
  <2>1. queue \in Seq(Records) /\ failed \subseteq Records BY DEF TypeOK
  <2>2. queue' \in Seq(Records) /\ failed' \subseteq Records
    BY <1>2, <2>1, EnqueueType DEF FullCheck
  <2> QED BY <1>2, <2>2 DEF FullCheck, TypeOK
<1> QED BY <1>1, <1>2

LEMMA TypeStep == ASSUME TypeOK, [Next]_vars PROVE TypeOK'
<1>0. content \in [Records -> Contents] /\ queue \in Seq(Records) /\ failed \subseteq Records
  BY DEF TypeOK
<1>1. ASSUME NEW r \in Records, NEW c \in Contents, Change(r, c) PROVE TypeOK'
  <2>1. queue' \in Seq(Records) /\ failed' \subseteq Records
    BY <1>0, <1>1, EnqueueType DEF Change, Triggers
  <2>2. content' \in [Records -> Contents] /\ refresh' = TRUE
        /\ tried' \subseteq Records /\ left' \subseteq Records
    BY <1>1 DEF Change, Triggers, TypeOK
  <2> QED BY <1>1, <2>1, <2>2 DEF Change, TypeOK, checks, runs, process
<1>2. ASSUME NEW r \in Records, NEW dismiss \in BOOLEAN, Decide(r, dismiss) PROVE TypeOK'
  <2>1. Inspect(r) \in Versions /\ None \in Versions BY <1>0, InspectType DEF Versions
  <2>2. finding' \in [Records -> Versions] /\ dismissed' \in [Records -> Versions]
    BY <1>2, <2>1 DEF Decide, TypeOK
  <2>3. left' \subseteq Records BY <1>2 DEF Decide, TypeOK
  <2> QED BY <1>2, <2>2, <2>3 DEF Decide, TypeOK, records, runs, process
<1>3. CASE CheckNow
  <2>1. tried' \subseteq Records BY <1>3 DEF CheckNow
  <2> QED BY <1>3, <2>1, FullCheckType DEF CheckNow, TypeOK, checks, process
<1>4. CASE Show BY <1>4 DEF Show, TypeOK, records, checks, runs, process, history
<1>5. CASE PulseRequests
  <2>1. CASE Overdue BY <1>5, <2>1, FullCheckType DEF PulseRequests, TypeOK, checks, history
  <2>2. CASE ~Overdue BY <1>5, <2>2 DEF PulseRequests, TypeOK, checks, records, runs, history
  <2> QED BY <2>1, <2>2
<1>6. CASE PulseTakes
  <2>1. queue' \in Seq(Records) /\ failed' \subseteq Records /\ refresh' \in BOOLEAN
    <3>1. CASE refresh
      <4>1. Enqueue(Notes) BY <1>6, <3>1 DEF PulseTakes, RefreshLinks
      <4>2. Notes \in SUBSET Records BY DEF Notes
      <4> QED BY <1>0, <1>6, <4>1, <4>2, EnqueueType DEF PulseTakes, RefreshLinks
    <3>2. CASE ~refresh BY <1>0, <1>6, <3>2 DEF PulseTakes, RefreshLinks
    <3> QED BY <3>1, <3>2
  <2>2. Queued' \subseteq Records
    <3>1. \A i \in DOMAIN queue' : queue'[i] \in Records BY <2>1
    <3> QED BY <3>1 DEF Queued
  <2>3. tasks' \in Seq(Records)
    <3>1. tasks' \in BoundedSeq(Queued', Limit) BY <1>6 DEF PulseTakes
    <3>2. PICK m \in 0..Limit : tasks' \in [1..m -> Queued'] BY <3>1 DEF BoundedSeq, SeqOf
    <3>3. m \in Nat BY UpkeepAssumption, <3>2
    <3>4. tasks' \in [1..m -> Records] BY <2>2, <3>2
    <3> QED BY <3>3, <3>4, IsASeq
  <2>4. run' \in {"none", "changes", "periodic", "manual"} /\ runOld' \in BOOLEAN
    BY <1>6 DEF PulseTakes, TypeOK
  <2> QED BY <1>6, <2>1, <2>3, <2>4 DEF PulseTakes, TypeOK, checks, history
<1>7. CASE PulseChecks
  <2> DEFINE h == Head(tasks)
  <2>1. h \in Records /\ tasks' \in Seq(Records)
    BY <1>7, HeadTailProperties DEF PulseChecks, TypeOK
  <2>2. CASE Checked(h)
    <3>1. PICK i \in DOMAIN queue : queue[i] = h /\ queue' = RemoveAt(queue, i)
      BY <2>2 DEF Checked
    <3>2. queue' \in Seq(Records) BY <1>0, <3>1, Removed
    <3>3. Inspect(h) \in Versions BY <1>0, <2>1, InspectType
    <3>4. finding' \in [Records -> Versions] BY <2>2, <3>3 DEF Checked, TypeOK
    <3>5. failed' \subseteq Records /\ tried' = tried /\ dismissed' = dismissed
      BY <1>0, <2>2 DEF Checked, KeepDecision
    <3> QED BY <1>7, <2>1, <3>2, <3>4, <3>5 DEF PulseChecks, TypeOK, runs
  <2>3. CASE KeepDamaged(h)
    <3>1. failed' \subseteq Records /\ tried' \subseteq Records
      BY <2>1, <2>3 DEF KeepDamaged, TypeOK
    <3> QED BY <1>7, <2>1, <2>3, <3>1 DEF PulseChecks, KeepDamaged, TypeOK, runs, checks
  <2> QED BY <1>7, <2>2, <2>3 DEF PulseChecks
<1>8. CASE PulseEnds
  <2>1. run' \in {"none", "changes", "periodic", "manual"} /\ runOld' \in BOOLEAN
        /\ fullOld' \in BOOLEAN
    BY <1>8 DEF PulseEnds, TypeOK, runs
  <2> QED BY <1>8, <2>1 DEF PulseEnds, TypeOK, records, checks, history
<1>9. CASE FourHours BY <1>9 DEF FourHours, TypeOK, records, checks, process
<1>10. CASE Chat BY <1>10 DEF Chat, TypeOK, records, checks, runs, history
<1>11. CASE Exit
  <2>1. tasks' \in Seq(Records) BY <1>11 DEF Exit
  <2> QED BY <1>11, <2>1 DEF Exit, TypeOK, records, checks, runs, history
<1>12. CASE Launch BY <1>12 DEF Launch, TypeOK, records, checks, runs, history
<1>13. CASE UNCHANGED vars BY <1>13 DEF vars, TypeOK, records, checks, runs, process, history
<1> QED BY <1>1, <1>2, <1>3, <1>4, <1>5, <1>6, <1>7, <1>8, <1>9, <1>10, <1>11, <1>12, <1>13
        DEF Next, User, Pulse

\* Types, for any records, links and contents.
THEOREM TypeCorrect == Spec => []TypeOK
<1>1. Init => TypeOK
  <2> SUFFICES ASSUME Init PROVE TypeOK OBVIOUS
  <2>1. queue \in Seq(Records) BY UpkeepAssumption, Orders DEF Init
  <2>2. None \in Versions BY DEF Versions
  <2>3. content \in [Records -> Contents]
    <3>1. content \in [Records -> Contents \ Damaged] BY DEF Init
    <3> QED BY <3>1
  <2>4. <<>> \in Seq(Records) OBVIOUS
  <2> QED BY <2>1, <2>2, <2>3, <2>4 DEF Init, TypeOK
<1> QED BY <1>1, TypeStep, PTL DEF Spec
=============================================================================
