---------------------------- MODULE AutoFilingProofs ----------------------------
(***************************************************************************)
(* Proofs about AutoFiling, for any documents, versions, matters,          *)
(* instructions and requests of any size.                                  *)
(***************************************************************************)
EXTENDS AutoFiling, TLAPS

States == {"none", "ready", "applied", "dismissed", "superseded"}

\* The parts of TypeOK, so that a step is taken part by part.
Documents ==
  /\ version \in [Sources -> 1..MaxVersion] /\ explicit \subseteq Sources /\ matters \in 0..MaxMatters
  /\ instruction \in Instructions
Tasks == task \in [Sources -> {"queued", "running", "complete", "blocked", "protected"}]
Results == result \in [Sources -> [Fingerprints -> States]]
CallData ==
  /\ DOMAIN asked \subseteq Sources /\ \A s \in DOMAIN asked : asked[s] \in Fingerprints
  /\ calling <=> asked # <<>>
Settings ==
  /\ mode \in {"off", "running", "paused", "failed"} /\ app \in {"open", "stopping", "closed"}
  /\ shown \subseteq Sources \X Fingerprints
Flags ==
  /\ marker \in BOOLEAN /\ chatting \in BOOLEAN /\ calling \in BOOLEAN /\ same \in BOOLEAN
  /\ aborted \in BOOLEAN /\ fresh \in BOOLEAN /\ sawRunning \in BOOLEAN
  /\ interrupted \in BOOLEAN /\ errored \in BOOLEAN
OffIsIdle == mode = "off" => ~marker /\ Running = {}

LEMMA Parts ==
  TypeOK <=> Documents /\ Tasks /\ Results /\ CallData /\ Settings /\ Flags /\ OffIsIdle
BY Zenon DEF TypeOK, Documents, Tasks, Results, States, CallData, Settings, Flags, OffIsIdle

LEMMA CurrentFingerprint ==
  ASSUME Documents PROVE \A s \in Sources : Fingerprint(s) \in Fingerprints
BY SMT DEF Documents, Fingerprint, Fingerprints

LEMMA DocumentsStep == ASSUME TypeOK, Next PROVE Documents'
<1>0. Documents /\ shown \subseteq Sources \X Fingerprints BY Parts DEF Settings
<1> USE FilingAssumption DEF Documents
<1>1. ASSUME NEW s \in Sources, Revise(s) \/ FileByHand(s) PROVE Documents'
  BY <1>0, <1>1, SMT DEF Revise, FileByHand, settings
<1>2. CASE AddMatter BY <1>0, <1>2, SMT DEF AddMatter, settings
<1>3. ASSUME NEW i \in Instructions, Enable(i) PROVE Documents'
  BY <1>0, <1>3, SMT DEF Enable, documents
<1>4. CASE Pause \/ Resume \/ Check \/ Show
  BY <1>0, <1>4, SMT DEF Pause, Resume, Check, Show, documents, settings
<1>5. ASSUME NEW items \in SUBSET shown, NEW apply \in BOOLEAN, Review(items, apply)
      PROVE  Documents'
  <2>1. {i[1] : i \in items} \subseteq Sources BY <1>0
  <2> QED BY <1>0, <1>5, <2>1, SMT DEF Review, settings
<1>6. CASE Worker
  BY <1>0, <1>6, SMT DEF Worker, Claim, CallReturns, AnswerDropped, Answer, CallFails, documents
<1>7. CASE Chat \/ Stop \/ Exit \/ Launch
  BY <1>0, <1>7, SMT DEF Chat, Stop, Exit, Launch, documents, settings
<1> QED BY <1>1, <1>2, <1>3, <1>4, <1>5, <1>6, <1>7 DEF Next, User

LEMMA TasksStep == ASSUME TypeOK, Next PROVE Tasks'
<1>0. Tasks BY Parts
<1> USE DEF Tasks, With
<1>1. ASSUME NEW s \in Sources, Revise(s) \/ FileByHand(s) PROVE Tasks'
  BY <1>0, <1>1, SMT DEF Revise, FileByHand
<1>6. ASSUME NEW i \in Instructions, Enable(i) PROVE Tasks'
  BY <1>0, <1>6, SMT DEF Enable, EnqueueUnfiled
<1>7. CASE AddMatter \/ Pause \/ Resume \/ Check \/ Show
  BY <1>0, <1>7, SMT DEF AddMatter, Pause, Resume, Check, Show, EnqueueUnfiled
<1>8. ASSUME NEW items \in SUBSET shown, NEW apply \in BOOLEAN, Review(items, apply) PROVE Tasks'
  <2>1. task' = IF apply THEN With({i[1] : i \in items}, "protected") ELSE task
    BY <1>8, Zenon DEF Review
  <2> QED BY <1>0, <2>1, SMT
<1>2. CASE Claim BY <1>0, <1>2, SMT DEF Claim
<1>3. CASE AnswerDropped \/ CallFails \/ Launch
  BY <1>0, <1>3, SMT DEF AnswerDropped, CallFails, Launch, Release
<1>4. ASSUME NEW bad \in SUBSET Sources, Answer(bad) PROVE Tasks'
  BY <1>0, <1>4, SMT DEF Answer
<1>5. CASE Chat \/ Stop \/ Exit BY <1>0, <1>5, SMT DEF Chat, Stop, Exit
<1> QED BY <1>1, <1>2, <1>3, <1>4, <1>5, <1>6, <1>7, <1>8 DEF Next, User, Worker, CallReturns

\* What becomes of a suggestion: superseding closes it, and it opens only for
\* a readable document of that fingerprint.
Opens(s, f) == result[s][f] # "ready" /\ result'[s][f] = "ready"

LEMMA SupersedeType ==
  ASSUME Results, NEW S
  PROVE  /\ Supersede(S) \in [Sources -> [Fingerprints -> States]]
         /\ \A s \in Sources, f \in Fingerprints :
              /\ Supersede(S)[s][f] = "ready" => result[s][f] = "ready" /\ s \notin S
              /\ Supersede(S)[s][f] # "superseded" => Supersede(S)[s][f] = result[s][f]
BY SMT DEF Results, Supersede, States

\* Typed results, nothing opened but what is readable and current, and nothing
\* left open for a document that is filed by hand now.
ResultsEffect ==
  /\ Results'
  /\ \A s \in Sources, f \in Fingerprints : Opens(s, f) => f = Fingerprint(s) /\ Readable(s)
  /\ \A s \in explicit' \ explicit, f \in Fingerprints : result'[s][f] # "ready"
  /\ Documents'

LEMMA ResultsStep == ASSUME TypeOK, [Next]_vars PROVE ResultsEffect
<1>0. Documents /\ Results /\ CallData /\ Settings BY Parts
<1>a. Documents'
  BY <1>0, DocumentsStep DEF Documents, vars, documents, settings
<1>f. \A s \in Sources : Fingerprint(s) \in Fingerprints BY <1>0, CurrentFingerprint
<1> USE <1>a DEF ResultsEffect, Opens
<1>k. ASSUME UNCHANGED <<explicit, result>> PROVE ResultsEffect
  BY <1>0, <1>k DEF Results
<1>1. ASSUME NEW s \in Sources, Revise(s) \/ FileByHand(s) PROVE ResultsEffect
  BY <1>0, <1>1, SupersedeType, SMT DEF Revise, FileByHand, ByHand, Results
<1>2. CASE AddMatter \/ Pause \/ Resume \/ Check \/ Show
  BY <1>2, <1>k DEF AddMatter, Pause, Resume, Check, Show, documents
<1>3. ASSUME NEW i \in Instructions, Enable(i) PROVE ResultsEffect
  BY <1>3, <1>k DEF Enable, documents
<1>4. ASSUME NEW items \in SUBSET shown, NEW apply \in BOOLEAN, Review(items, apply)
      PROVE  ResultsEffect
  <2> DEFINE files == {i[1] : i \in items}
             outcome == IF apply THEN "applied" ELSE "dismissed"
             left == IF apply THEN Supersede(files) ELSE result
  <2>1. result' = [s \in Sources |-> [f \in Fingerprints |->
                     IF <<s, f>> \in items THEN outcome ELSE left[s][f]]]
        /\ explicit' = IF apply THEN explicit \union files ELSE explicit
    BY <1>4, Zenon DEF Review
  <2>2. left \in [Sources -> [Fingerprints -> States]]
        /\ \A s \in Sources, f \in Fingerprints :
             left[s][f] = "ready" => result[s][f] = "ready" /\ (apply => s \notin files)
    BY <1>0, SupersedeType, SMT DEF Results
  <2>3. outcome \in States /\ outcome # "ready" BY DEF States
  <2>4. files \subseteq Sources BY <1>0, <1>4 DEF Settings
  <2> HIDE DEF files, outcome, left
  <2>5. \A s \in Sources, f \in Fingerprints : result'[s][f] = "ready" => left[s][f] = "ready"
    BY <2>1, <2>3, SMT
  <2>6. Results' BY <2>1, <2>2, <2>3, SMT DEF Results
  <2> QED BY <1>0, <2>1, <2>2, <2>4, <2>5, <2>6, SMT DEF Documents
<1>5. CASE Claim
  <2>1. PICK seen \in SUBSET Queued, revived \in SUBSET Queued :
          LET open  == {s \in seen : Readable(s)}
              files == {s \in open : ~Answered(s)}
          IN  /\ revived \subseteq {s \in open : MayRevive(s)}
              /\ result' = [s \in Sources |->
                   IF s \in revived THEN [result[s] EXCEPT ![Fingerprint(s)] = "ready"]
                   ELSE Supersede(files)[s]]
    BY <1>5, Zenon DEF Claim
  <2> DEFINE open == {s \in seen : Readable(s)}
             files == {s \in open : ~Answered(s)}
             kept == Supersede(files)
  <2>2. kept \in [Sources -> [Fingerprints -> States]]
        /\ \A s \in Sources, f \in Fingerprints : kept[s][f] = "ready" => result[s][f] = "ready"
    BY <1>0, SupersedeType, SMT
  <2>3. \A s \in revived : Readable(s) BY <2>1
  <2>4. result' = [s \in Sources |->
          IF s \in revived THEN [result[s] EXCEPT ![Fingerprint(s)] = "ready"] ELSE kept[s]]
    BY <2>1
  <2>5. explicit' = explicit BY <1>5 DEF Claim, documents
  <2> HIDE DEF open, files, kept
  <2>6. Results' BY <1>0, <1>f, <2>2, <2>4, SMT DEF Results, States
  <2>7. ASSUME NEW s \in Sources, NEW f \in Fingerprints, Opens(s, f)
        PROVE  f = Fingerprint(s) /\ Readable(s)
    <3>1. s \in revived BY <2>2, <2>4, <2>7
    <3>2. result'[s] = [result[s] EXCEPT ![Fingerprint(s)] = "ready"] BY <2>4, <3>1
    <3>3. result[s] \in [Fingerprints -> States] BY <1>0 DEF Results
    <3> QED BY <2>3, <2>7, <3>1, <3>2, <3>3
  <2> QED BY <2>5, <2>6, <2>7
<1>6. CASE AnswerDropped \/ CallFails \/ Chat \/ Stop \/ Exit \/ Launch \/ UNCHANGED vars
  BY <1>6, <1>k DEF AnswerDropped, CallFails, Chat, Stop, Exit, Launch, vars, documents
<1>7. ASSUME NEW bad \in SUBSET Sources, Answer(bad) PROVE ResultsEffect
  <2> DEFINE kept == {s \in DOMAIN asked : Unchanged(s)} \ bad
  <2>1. result' = [s \in Sources |->
          IF s \in kept /\ result[s][asked[s]] = "none"
          THEN [result[s] EXCEPT ![asked[s]] = "ready"] ELSE result[s]]
    BY <1>7, Zenon DEF Answer
  <2>2. \A s \in kept : Readable(s) /\ asked[s] = Fingerprint(s) /\ asked[s] \in Fingerprints
    BY <1>0 DEF Unchanged, CallData
  <2>3. explicit' = explicit BY <1>7 DEF Answer, documents
  <2> HIDE DEF kept
  <2>6. Results' BY <1>0, <2>1, <2>2, SMT DEF Results, States
  <2>7. ASSUME NEW s \in Sources, NEW f \in Fingerprints, Opens(s, f)
        PROVE  f = Fingerprint(s) /\ Readable(s)
    <3>1. s \in kept /\ result'[s] = [result[s] EXCEPT ![asked[s]] = "ready"] BY <2>1, <2>7
    <3>2. result[s] \in [Fingerprints -> States] BY <1>0 DEF Results
    <3> QED BY <2>2, <2>7, <3>1, <3>2
  <2> QED BY <2>3, <2>6, <2>7
<1> QED BY <1>1, <1>2, <1>3, <1>4, <1>5, <1>6, <1>7 DEF Next, User, Worker, CallReturns

LEMMA CallDataStep == ASSUME TypeOK, Next PROVE CallData'
<1>0. Documents /\ Tasks /\ CallData BY Parts
<1> USE DEF CallData
<1>1. CASE Claim
  <2>1. PICK seen \in SUBSET Queued :
          LET files == {s \in {t \in seen : Readable(t)} : ~Answered(s)}
          IN  asked' = [s \in files |-> Fingerprint(s)] /\ calling' = (files # {})
    BY <1>1, Zenon DEF Claim
  <2> DEFINE files == {s \in {t \in seen : Readable(t)} : ~Answered(s)}
  <2>2. files \subseteq Sources BY DEF Queued
  <2>3. asked' = [s \in files |-> Fingerprint(s)] /\ calling' = (files # {}) BY <2>1
  <2> HIDE DEF files
  <2>4. DOMAIN asked' = files /\ \A s \in files : asked'[s] = Fingerprint(s) BY <2>3
  <2>5. asked' = <<>> <=> files = {}
    <3>1. ASSUME files = {} PROVE asked' = <<>> BY <2>3, <3>1
    <3>2. ASSUME asked' = <<>> PROVE files = {}
      <4>1. DOMAIN <<>> = {} OBVIOUS
      <4> QED BY <2>4, <3>2, <4>1
    <3> QED BY <3>1, <3>2
  <2> QED BY <1>0, <2>2, <2>3, <2>4, <2>5, CurrentFingerprint
<1>2. CASE CallReturns \/ Exit
  <2>1. asked' = <<>> /\ calling' = FALSE
    BY <1>2, Zenon DEF CallReturns, AnswerDropped, Answer, CallFails, CallEnds, Exit
  <2>2. DOMAIN <<>> = {} OBVIOUS
  <2> QED BY <2>1, <2>2
<1>3. CASE User
  <2>1. UNCHANGED <<asked, calling>>
    BY <1>3, Zenon DEF User, Revise, FileByHand, AddMatter, Enable, Pause, Resume, Check, Show,
                       Review, call
  <2> QED BY <1>0, <2>1
<1>4. CASE Chat \/ Stop \/ Launch
  <2>1. UNCHANGED <<asked, calling>> BY <1>4, Zenon DEF Chat, Stop, Launch, call
  <2> QED BY <1>0, <2>1
<1> QED BY <1>1, <1>2, <1>3, <1>4 DEF Next, Worker

LEMMA SettingsStep == ASSUME TypeOK, Next PROVE Settings'
<1>0. Settings BY Parts
<1> USE DEF Settings
<1>1. CASE User
  BY <1>0, <1>1, Zenon DEF User, Revise, FileByHand, AddMatter, Enable, Pause, Resume, Check, Show,
                           Review, settings, window
<1>2. CASE Worker
  BY <1>0, <1>2, Zenon DEF Worker, Claim, CallReturns, AnswerDropped, Answer, CallFails
<1>3. CASE Chat \/ Stop \/ Exit \/ Launch
  BY <1>0, <1>3, SMT DEF Chat, Stop, Exit, Launch, settings, window
<1> QED BY <1>1, <1>2, <1>3 DEF Next

LEMMA FlagsStep == ASSUME TypeOK, Next PROVE Flags'
<1>0. Flags BY Parts
<1> USE DEF Flags
<1>1. CASE User
  <2>1. ASSUME NEW s \in Sources, Revise(s) \/ FileByHand(s) PROVE Flags'
    BY <1>0, <2>1, Zenon DEF Revise, FileByHand, settings, call, window, history
  <2>2. CASE AddMatter BY <1>0, <2>2, Zenon DEF AddMatter, settings, call, window, history
  <2>3. ASSUME NEW i \in Instructions, Enable(i) PROVE Flags'
    BY <1>0, <2>3, Zenon DEF Enable, NewRevision
  <2>4. CASE Pause BY <1>0, <2>4, Zenon DEF Pause, NewRevision, history
  <2>5. CASE Resume BY <1>0, <2>5, Zenon DEF Resume, NewRevision
  <2>6. CASE Check BY <1>0, <2>6, Zenon DEF Check, NewRevision, settings, history
  <2>7. CASE Show BY <1>0, <2>7, Zenon DEF Show, settings, call, history
  <2>8. ASSUME NEW items \in SUBSET shown, NEW apply \in BOOLEAN, Review(items, apply) PROVE Flags'
    BY <1>0, <2>8, Zenon DEF Review, settings, call, window, history
  <2> QED BY <1>1, <2>1, <2>2, <2>3, <2>4, <2>5, <2>6, <2>7, <2>8 DEF User
<1>2. CASE Claim
  <2>1. PICK seen \in SUBSET Queued :
          LET files == {s \in {t \in seen : Readable(t)} : ~Answered(s)}
          IN  /\ calling' = (files # {}) /\ marker' = (files # {})
              /\ IF files = {} THEN UNCHANGED <<same, aborted, fresh>>
                 ELSE same' = TRUE /\ aborted' = FALSE /\ fresh' = FALSE
    BY <1>2, Zenon DEF Claim
  <2>2. UNCHANGED <<chatting, sawRunning, history>> BY <1>2 DEF Claim
  <2> QED BY <1>0, <2>1, <2>2, Zenon DEF history
<1>3. CASE AnswerDropped
  BY <1>0, <1>3, Zenon DEF AnswerDropped, CallEnds, NewRevision, history
<1>4. ASSUME NEW bad \in SUBSET Sources, Answer(bad) PROVE Flags'
  BY <1>0, <1>4, Zenon DEF Answer, CallEnds, NewRevision, history
<1>5. CASE CallFails BY <1>0, <1>5, Zenon DEF CallFails, CallEnds, NewRevision
<1>6. CASE Chat BY <1>0, <1>6, Zenon DEF Chat, settings, call, window, history
<1>7. CASE Stop BY <1>0, <1>7, Zenon DEF Stop, settings, window, history
<1>8. CASE Exit BY <1>0, <1>8, Zenon DEF Exit, settings, window
<1>9. CASE Launch BY <1>0, <1>9, Zenon DEF Launch, call, history
<1> QED BY <1>1, <1>2, <1>3, <1>4, <1>5, <1>6, <1>7, <1>8, <1>9 DEF Next, Worker, CallReturns

\* The marker in the settings tells of a call, whatever the application does,
\* until a new process looks at it.
CallInv ==
  /\ Running # {} => marker
  /\ app # "closed" => (marker = calling)
  /\ app = "open" => Running \subseteq DOMAIN asked
  /\ app = "closed" => ~calling
  /\ OffIsIdle
\* An interrupted call left its marker or has paused the settings.
InterruptedInv == interrupted => mode # "running" \/ (app = "closed" /\ marker)

LEMMA CallStep == ASSUME TypeOK, CallInv, [Next]_vars PROVE CallInv'
<1>0. Tasks /\ CallData /\ Settings /\ Flags BY Parts
<1> USE DEF CallInv, OffIsIdle
<1>n. ASSUME UNCHANGED <<settings, app, call>>, Running' \subseteq Running PROVE CallInv'
  BY <1>n, Zenon DEF settings, call
<1>1. ASSUME NEW s \in Sources, Revise(s) \/ FileByHand(s) PROVE CallInv'
  <2>1. Running' \subseteq Running BY <1>0, <1>1, SMT DEF Revise, FileByHand, With, Running, Tasks
  <2> QED BY <1>1, <1>n, <2>1, Zenon DEF Revise, FileByHand
<1>2. CASE AddMatter
  <2>1. Running' \subseteq Running BY <1>0, <1>2, SMT DEF AddMatter, With, Running, Tasks
  <2> QED BY <1>2, <1>n, <2>1, Zenon DEF AddMatter
<1>3. ASSUME NEW i \in Instructions, Enable(i) PROVE CallInv'
  <2>1. Running' \subseteq Running
    BY <1>0, <1>3, SMT DEF Enable, EnqueueUnfiled, With, Running, Tasks
  <2>2. UNCHANGED <<marker, app, asked, calling>> /\ mode' = "running" BY <1>3 DEF Enable
  <2> QED BY <2>1, <2>2
<1>4. CASE Pause
  <2>1. UNCHANGED <<marker, task, app, asked, calling>> /\ mode' = "paused" BY <1>4 DEF Pause
  <2> QED BY <2>1 DEF Running
<1>5. CASE Resume
  <2>1. Running' \subseteq Running
    BY <1>0, <1>5, SMT DEF Resume, EnqueueUnfiled, With, Running, Tasks
  <2>2. UNCHANGED <<marker, app, asked, calling>> /\ mode' = "running" BY <1>5 DEF Resume
  <2> QED BY <2>1, <2>2
<1>6. CASE Check
  <2>1. Running' \subseteq Running
    BY <1>0, <1>6, SMT DEF Check, EnqueueUnfiled, With, Running, Tasks
  <2>2. UNCHANGED <<settings, app, asked, calling>> BY <1>6 DEF Check
  <2> QED BY <2>1, <2>2 DEF settings
<1>7. CASE Show \/ Chat
  <2>1. UNCHANGED <<settings, task, app, call>> BY <1>7 DEF Show, Chat
  <2> QED BY <1>n, <2>1 DEF Running
<1>8. ASSUME NEW items \in SUBSET shown, NEW apply \in BOOLEAN, Review(items, apply) PROVE CallInv'
  <2>1. task' = IF apply THEN With({i[1] : i \in items}, "protected") ELSE task
    BY <1>8, Zenon DEF Review
  <2>2. Running' \subseteq Running BY <1>0, <2>1, SMT DEF With, Running, Tasks
  <2> QED BY <1>8, <1>n, <2>2, Zenon DEF Review
<1>9. CASE Claim
  <2>1. PICK seen \in SUBSET Queued :
          LET open  == {s \in seen : Readable(s)}
              files == {s \in open : ~Answered(s)}
          IN  /\ task' = [s \in Sources |->
                   IF s \notin seen THEN task[s]
                   ELSE IF s \in explicit THEN "protected"
                   ELSE IF s \in files THEN "running"
                   ELSE IF s \in open THEN "complete" ELSE "blocked"]
              /\ asked' = [s \in files |-> Fingerprint(s)]
              /\ calling' = (files # {}) /\ marker' = (files # {})
    BY <1>9, Zenon DEF Claim
  <2> DEFINE open == {s \in seen : Readable(s)}
             files == {s \in open : ~Answered(s)}
  <2>2. app = "open" /\ app' = "open" /\ mode = "running" /\ mode' = "running" /\ ~marker
    BY <1>9 DEF Claim, MayCall
  <2>3. Running = {} BY <2>2
  <2>4. DOMAIN asked' = files /\ calling' = (files # {}) /\ marker' = (files # {}) BY <2>1
  <2>5. task' = [s \in Sources |->
                   IF s \notin seen THEN task[s]
                   ELSE IF s \in explicit THEN "protected"
                   ELSE IF s \in files THEN "running"
                   ELSE IF s \in open THEN "complete" ELSE "blocked"]
    BY <2>1
  <2> HIDE DEF files, open
  <2>6. Running' \subseteq files BY <2>3, <2>5, SMT DEF Running
  <2> QED BY <2>2, <2>4, <2>6
<1>10. CASE AnswerDropped \/ CallFails
  <2>1. Running' = {}
    BY <1>0, <1>10, SMT DEF AnswerDropped, CallFails, Release, With, Running, Tasks
  <2>2. calling' = FALSE /\ marker' = FALSE /\ app' = app
    BY <1>10 DEF AnswerDropped, CallFails, CallEnds
  <2> QED BY <2>1, <2>2
<1>11. ASSUME NEW bad \in SUBSET Sources, Answer(bad) PROVE CallInv'
  <2>1. Running' = {} BY <1>0, <1>11, SMT DEF Answer, Running, Tasks
  <2>2. calling' = FALSE /\ marker' = FALSE /\ app' = app BY <1>11 DEF Answer, CallEnds
  <2> QED BY <2>1, <2>2
<1>12. CASE Stop
  <2>1. UNCHANGED <<settings, task, asked, calling>> /\ app = "open" /\ app' = "stopping"
    BY <1>12 DEF Stop
  <2> QED BY <2>1 DEF settings, Running
<1>13. CASE Exit
  <2>1. UNCHANGED <<settings, task>> /\ app' = "closed" /\ calling' = FALSE BY <1>13 DEF Exit
  <2> QED BY <2>1 DEF settings, Running
<1>14. CASE Launch
  <2>1. Running' = {} BY <1>0, <1>14, SMT DEF Launch, With, Running, Tasks
  <2>2. calling' = calling /\ marker' = FALSE /\ app' = "open" /\ app = "closed"
    BY <1>14 DEF Launch, call
  <2> QED BY <1>0, <2>1, <2>2, Zenon DEF Flags
<1>15. CASE UNCHANGED vars
  <2>1. UNCHANGED <<settings, task, app, call>> BY <1>15 DEF vars
  <2> QED BY <1>n, <2>1 DEF Running
<1> QED BY <1>1, <1>2, <1>3, <1>4, <1>5, <1>6, <1>7, <1>8, <1>9, <1>10, <1>11, <1>12, <1>13, <1>14,
           <1>15 DEF Next, User, Worker, CallReturns

LEMMA InterruptedStep ==
  ASSUME TypeOK, CallInv, InterruptedInv, [Next]_vars PROVE InterruptedInv'
<1>0. Settings /\ Flags BY Parts
<1> USE DEF InterruptedInv, Settings, Flags
<1>1. CASE User
  BY <1>0, <1>1, Zenon DEF User, Revise, FileByHand, AddMatter, Enable, Pause, Resume, Check, Show,
                           Review, settings, history
<1>2. CASE Claim BY <1>0, <1>2, Zenon DEF Claim, MayCall, history
<1>3. CASE CallReturns
  BY <1>0, <1>3, Zenon DEF CallReturns, AnswerDropped, Answer, CallFails, history
<1>4. CASE Chat \/ Stop \/ UNCHANGED vars
  BY <1>0, <1>4, Zenon DEF Chat, Stop, vars, settings, history
<1>5. CASE Exit BY <1>0, <1>5, SMT DEF Exit, CallInv, settings
<1>6. CASE Launch BY <1>0, <1>6, SMT DEF Launch, WasCalling, history
<1> QED BY <1>1, <1>2, <1>3, <1>4, <1>5, <1>6 DEF Next, Worker

LEMMA FilingInit == Init => TypeOK /\ CallInv /\ InterruptedInv /\ ExplicitChoicesWin
<1> SUFFICES ASSUME Init PROVE TypeOK /\ CallInv /\ InterruptedInv /\ ExplicitChoicesWin OBVIOUS
<1>0. DOMAIN <<>> = {} OBVIOUS
<1>1. Documents BY FilingAssumption, SMT DEF Init, Documents
<1>2. Tasks /\ Results /\ Running = {} BY SMT DEF Init, Tasks, Results, States, Running
<1>3. CallData /\ Flags BY <1>0, Zenon DEF Init, CallData, Flags
<1>4. Settings BY DEF Init, Settings
<1>5. OffIsIdle /\ CallInv BY <1>2, Zenon DEF Init, CallInv, OffIsIdle
<1>6. InterruptedInv BY DEF Init, InterruptedInv
<1>7. ExplicitChoicesWin BY DEF Init, ExplicitChoicesWin
<1> QED BY <1>1, <1>2, <1>3, <1>4, <1>5, <1>6, <1>7, Parts

LEMMA FilingStep ==
  ASSUME TypeOK, CallInv, Next
  PROVE  Documents' /\ Tasks' /\ Results' /\ CallData' /\ Settings' /\ Flags' /\ CallInv' /\ OffIsIdle'
<1>1. Results' BY ResultsStep DEF ResultsEffect
<1>2. CallInv' BY CallStep
<1> QED BY <1>1, <1>2, DocumentsStep, TasksStep, CallDataStep, SettingsStep, FlagsStep DEF CallInv

\* Settings, tasks, results and the call keep their types, and AI filing that
\* was never enabled runs nothing.
THEOREM FilingTypeCorrect == Spec => [](TypeOK /\ CallInv)
<1>1. ASSUME TypeOK, CallInv, Next
      PROVE  Documents' /\ Tasks' /\ Results' /\ CallData' /\ Settings' /\ Flags' /\ CallInv' /\ OffIsIdle'
  BY <1>1, FilingStep
<1>2. ASSUME TypeOK, CallInv, UNCHANGED vars PROVE TypeOK' /\ CallInv'
  <2>1. TypeOK'
    BY <1>2, Zenon DEF TypeOK, vars, documents, settings, call, window, history, Running
  <2> QED BY <1>2, <2>1, CallStep
<1> QED BY FilingInit, Parts, <1>1, <1>2, PTL DEF Spec

\* A running task is held by the marker and by a call that will release it.
THEOREM TasksHeld == Spec => []RunningTasksAreHeld
<1>1. CallInv => RunningTasksAreHeld BY Zenon DEF CallInv, RunningTasksAreHeld
<1> QED BY <1>1, FilingTypeCorrect, PTL

\* No suggestion is open for a document that was filed by hand.
THEOREM ExplicitWins == Spec => []ExplicitChoicesWin
<1>1. ASSUME TypeOK, ExplicitChoicesWin, [Next]_vars PROVE ExplicitChoicesWin'
  <2>1. ResultsEffect BY <1>1, ResultsStep
  <2>2. explicit' \subseteq Sources BY <2>1 DEF ResultsEffect, Documents
  <2> SUFFICES ASSUME NEW s \in explicit', NEW f \in Fingerprints, result'[s][f] = "ready"
               PROVE  FALSE
    BY DEF ExplicitChoicesWin
  <2>3. s \in explicit BY <2>1 DEF ResultsEffect
  <2>4. result[s][f] # "ready" BY <1>1, <2>3 DEF ExplicitChoicesWin
  <2>5. Opens(s, f) BY <2>4 DEF Opens
  <2>6. Readable(s) BY <2>1, <2>2, <2>5 DEF ResultsEffect
  <2> QED BY <2>3, <2>6 DEF Readable
<1> QED BY <1>1, FilingInit, FilingTypeCorrect, PTL DEF Spec

\* A suggestion opens only for the document, the matters and the instruction
\* of that moment.
THEOREM OpenedCurrent == Spec => OpenedSuggestionsAreCurrent
<1>1. ASSUME TypeOK, [Next]_vars
      PROVE  [\A s \in Sources, f \in Fingerprints :
                result[s][f] # "ready" /\ result'[s][f] = "ready" => f = Fingerprint(s)]_vars
  BY <1>1, ResultsStep DEF ResultsEffect, Opens
<1> QED BY <1>1, FilingTypeCorrect, PTL DEF Spec, OpenedSuggestionsAreCurrent

\* After a call that the application did not survive nothing is sent before
\* the user enables or resumes.
THEOREM InterruptedWait == Spec => InterruptedCallsWait
<1>1. ASSUME InterruptedInv, [Next]_vars PROVE [Claim => ~interrupted]_vars
  BY <1>1 DEF InterruptedInv, Claim, MayCall
<1> QED BY <1>1, FilingInit, InterruptedStep, FilingTypeCorrect, PTL DEF Spec, InterruptedCallsWait
-----------------------------------------------------------------------------
\* What PaidCalls sees of filing.
Wanted   == IF mode = "running" THEN {"filing"} ELSE {}
Caller   == IF calling THEN "filing" ELSE "none"
CutNow   == calling /\ ~same
Doubtful == IF interrupted THEN {"filing"} ELSE {}
Saved    == {i \in Sources \X Fingerprints : result[i[1]][i[2]] # "none"}

LEMMA SupersedeKeeps ==
  ASSUME Results, NEW S, NEW s \in Sources, NEW f \in Fingerprints
  PROVE  Supersede(S)[s][f] = "none" <=> result[s][f] = "none"
BY SMT DEF Results, Supersede, States

\* A suggestion that was made is superseded, reviewed or opened again, and never
\* gone; only an answer makes one.
LEMMA SavedStep ==
  ASSUME TypeOK, [Next]_vars
  PROVE  Saved \subseteq Saved' /\ (Saved' = Saved \/ \E bad \in SUBSET Sources : Answer(bad))
<1>0. Documents /\ Results /\ CallData /\ Settings BY Parts
<1>f. \A s \in Sources : Fingerprint(s) \in Fingerprints BY <1>0, CurrentFingerprint
<1> DEFINE Same == \A s \in Sources, f \in Fingerprints : result'[s][f] = "none" <=> result[s][f] = "none"
<1>s. Same => Saved' = Saved BY DEF Saved
<1>1. ASSUME NEW s \in Sources, Revise(s) \/ FileByHand(s) PROVE Same
  BY <1>0, <1>1, SupersedeKeeps DEF Revise, FileByHand, ByHand
<1>2. ASSUME NEW items \in SUBSET shown, NEW apply \in BOOLEAN, Review(items, apply) PROVE Same
  <2> DEFINE files == {i[1] : i \in items}
             outcome == IF apply THEN "applied" ELSE "dismissed"
             left == IF apply THEN Supersede(files) ELSE result
  <2>1. result' = [s \in Sources |-> [f \in Fingerprints |->
                     IF <<s, f>> \in items THEN outcome ELSE left[s][f]]]
        /\ \A i \in items : result[i[1]][i[2]] = "ready"
    BY <1>2, Zenon DEF Review, Current
  <2>2. \A s \in Sources, f \in Fingerprints : left[s][f] = "none" <=> result[s][f] = "none"
    BY <1>0, SupersedeKeeps
  <2>3. outcome # "none" OBVIOUS
  <2> HIDE DEF files, outcome, left
  <2>4. \A s \in Sources, f \in Fingerprints : <<s, f>> \in items => result[s][f] = "ready"
    BY <2>1
  <2>5. \A s \in Sources, f \in Fingerprints :
          result'[s][f] = IF <<s, f>> \in items THEN outcome ELSE left[s][f]
    BY <2>1
  <2> SUFFICES ASSUME NEW s \in Sources, NEW f \in Fingerprints
               PROVE  result'[s][f] = "none" <=> result[s][f] = "none"
    OBVIOUS
  <2>6. CASE <<s, f>> \in items BY <2>3, <2>4, <2>5, <2>6
  <2>7. CASE <<s, f>> \notin items BY <2>2, <2>5, <2>7
  <2> QED BY <2>6, <2>7
<1>3. ASSUME Claim PROVE Same
  <2>1. PICK seen \in SUBSET Queued, revived \in SUBSET Queued :
          LET open  == {s \in seen : Readable(s)}
              files == {s \in open : ~Answered(s)}
          IN  /\ revived \subseteq {s \in open : MayRevive(s)}
              /\ result' = [s \in Sources |->
                   IF s \in revived THEN [result[s] EXCEPT ![Fingerprint(s)] = "ready"]
                   ELSE Supersede(files)[s]]
    BY <1>3, Zenon DEF Claim
  <2> DEFINE open == {s \in seen : Readable(s)}
             files == {s \in open : ~Answered(s)}
             kept == Supersede(files)
  <2>2. \A s \in Sources, f \in Fingerprints : kept[s][f] = "none" <=> result[s][f] = "none"
    BY <1>0, SupersedeKeeps
  <2>3. \A s \in revived : result[s][Fingerprint(s)] = "superseded" BY <2>1 DEF MayRevive
  <2>4. result' = [s \in Sources |->
          IF s \in revived THEN [result[s] EXCEPT ![Fingerprint(s)] = "ready"] ELSE kept[s]]
    BY <2>1
  <2> HIDE DEF open, files, kept
  <2> QED BY <1>0, <1>f, <2>2, <2>3, <2>4, SMT DEF Results
<1>4. ASSUME NEW bad \in SUBSET Sources, Answer(bad) PROVE Saved \subseteq Saved'
  <2> DEFINE kept == {s \in DOMAIN asked : Unchanged(s)} \ bad
  <2>1. result' = [s \in Sources |->
          IF s \in kept /\ result[s][asked[s]] = "none"
          THEN [result[s] EXCEPT ![asked[s]] = "ready"] ELSE result[s]]
    BY <1>4, Zenon DEF Answer
  <2> HIDE DEF kept
  <2>2. \A s \in Sources, f \in Fingerprints : result[s][f] # "none" => result'[s][f] # "none"
    BY <1>0, <2>1, SMT DEF Results
  <2> QED BY <2>2 DEF Saved
<1>5. ASSUME \/ AddMatter \/ Pause \/ Resume \/ Check \/ Show \/ AnswerDropped \/ CallFails \/ Chat
             \/ Stop \/ Exit \/ Launch \/ UNCHANGED vars \/ \E i \in Instructions : Enable(i)
      PROVE  Same
  <2>1. result' = result
    BY <1>5, Zenon DEF AddMatter, Pause, Resume, Check, Show, Enable, AnswerDropped, CallFails, Chat,
       Stop, Exit, Launch, vars
  <2> QED BY <2>1
<1> HIDE DEF Same
<1> QED BY <1>s, <1>1, <1>2, <1>3, <1>4, <1>5 DEF Next, User, Worker, CallReturns

LEMMA PaidStep ==
  ASSUME TypeOK, CallInv, InterruptedInv, [Next]_vars
  PROVE  [Calls!Next]_(Calls!pvars)
<1> DEFINE Same == UNCHANGED <<Wanted, Caller, CutNow, Doubtful, Saved>>
<1>0. Settings /\ Flags /\ Results BY Parts
<1>a. UNCHANGED <<mode, calling, same, interrupted>> /\ Saved' = Saved => Same
  BY DEF Wanted, Caller, CutNow, Doubtful
<1>b. Same => UNCHANGED Calls!pvars
  BY DEF Calls!pvars, Wanted, Caller, CutNow, Doubtful, Saved
<1>c. Saved' = Saved \/ \E bad \in SUBSET Sources : Answer(bad) BY SavedStep
<1> HIDE DEF Same
<1>1. ASSUME \/ \E s \in Sources : Revise(s) \/ FileByHand(s)
             \/ AddMatter \/ Show \/ Chat \/ Stop \/ UNCHANGED vars
             \/ \E items \in SUBSET shown, apply \in BOOLEAN : Review(items, apply)
      PROVE  Same
  <2>1. UNCHANGED <<mode, calling, same, interrupted>>
    BY <1>1, Zenon DEF Revise, FileByHand, AddMatter, Show, Chat, Stop, Review, vars,
                       settings, call, history
  <2>2. Saved' = Saved
    BY <1>c, <2>1, Zenon DEF Answer, CallEnds
  <2> QED BY <1>a, <2>1, <2>2
<1>2. ASSUME (\E i \in Instructions : Enable(i)) \/ Resume PROVE Calls!Ask("filing")
  <2>1. mode' = "running" /\ interrupted' = FALSE /\ same' = FALSE /\ UNCHANGED <<calling, result>>
    BY <1>2, Zenon DEF Enable, Resume, NewRevision
  <2>2. Wanted' = Wanted \union {"filing"} /\ Doubtful' = Doubtful \ {"filing"}
        /\ CutNow' = (CutNow \/ Caller = "filing") /\ Caller' = Caller /\ Saved' = Saved
    BY <2>1 DEF Wanted, Doubtful, CutNow, Caller, Saved
  <2> QED BY <2>2, Zenon DEF Calls!Ask, Wanted, Doubtful, CutNow, Caller, Saved
<1>3. ASSUME Pause PROVE Calls!Withdraw({"filing"})
  <2>1. mode' = "paused" /\ same' = FALSE /\ UNCHANGED <<calling, result, interrupted>>
    BY <1>3, Zenon DEF Pause, NewRevision, history
  <2>2. Wanted' = Wanted \ {"filing"} /\ CutNow' = (CutNow \/ Caller \in {"filing"})
        /\ UNCHANGED <<Caller, Doubtful, Saved>>
    BY <2>1 DEF Wanted, Doubtful, CutNow, Caller, Saved
  <2> QED BY <2>2, Zenon DEF Calls!Withdraw, Wanted, Doubtful, CutNow, Caller, Saved
<1>4. ASSUME Check PROVE Calls!Cut
  <2>1. same' = FALSE /\ UNCHANGED <<mode, calling, result, interrupted>>
    BY <1>4, Zenon DEF Check, NewRevision, settings, history
  <2>2. Wanted' = Wanted \ {} /\ CutNow' = (Caller # "none") /\ UNCHANGED <<Caller, Doubtful, Saved>>
    BY <2>1 DEF Wanted, Doubtful, CutNow, Caller, Saved
  <2>3. \E S \in SUBSET Wanted : Wanted' = Wanted \ S BY <2>2
  <2> QED BY <2>2, <2>3, Zenon DEF Calls!Cut, Wanted, Doubtful, CutNow, Caller, Saved
<1>5. ASSUME Claim PROVE Same \/ Calls!Call("filing")
  <2>1. app = "open" /\ ~calling /\ mode = "running" /\ UNCHANGED <<mode, interrupted>>
    BY <1>5, Zenon DEF Claim, MayCall, history
  <2>2. Saved' = Saved BY <1>c, <2>1, Zenon DEF Answer
  <2>3. ~interrupted BY <2>1, Zenon DEF InterruptedInv
  <2>4. \/ calling' = FALSE /\ same' = same
        \/ calling' = TRUE /\ same' = TRUE
    BY <1>5, Zenon DEF Claim
  <2>5. CASE calling' = FALSE
    <3>1. UNCHANGED <<Wanted, Caller, CutNow, Doubtful, Saved>>
      BY <2>1, <2>2, <2>5 DEF Wanted, Caller, CutNow, Doubtful
    <3> QED BY <3>1 DEF Same
  <2>6. CASE calling' = TRUE /\ same' = TRUE
    <3>1. Caller = "none" /\ "filing" \in Wanted /\ "filing" \notin Doubtful
          /\ Caller' = "filing" /\ UNCHANGED <<Wanted, CutNow, Doubtful, Saved>>
      BY <2>1, <2>2, <2>3, <2>6 DEF Wanted, Caller, CutNow, Doubtful
    <3> QED BY <3>1, Zenon DEF Calls!Call, Wanted, Doubtful, CutNow, Caller, Saved
  <2> QED BY <2>4, <2>5, <2>6
<1>6. ASSUME NEW bad \in SUBSET Sources, Answer(bad) PROVE \A left : left = Wanted => Calls!Return(left)
  <2>1. calling /\ calling' = FALSE /\ same /\ mode = "running" /\ UNCHANGED <<mode, interrupted>>
    BY <1>6, Zenon DEF Answer, CallEnds, history
  <2>2. Caller = "filing" /\ Caller' = "none" /\ Caller \in Wanted /\ ~CutNow /\ CutNow' = FALSE
        /\ UNCHANGED <<Wanted, Doubtful>>
    BY <2>1 DEF Wanted, Caller, CutNow, Doubtful
  <2>3. Saved \subseteq Saved' /\ Saved' \subseteq Sources \X Fingerprints BY SavedStep DEF Saved
  <2> QED BY <2>2, <2>3, Zenon DEF Calls!Return, Wanted, Doubtful, CutNow, Caller, Saved
<1>7. ASSUME AnswerDropped \/ CallFails PROVE \A left : left = Wanted' => Calls!Return(left)
  <2>1. calling /\ calling' = FALSE /\ UNCHANGED <<interrupted, result>> /\ (~same => mode' = mode)
    BY <1>7, Zenon DEF AnswerDropped, CallFails, CallEnds, history
  <2>2. Caller = "filing" /\ Caller' = "none" /\ (CutNow => Wanted' = Wanted) /\ CutNow' = FALSE
        /\ UNCHANGED <<Doubtful, Saved>>
    BY <2>1 DEF Wanted, Caller, CutNow, Doubtful, Saved
  <2>3. Saved \subseteq Sources \X Fingerprints BY DEF Saved
  <2> QED BY <2>2, <2>3, Zenon DEF Calls!Return, Wanted, Doubtful, CutNow, Caller, Saved
<1>8. ASSUME AnswerDropped \/ CallFails PROVE Wanted' \in {Wanted, Wanted \ {Caller}}
  <2>1. calling /\ mode' \in {mode, "failed"}
    BY <1>8, Zenon DEF AnswerDropped, CallFails
  <2> QED BY <2>1 DEF Wanted, Caller
<1>9. ASSUME Exit PROVE Calls!Crash
  <2>1. interrupted' = (interrupted \/ calling) /\ calling' = FALSE /\ UNCHANGED <<mode, result>>
    BY <1>9, Zenon DEF Exit, settings
  <2>2. Doubtful' = Doubtful \union ({Caller} \ {"none"}) /\ Caller' = "none" /\ CutNow' = FALSE
        /\ UNCHANGED <<Wanted, Saved>>
    BY <2>1 DEF Wanted, Caller, CutNow, Doubtful, Saved
  <2> QED BY <2>2, Zenon DEF Calls!Crash, Wanted, Doubtful, CutNow, Caller, Saved
<1>10. ASSUME Launch PROVE Same \/ Calls!Withdraw({"filing"})
  <2>1. ~calling /\ mode' \in {mode, "paused"} /\ UNCHANGED <<calling, same, interrupted, result>>
    BY <1>10, Zenon DEF Launch, CallInv, call, history
  <2>2. UNCHANGED <<Caller, CutNow, Doubtful, Saved>> /\ ~CutNow /\ Caller = "none"
    BY <2>1 DEF Caller, CutNow, Doubtful, Saved
  <2>3. Wanted' = Wanted \/ Wanted' = Wanted \ {"filing"} BY <2>1 DEF Wanted
  <2>4. CASE Wanted' = Wanted BY <2>2, <2>4 DEF Same
  <2>5. CASE Wanted' = Wanted \ {"filing"}
    <3>1. CutNow' = (CutNow \/ Caller \in {"filing"}) BY <2>1 DEF CutNow, Caller
    <3> QED BY <2>2, <2>5, <3>1, Zenon DEF Calls!Withdraw, Wanted, Doubtful, CutNow, Caller, Saved
  <2> QED BY <2>3, <2>4, <2>5
<1> QED
  <2>1. (\E i \in Instructions : Enable(i)) \/ Resume \/ Pause \/ Launch => [Calls!Next]_(Calls!pvars)
    <3>1. {"filing"} \in SUBSET {"filing"} /\ "filing" \in {"filing"} OBVIOUS
    <3> QED BY <1>b, <1>2, <1>3, <1>10, <3>1, Zenon DEF Calls!Next
  <2>2. Claim \/ Check \/ Exit => [Calls!Next]_(Calls!pvars)
    <3>1. "filing" \in {"filing"} OBVIOUS
    <3> QED BY <1>b, <1>4, <1>5, <1>9, <3>1, Zenon DEF Calls!Next
  <2>3. CallReturns => [Calls!Next]_(Calls!pvars)
    <3>1. ASSUME CallReturns
          PROVE  \E left \in {Wanted, Wanted \ {Caller}} : Calls!Return(left)
      BY <1>6, <1>7, <1>8, <3>1 DEF CallReturns
    <3> QED BY <3>1, Zenon DEF Calls!Next, Wanted, Caller
  <2> QED BY <1>b, <1>1, <2>1, <2>2, <2>3 DEF Next, User, Worker

\* Background filing calls the model as PaidCalls allows.
THEOREM FilingImplementsCalls == Spec => ImplementsPaidCalls
<1>1. ASSUME Init PROVE Calls!Init
  <2>1. mode = "off" /\ ~calling /\ interrupted = FALSE BY <1>1, Zenon DEF Init
  <2>2. Wanted = {} /\ Caller = "none" /\ CutNow = FALSE /\ Doubtful = {}
        /\ Saved \subseteq Sources \X Fingerprints
    BY <2>1 DEF Wanted, Caller, CutNow, Doubtful, Saved
  <2> QED BY <2>2, Zenon DEF Calls!Init, Wanted, Doubtful, CutNow, Caller, Saved
<1> QED
  BY <1>1, PaidStep, FilingInit, CallStep, InterruptedStep, FilingTypeCorrect, PTL
     DEF Spec, ImplementsPaidCalls, Calls!Spec
=============================================================================
