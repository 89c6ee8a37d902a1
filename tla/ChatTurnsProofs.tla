---------------------------- MODULE ChatTurnsProofs ----------------------------
(***************************************************************************)
(* Proofs about ChatTurns, for any messages, conversations and number of   *)
(* slots.                                                                  *)
(***************************************************************************)
EXTENDS ChatTurns, FiniteSetTheorems, TLAPS

\* A closed application has no slots: what Launch starts from.
ClosedIsEmpty == ~up => slot = {}

\* The inductive invariant.  RunningTurnsAreOwned makes Stop and the run write
\* to running rows only; ClosedIsEmpty carries it over a restart.
TurnInv == TypeOK /\ RunningTurnsAreOwned /\ ClosedIsEmpty

LEMMA ConstantFacts == MaxText \in Nat /\ 0 \in 0..MaxText
BY ChatAssumption

\* The invariant holds before the first message.
LEMMA InitTurn == Init => TurnInv
<1> SUFFICES ASSUME Init PROVE TurnInv OBVIOUS
<1>1. TypeOK
  <2>1. turn \in [Sends -> Ended \union {"none", "running"}] BY SMT DEF Init, Ended
  <2>2. text \in [Sends -> 0..MaxText] /\ heard \in [Sends -> 0..MaxText]
    BY ConstantFacts, SMT DEF Init
  <2>3. life \in [Conversations -> {"active", "archived", "trashed"}] BY SMT DEF Init
  <2>4. object \in [Sends -> Ended \union {"none", "running"}] BY SMT DEF Init, Ended
  <2>5. aborted \in [Sends -> BOOLEAN] BY Zenon DEF Init
  <2>6. pc \in [Sends -> {"begin", "await", "closing"}] BY SMT DEF Init
  <2>7. work \subseteq Sends /\ slot \subseteq Sends /\ up \in BOOLEAN /\ stopping \in BOOLEAN
    BY Zenon DEF Init
  <2> QED BY <2>1, <2>2, <2>3, <2>4, <2>5, <2>6, <2>7, Zenon DEF TypeOK
<1>2. RunningTurnsAreOwned /\ ClosedIsEmpty
  BY SMT DEF Init, RunningTurnsAreOwned, ClosedIsEmpty
<1> QED BY <1>1, <1>2 DEF TurnInv

\* It is preserved by what a request does.
LEMMA RequestStep == ASSUME TurnInv, Request PROVE TurnInv'
<1> USE DEF TurnInv, TypeOK, RunningTurnsAreOwned, ClosedIsEmpty, Ended, durable, memory
<1>1. ASSUME NEW s \in Sends, Start(s) PROVE TurnInv'
  BY <1>1, ConstantFacts, SMT DEF Start, IsNew
<1>2. ASSUME NEW s \in Sends, Cancel(s) PROVE TurnInv'
  BY <1>2, ConstantFacts, SMT DEF Cancel, FinishIncomplete, Save
<1>3. ASSUME NEW c \in Conversations, NEW state \in {"active", "archived", "trashed"},
             ChangeConversation(c, state)
      PROVE TurnInv'
  BY <1>3, ConstantFacts, SMT DEF ChangeConversation
<1> QED BY <1>1, <1>2, <1>3 DEF Request

\* It is preserved by every step of a run.
LEMMA RunStep == ASSUME TurnInv, Run PROVE TurnInv'
<1> USE DEF TurnInv, TypeOK, RunningTurnsAreOwned, ClosedIsEmpty, Ended, durable, memory
<1>1. ASSUME NEW s \in Sends, RunBegins(s) PROVE TurnInv'
  BY <1>1, ConstantFacts, SMT DEF RunBegins, Save
<1>2. ASSUME NEW s \in Sends, Completes(s) PROVE TurnInv'
  BY <1>2, ConstantFacts, SMT DEF Completes, Save
<1>3. ASSUME NEW s \in Sends, Fails(s) PROVE TurnInv'
  BY <1>3, ConstantFacts, SMT DEF Fails, FinishIncomplete, Save
<1>4. ASSUME NEW s \in Sends, FreeSlot(s) PROVE TurnInv'
  BY <1>4, ConstantFacts, SMT DEF FreeSlot
<1>5. ASSUME NEW s \in Sends, Deadline(s) PROVE TurnInv'
  BY <1>5, ConstantFacts, SMT DEF Deadline
<1>6. ASSUME NEW s \in Sends, NEW more \in 0..1, NEW saved \in BOOLEAN, Progress(s, more, saved)
      PROVE TurnInv'
  BY <1>6, ConstantFacts, SMT DEF Progress
<1> QED BY <1>1, <1>2, <1>3, <1>4, <1>5, <1>6 DEF Run

\* It is preserved by the process's steps.
LEMMA ProcessStep == ASSUME TurnInv, Stop \/ Exit \/ Launch PROVE TurnInv'
<1> USE DEF TurnInv, TypeOK, RunningTurnsAreOwned, ClosedIsEmpty, Ended, durable, memory
<1>1. CASE Stop BY <1>1, ConstantFacts, SMT DEF Stop
<1>2. CASE Exit
  <2>1. heard' \in [Sends -> 0..MaxText] BY <1>2, ConstantFacts, SMT DEF Exit
  <2>2. aborted' \in [Sends -> BOOLEAN] BY <1>2, Zenon DEF Exit
  <2>3. pc' \in [Sends -> {"begin", "await", "closing"}] BY <1>2, SMT DEF Exit
  <2>4. object' \in [Sends -> Ended \union {"none", "running"}] BY <1>2, SMT DEF Exit
  <2>5. /\ turn' \in [Sends -> Ended \union {"none", "running"}] /\ text' \in [Sends -> 0..MaxText]
        /\ work' \subseteq Sends /\ life' \in [Conversations -> {"active", "archived", "trashed"}]
    BY <1>2, SMT DEF Exit
  <2>6. slot' = {} /\ ~up' /\ slot' \subseteq Sends /\ up' \in BOOLEAN /\ stopping' \in BOOLEAN
    BY <1>2, Zenon DEF Exit
  <2> QED BY <2>1, <2>2, <2>3, <2>4, <2>5, <2>6, Zenon
<1>3. CASE Launch BY <1>3, ConstantFacts, SMT DEF Launch
<1> QED BY <1>1, <1>2, <1>3

\* The inductive invariant holds in every reachable state.
THEOREM TurnsAlways == Spec => []TurnInv
<1>1. ASSUME TurnInv, UNCHANGED vars PROVE TurnInv'
  BY <1>1 DEF TurnInv, TypeOK, RunningTurnsAreOwned, ClosedIsEmpty, vars, durable, memory
<1>2. TurnInv /\ [Next]_vars => TurnInv'
  BY <1>1, RequestStep, RunStep, ProcessStep DEF Next
<1> QED BY InitTurn, <1>2, PTL DEF Spec

\* chat.ts: every reachable state has its types.
THEOREM TurnsTypeCorrect == Spec => []TypeOK
<1>1. TurnInv => TypeOK BY DEF TurnInv
<1> QED BY <1>1, TurnsAlways, PTL

\* chat.ts, cancel(): a running turn of an open application has the slot that
\* cancel() and stop() need, and the slot's object tells the row's status.
THEOREM RunningOwned == Spec => []RunningTurnsAreOwned
<1>1. TurnInv => RunningTurnsAreOwned BY DEF TurnInv
<1> QED BY <1>1, TurnsAlways, PTL

-----------------------------------------------------------------------------
\* Only start() adds a slot, and it looks for room first.
LEMMA SlotsGrow ==
  ASSUME [Next]_vars
  PROVE  \/ slot' \subseteq slot
         \/ \E s \in Sends : HasRoom /\ slot' = slot \union {s}
<1>1. CASE UNCHANGED vars BY <1>1, Zenon DEF vars, memory
<1>2. ASSUME NEW s \in Sends, Start(s) PROVE HasRoom /\ slot' = slot \union {s}
  BY <1>2, Zenon DEF Start
<1>3. ASSUME NEW s \in Sends,
             Cancel(s) \/ RunBegins(s) \/ Completes(s) \/ Fails(s) \/ FreeSlot(s) \/ Deadline(s)
               \/ \E more \in 0..1, saved \in BOOLEAN : Progress(s, more, saved)
      PROVE slot' \subseteq slot
  BY <1>3, SMT DEF Cancel, RunBegins, Completes, Fails, FreeSlot, Deadline, Progress
<1>4. CASE Stop \/ Exit \/ Launch
  BY <1>4, SMT DEF Stop, Exit, Launch, memory
<1>5. ASSUME NEW c \in Conversations, NEW state \in {"active", "archived", "trashed"},
             ChangeConversation(c, state)
      PROVE slot' \subseteq slot
  BY <1>5, Zenon DEF ChangeConversation, memory
<1> QED BY <1>1, <1>2, <1>3, <1>4, <1>5, Zenon DEF Next, Request, Run

\* chat.ts, start(): with any number of messages no more than MaxActive runs
\* are under way.
THEOREM RunsBounded == Spec => []RunsAreBounded
<1>1. Init => RunsAreBounded
  BY FS_EmptySet, ChatAssumption, SMT DEF Init, RunsAreBounded
<1>2. TurnInv /\ RunsAreBounded /\ [Next]_vars => RunsAreBounded'
  <2> SUFFICES ASSUME TurnInv, RunsAreBounded, [Next]_vars PROVE RunsAreBounded'
    OBVIOUS
  <2>1. IsFiniteSet(slot) BY FS_Subset, ChatAssumption DEF TurnInv, TypeOK
  <2>2. Cardinality(slot) \in Nat BY <2>1, FS_CardinalityType
  <2>3. CASE slot' \subseteq slot
    <3>1. Cardinality(slot') <= Cardinality(slot) /\ IsFiniteSet(slot')
      BY <2>1, <2>3, FS_Subset
    <3>2. Cardinality(slot') \in Nat BY <3>1, FS_CardinalityType
    <3> QED BY <2>2, <3>1, <3>2, ChatAssumption, SMT DEF RunsAreBounded
  <2>4. ASSUME NEW s \in Sends, HasRoom, slot' = slot \union {s} PROVE RunsAreBounded'
    <3>1. Cardinality(slot') = IF s \in slot THEN Cardinality(slot) ELSE Cardinality(slot) + 1
      BY <2>1, <2>4, FS_AddElement
    <3> QED BY <2>2, <2>4, <3>1, ChatAssumption, SMT DEF RunsAreBounded, HasRoom
  <2> QED BY <2>3, <2>4, SlotsGrow
<1> QED BY <1>1, <1>2, TurnsAlways, PTL DEF Spec

-----------------------------------------------------------------------------
\* What every step does to the durable turns is a step of the contract.
LEMMA ContractStep ==
  ASSUME TurnInv, [Next]_vars
  PROVE  [Contract!Next]_(Contract!cvars)
<1> USE DEF Contract!cvars
<1>1. CASE UNCHANGED vars BY <1>1, Zenon DEF vars, durable
<1>2. ASSUME NEW s \in Sends, Start(s) PROVE Contract!Begin(s)
  BY <1>2, SMT DEF Start, IsNew, Busy, In, Contract!Begin
<1>3. ASSUME NEW s \in Sends, Completes(s) PROVE Contract!Complete(s)
  BY <1>3, SMT DEF Completes, Save, Contract!Complete
<1>4. ASSUME NEW s \in Sends, Cancel(s) \/ Fails(s)
      PROVE UNCHANGED <<turn, work>>
            \/ \E outcome \in Contract!Incomplete : Contract!End({s}, outcome)
  BY <1>4, SMT DEF Cancel, Fails, FinishIncomplete, Save, Contract!End, Contract!Incomplete,
       TurnInv, TypeOK
<1>5. ASSUME NEW s \in Sends,
             RunBegins(s) \/ FreeSlot(s) \/ Deadline(s)
               \/ \E more \in 0..1, saved \in BOOLEAN : Progress(s, more, saved)
      PROVE UNCHANGED <<turn, work>>
  BY <1>5, SMT DEF RunBegins, Save, FreeSlot, Deadline, Progress, durable, TurnInv, TypeOK
<1>6. ASSUME NEW c \in Conversations, NEW state \in {"active", "archived", "trashed"},
             ChangeConversation(c, state)
      PROVE UNCHANGED <<turn, work>>
  BY <1>6, Zenon DEF ChangeConversation, durable
<1>7. CASE Exit BY <1>7, Zenon DEF Exit, durable
<1>8. CASE Stop \/ Launch
  <2> DEFINE cut == IF Stop THEN {s \in slot : object[s] = "running"}
                            ELSE {s \in Sends : turn[s] = "running"}
  <2>1. Contract!End(cut, "interrupted")
    BY <1>8, SMT DEF Stop, Launch, Contract!End, TurnInv, TypeOK, RunningTurnsAreOwned
  <2>2. cut = {} => UNCHANGED <<turn, work>>
    BY <2>1, SMT DEF Contract!End, TurnInv, TypeOK
  <2>3. cut \subseteq Sends BY SMT DEF TurnInv, TypeOK
  <2> QED BY <2>1, <2>2, <2>3, Zenon DEF Contract!Next, Contract!Incomplete
<1> QED
  <2>1. ASSUME NEW s \in Sends PROVE {s} \in (SUBSET Sends) \ {{}} BY SMT
  <2> QED BY <1>1, <1>2, <1>3, <1>4, <1>5, <1>6, <1>7, <1>8, <2>1, Zenon
            DEF Next, Request, Run, Contract!Next

\* ChatTurns implements TurnContract: one response per send and one at a time
\* per conversation, each ends once, work is recorded only with a completion.
THEOREM TurnsImplementContract == Spec => ImplementsContract
<1>1. Init => Contract!Init BY DEF Init, Contract!Init
<1> QED BY <1>1, ContractStep, TurnsAlways, PTL DEF Spec, ImplementsContract, Contract!Spec

-----------------------------------------------------------------------------
\* conversation-lifecycle.ts, changeConversation(): no response runs in a
\* conversation that is archived or in the trash.
THEOREM PutAwayIdle == Spec => []PutAwayConversationsAreIdle
<1>1. Init => PutAwayConversationsAreIdle
  BY SMT DEF Init, PutAwayConversationsAreIdle, Busy, In
<1>2. TurnInv /\ PutAwayConversationsAreIdle /\ [Next]_vars => PutAwayConversationsAreIdle'
  <2> SUFFICES ASSUME TurnInv, PutAwayConversationsAreIdle, [Next]_vars
               PROVE PutAwayConversationsAreIdle'
    OBVIOUS
  <2> USE DEF PutAwayConversationsAreIdle, Busy, In, TurnInv, TypeOK
  <2>1. ASSUME NEW s \in Sends, Start(s) PROVE PutAwayConversationsAreIdle'
    BY <2>1, SMT DEF Start, Open
  <2>2. ASSUME NEW c \in Conversations, NEW state \in {"active", "archived", "trashed"},
               ChangeConversation(c, state)
        PROVE PutAwayConversationsAreIdle'
    BY <2>2, SMT DEF ChangeConversation, durable
  <2>3. ASSUME life' = life, \A s \in Sends : turn'[s] = "running" => turn[s] = "running"
        PROVE PutAwayConversationsAreIdle'
    BY <2>3, SMT
  <2>4. ASSUME NEW s \in Sends,
               Cancel(s) \/ RunBegins(s) \/ Completes(s) \/ Fails(s) \/ FreeSlot(s) \/ Deadline(s)
                 \/ \E more \in 0..1, saved \in BOOLEAN : Progress(s, more, saved)
        PROVE life' = life /\ \A r \in Sends : turn'[r] = "running" => turn[r] = "running"
    BY <2>4, SMT DEF Cancel, FinishIncomplete, Save, RunBegins, Completes, Fails, FreeSlot,
         Deadline, Progress, durable
  <2>5. CASE Stop \/ Exit \/ Launch \/ UNCHANGED vars
    <3>1. life' = life /\ \A r \in Sends : turn'[r] = "running" => turn[r] = "running"
      BY <2>5, SMT DEF Stop, Exit, Launch, vars, durable
    <3> QED BY <3>1, <2>3
  <2> QED BY <2>1, <2>2, <2>3, <2>4, <2>5, Zenon DEF Next, Request, Run
<1> QED BY <1>1, <1>2, TurnsAlways, PTL DEF Spec

\* conversations.ts, save(): once ended, neither status nor answer change.
THEOREM EndedFinal == Spec => EndedTurnsAreFinal
<1> DEFINE Kept == \A s \in Sends : turn[s] \in Ended => turn'[s] = turn[s] /\ text'[s] = text[s]
<1>1. TurnInv /\ [Next]_vars => [Kept]_vars
  <2> SUFFICES ASSUME TurnInv, Next PROVE Kept OBVIOUS
  <2> USE DEF TurnInv, TypeOK, Ended
  <2>1. ASSUME NEW s \in Sends,
               Start(s) \/ Cancel(s) \/ RunBegins(s) \/ Completes(s) \/ Fails(s) \/ FreeSlot(s)
                 \/ Deadline(s) \/ \E more \in 0..1, saved \in BOOLEAN : Progress(s, more, saved)
        PROVE Kept
    BY <2>1, SMT DEF Start, IsNew, Cancel, FinishIncomplete, Save, RunBegins, Completes, Fails,
         FreeSlot, Deadline, Progress, durable
  <2>2. ASSUME NEW c \in Conversations, NEW state \in {"active", "archived", "trashed"},
               ChangeConversation(c, state)
        PROVE Kept
    BY <2>2, SMT DEF ChangeConversation, durable
  <2>3. CASE Stop BY <2>3, SMT DEF Stop, RunningTurnsAreOwned
  <2>4. CASE Exit \/ Launch BY <2>4, SMT DEF Exit, Launch, durable
  <2> HIDE DEF Kept
  <2> QED BY <2>1, <2>2, <2>3, <2>4, Zenon DEF Next, Request, Run
<1> QED BY <1>1, TurnsAlways, PTL DEF Spec, EndedTurnsAreFinal
=============================================================================
