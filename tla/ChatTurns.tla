------------------------------ MODULE ChatTurns ------------------------------
(***************************************************************************)
(* Chat responses:                                                         *)
(*   runtime/src/workspace/chat.ts            slots, runs, cancel, stop    *)
(*   runtime/src/workspace/conversations.ts   durable turns, recovery      *)
(*   runtime/src/workspace/conversation-lifecycle.ts  archive and trash    *)
(*                                                                         *)
(* A send inserts a running turn and a cancellation slot, then an async    *)
(* run streams the provider's answer into it.  The run yields at each      *)
(* await, so Stop, other sends and the deadline come between any two of    *)
(* its events.  Its try block ends in three ways: the completion           *)
(* transaction, an exception, or nothing at all if the provider hangs.     *)
(* Leaving the for-await loop waits for the provider to close; only then   *)
(* does finally { } free the slot: pc is "closing" until it has.           *)
(*                                                                         *)
(* Turns are SQLite rows, slots and turn objects live in memory.           *)
(***************************************************************************)
EXTENDS Naturals, FiniteSets

CONSTANTS
  Sends,       \* client ids of messages
  Conversations,
  ConvOf,      \* where a message is sent
  MaxActive,   \* responses under way at once (4 in the code)
  MaxText      \* bound: pieces of text one answer has

ASSUME ChatAssumption ==
  /\ IsFiniteSet(Sends) /\ ConvOf \in [Sends -> Conversations]
  /\ MaxActive \in Nat \ {0} /\ MaxText \in Nat \ {0}

VARIABLES
  turn,     \* conversation_turns.status, "none" without a row
  text,     \* pieces of the answer in the row
  work,     \* turns with a work record
  life,     \* conversation_lifecycle.state
  slot,     \* the active map's keys
  object,   \* status of the slot's turn object
  heard,    \* pieces of the answer in the turn object
  aborted,  \* the slot's signal or the run's deadline fired
  pc,       \* where a slot's run is: begin, await, closing
  up, stopping

durable == <<turn, text, work>>
memory  == <<slot, object, heard, aborted, pc>>
vars    == <<durable, life, memory, up, stopping>>

In(c) == {s \in Sends : ConvOf[s] = c}
Ended == {"complete", "failed", "cancelled", "interrupted"}

-----------------------------------------------------------------------------
\* Requests

\* A repeated send resolves to the turn it began.
IsNew(s) == turn[s] = "none"
\* DEFECT: only archived conversations are refused.
NotArchived(s) == life[ConvOf[s]] # "archived"
Open(s) == life[ConvOf[s]] = "active"
HasRoom == Cardinality(slot) < MaxActive
\* DEFECT: a running turn of the conversation is not looked for.
NeverBusy(c) == FALSE
Busy(c) == \E s \in In(c) : turn[s] = "running"

\* start() and begin(): one synchronous stretch.  Requests whose body was read
\* before stop() are still served.
Start(s) ==
  /\ up
  /\ IsNew(s) /\ HasRoom /\ Open(s) /\ ~Busy(ConvOf[s])
  /\ turn' = [turn EXCEPT ![s] = "running"]
  /\ slot' = slot \union {s}
  /\ object' = [object EXCEPT ![s] = "running"]
  /\ heard' = [heard EXCEPT ![s] = 0]
  /\ aborted' = [aborted EXCEPT ![s] = FALSE]
  /\ pc' = [pc EXCEPT ![s] = "begin"]
  /\ UNCHANGED <<text, work, life, up, stopping>>

\* save(): only a running row takes a new state.
Save(s, status) ==
  /\ turn[s] = "running"
  /\ turn' = [turn EXCEPT ![s] = status]
  /\ text' = [text EXCEPT ![s] = heard[s]]

\* finishIncomplete(): the first outcome stays.
FinishIncomplete(s, status) ==
  IF object[s] = "running"
  THEN Save(s, status) /\ object' = [object EXCEPT ![s] = status]
  ELSE UNCHANGED <<turn, text, object>>

\* The user stops a response.
Cancel(s) ==
  /\ up /\ s \in slot /\ turn[s] = "running"
  /\ aborted' = [aborted EXCEPT ![s] = TRUE]
  /\ FinishIncomplete(s, "cancelled")
  /\ UNCHANGED <<work, life, slot, heard, pc, up, stopping>>

\* changeConversation(): refused while a response runs.  Requests carry the
\* current version, one that is out of date is refused.
ChangeConversation(c, state) ==
  /\ up /\ ~Busy(c)
  /\ life[c] = "trashed" => state # "archived"
  /\ life' = [life EXCEPT ![c] = state]
  /\ UNCHANGED <<durable, memory, up, stopping>>

-----------------------------------------------------------------------------
\* run()

\* The deferred task starts: the context is put together and saved.
RunBegins(s) ==
  /\ up /\ s \in slot /\ pc[s] = "begin" /\ ~aborted[s]
  /\ Save(s, "running")
  /\ pc' = [pc EXCEPT ![s] = "await"]
  /\ UNCHANGED <<work, life, slot, object, heard, aborted, up, stopping>>

\* An event, a tool's result or the recall plan arrives: text is added to the
\* turn object and, every 150 ms, saved.
Progress(s, more, saved) ==
  /\ up /\ s \in slot /\ pc[s] = "await" /\ ~aborted[s]
  /\ heard[s] + more <= MaxText
  /\ heard' = [heard EXCEPT ![s] = @ + more]
  /\ IF saved THEN /\ turn[s] = "running"
                   /\ text' = [text EXCEPT ![s] = heard[s] + more]
              ELSE UNCHANGED text
  /\ UNCHANGED <<turn, work, life, slot, object, aborted, pc, up, stopping>>

\* The answer is done: work, proposals and the completed turn are one
\* transaction; the turn object follows it.
\* DEFECT: the work is recorded first, on its own.
CompletesInTwo(s) ==
  /\ up /\ s \in slot /\ pc[s] = "await" /\ heard[s] > 0
  /\ work' = work \union {s}
  /\ IF turn[s] = "running" THEN Save(s, "complete") ELSE UNCHANGED <<turn, text>>
  /\ object' = [object EXCEPT ![s] = turn'[s]]
  /\ pc' = [pc EXCEPT ![s] = "closing"]
  /\ UNCHANGED <<life, slot, heard, aborted, up, stopping>>
Completes(s) ==
  /\ up /\ s \in slot /\ pc[s] = "await" /\ ~aborted[s]
  /\ heard[s] > 0
  /\ Save(s, "complete")
  /\ work' = work \union {s}
  /\ object' = [object EXCEPT ![s] = "complete"]
  /\ pc' = [pc EXCEPT ![s] = "closing"]
  /\ UNCHANGED <<life, slot, heard, aborted, up, stopping>>

\* An abort noticed, an error event, an empty or oversized answer, a
\* transaction rolled back, a provider that throws: catch { }.
Fails(s) ==
  /\ up /\ s \in slot /\ pc[s] \in {"begin", "await"}
  /\ FinishIncomplete(s, "failed")
  /\ pc' = [pc EXCEPT ![s] = "closing"]
  /\ UNCHANGED <<work, life, slot, heard, aborted, up, stopping>>

\* The run's promise settled: finally { active.delete }.
FreeSlot(s) ==
  /\ up /\ s \in slot /\ pc[s] = "closing"
  /\ slot' = slot \ {s}
  /\ UNCHANGED <<durable, life, object, heard, aborted, pc, up, stopping>>

\* Five minutes after the run began.
\* DEFECT: the deadline starts with the first event.
DeadlineOnceHeard(s) ==
  /\ up /\ s \in slot /\ pc[s] = "await" /\ heard[s] > 0 /\ ~aborted[s]
  /\ aborted' = [aborted EXCEPT ![s] = TRUE]
  /\ UNCHANGED <<durable, life, slot, object, heard, pc, up, stopping>>
Deadline(s) ==
  /\ up /\ s \in slot /\ pc[s] = "await" /\ ~aborted[s]
  /\ aborted' = [aborted EXCEPT ![s] = TRUE]
  /\ UNCHANGED <<durable, life, slot, object, heard, pc, up, stopping>>

-----------------------------------------------------------------------------
\* The process

\* stop(): every response under way is aborted, the unfinished are interrupted.
Stop ==
  LET cut == {s \in slot : object[s] = "running"} IN
  /\ up /\ ~stopping
  /\ stopping' = TRUE
  /\ aborted' = [s \in Sends |-> s \in slot \/ aborted[s]]
  /\ turn' = [s \in Sends |-> IF s \in cut THEN "interrupted" ELSE turn[s]]
  /\ text' = [s \in Sends |-> IF s \in cut THEN heard[s] ELSE text[s]]
  /\ object' = [s \in Sends |-> IF s \in cut THEN "interrupted" ELSE object[s]]
  /\ UNCHANGED <<work, life, slot, heard, pc, up>>

\* The process ends, five seconds after stop() or without one.
Exit ==
  /\ up
  /\ up' = FALSE /\ stopping' = FALSE
  /\ slot' = {}
  /\ object' = [s \in Sends |-> "none"] /\ heard' = [s \in Sends |-> 0]
  /\ aborted' = [s \in Sends |-> FALSE] /\ pc' = [s \in Sends |-> "begin"]
  /\ UNCHANGED <<durable, life>>

\* recover(), before the first request is served.
\* DEFECT: turns the last process left running stay so.
LaunchAsIs ==
  /\ ~up /\ up' = TRUE
  /\ UNCHANGED <<durable, life, memory, stopping>>
Launch ==
  /\ ~up /\ up' = TRUE
  /\ turn' = [s \in Sends |-> IF turn[s] = "running" THEN "interrupted" ELSE turn[s]]
  /\ UNCHANGED <<text, work, life, memory, stopping>>

-----------------------------------------------------------------------------
Init ==
  /\ turn = [s \in Sends |-> "none"] /\ text = [s \in Sends |-> 0] /\ work = {}
  /\ life = [c \in Conversations |-> "active"]
  /\ slot = {} /\ object = [s \in Sends |-> "none"] /\ heard = [s \in Sends |-> 0]
  /\ aborted = [s \in Sends |-> FALSE] /\ pc = [s \in Sends |-> "begin"]
  /\ up = TRUE /\ stopping = FALSE

Request ==
  \/ \E s \in Sends : Start(s) \/ Cancel(s)
  \/ \E c \in Conversations, state \in {"active", "archived", "trashed"} :
       ChangeConversation(c, state)

Run ==
  \E s \in Sends :
    \/ RunBegins(s) \/ Completes(s) \/ Fails(s) \/ FreeSlot(s) \/ Deadline(s)
    \/ \E more \in 0..1, saved \in BOOLEAN : Progress(s, more, saved)

Next == Request \/ Run \/ Stop \/ Exit \/ Launch

Spec == Init /\ [][Next]_vars

\* Timers fire, microtasks run, and a provider whose signal is aborted ends its
\* stream and closes; nothing else is promised of a provider.
FairSpec ==
  /\ Spec
  /\ \A s \in Sends :
       /\ WF_vars(RunBegins(s)) /\ WF_vars(Deadline(s)) /\ WF_vars(FreeSlot(s))
       /\ WF_vars(aborted[s] /\ Fails(s))
-----------------------------------------------------------------------------
TypeOK ==
  /\ turn \in [Sends -> Ended \union {"none", "running"}]
  /\ text \in [Sends -> 0..MaxText] /\ work \subseteq Sends
  /\ life \in [Conversations -> {"active", "archived", "trashed"}]
  /\ slot \subseteq Sends
  /\ object \in [Sends -> Ended \union {"none", "running"}]
  /\ heard \in [Sends -> 0..MaxText]
  /\ aborted \in [Sends -> BOOLEAN] /\ pc \in [Sends -> {"begin", "await", "closing"}]
  /\ up \in BOOLEAN /\ stopping \in BOOLEAN

\* While the application is open a running turn has a slot, so that it can be
\* stopped, and the slot's turn object tells its outcome: neither a lost slot
\* nor a crash leaves a conversation working for ever.
RunningTurnsAreOwned ==
  up => /\ \A s \in Sends : turn[s] = "running" => s \in slot /\ pc[s] # "closing"
        /\ \A s \in slot : object[s] = turn[s]

\* No more than MaxActive provider runs exist at a time, those already stopped
\* whose provider has not closed yet included.
RunsAreBounded == Cardinality(slot) <= MaxActive

\* A conversation that was archived or moved to the trash does not work on a
\* response, and none begins before it is restored.
PutAwayConversationsAreIdle ==
  \A c \in Conversations : life[c] # "active" => ~Busy(c)

\* A response never changes once it ended: no late text, result, deadline,
\* repeated send or recovery reaches a stopped or completed turn.
EndedTurnsAreFinal ==
  [][\A s \in Sends : turn[s] \in Ended => turn'[s] = turn[s] /\ text'[s] = text[s]]_vars

\* One response at a time per conversation, each ends once, and work is
\* recorded exactly with a completion ("no completed work or knowledge was
\* saved", chat.ts:205).
Contract == INSTANCE TurnContract WITH turn <- turn, work <- work
ImplementsContract == Contract!Spec

\* Every response frees its slot, and has ended by then: after five minutes at
\* the latest, even with a provider that never answers by itself.
SlotsAreFreed ==
  \A s \in Sends : s \in slot ~> s \notin slot /\ (up => turn[s] # "running")
=============================================================================
