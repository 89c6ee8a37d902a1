----------------------------- MODULE TurnContract -----------------------------
(***************************************************************************)
(* What a chat response promises, whatever runs it: a send begins one      *)
(* response, a conversation works on one response at a time, a response    *)
(* ends once, and completed work is recorded together with its completion  *)
(* or not at all.  ChatTurns implements it.                                *)
(*   runtime/src/workspace/conversations.ts, begin() and save()            *)
(***************************************************************************)
CONSTANTS
  Sends,   \* client ids of the messages sent
  ConvOf   \* the conversation a message is sent in

VARIABLES
  turn,    \* status of the response to a send
  work     \* sends whose response was recorded as completed work

cvars == <<turn, work>>

Incomplete == {"failed", "cancelled", "interrupted"}

Begin(s) ==
  /\ turn[s] = "none"
  /\ \A r \in Sends : ConvOf[r] = ConvOf[s] => turn[r] # "running"
  /\ turn' = [turn EXCEPT ![s] = "running"]
  /\ UNCHANGED work

Complete(s) ==
  /\ turn[s] = "running"
  /\ turn' = [turn EXCEPT ![s] = "complete"]
  /\ work' = work \union {s}

\* One response, or all of those under way, end without an answer.
End(ended, outcome) ==
  /\ \A s \in ended : turn[s] = "running"
  /\ turn' = [s \in Sends |-> IF s \in ended THEN outcome ELSE turn[s]]
  /\ UNCHANGED work

Init == turn = [s \in Sends |-> "none"] /\ work = {}

Next ==
  \/ \E s \in Sends : Begin(s) \/ Complete(s)
  \/ \E ended \in (SUBSET Sends) \ {{}}, outcome \in Incomplete : End(ended, outcome)

Spec == Init /\ [][Next]_cvars
=============================================================================
