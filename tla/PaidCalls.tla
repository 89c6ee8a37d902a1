------------------------------- MODULE PaidCalls -------------------------------
(***************************************************************************)
(* What the calls of a paid model promise the user, whoever makes them: an *)
(* organization job of an import, or background filing.                    *)
(*   runtime/src/workspace/import-organization-jobs.ts, -worker.ts         *)
(*   runtime/src/workspace/auto-filing.ts, auto-filing-worker.ts           *)
(*                                                                         *)
(* One call at a time, made only for who is asked to run.  A call may      *)
(* outlive that wish; then neither its answer nor its failure counts.  A   *)
(* call that the process did not survive may have been paid for, and is    *)
(* not made again before the user asks.                                    *)
(*                                                                         *)
(* ImportOrganization and AutoFiling both implement this module.           *)
(***************************************************************************)
CONSTANTS
  Callers,  \* who calls are made for: the jobs, or filing
  Answers,  \* what the model may answer
  None      \* no caller

VARIABLES
  wanted,   \* callers that the user lets run
  calling,  \* the caller whose call is in flight, or None
  cut,      \* its wish was touched since the call began
  doubtful, \* callers whose last call the process did not survive
  retained  \* answers that were saved

pvars == <<wanted, calling, cut, doubtful, retained>>

\* The user starts or resumes a caller; what its call was for is over.
Ask(c) ==
  /\ wanted' = wanted \union {c} /\ doubtful' = doubtful \ {c}
  /\ cut' = (cut \/ calling = c)
  /\ UNCHANGED <<calling, retained>>

\* Callers are paused, or they end by themselves.
Withdraw(S) ==
  /\ wanted' = wanted \ S
  /\ cut' = (cut \/ calling \in S)
  /\ UNCHANGED <<calling, doubtful, retained>>

\* Something happens to the call itself: the user changes what he asks for, or
\* the application is told to stop.
Cut ==
  /\ \E S \in SUBSET wanted : wanted' = wanted \ S
  /\ cut' = (calling # None)
  /\ UNCHANGED <<calling, doubtful, retained>>

Call(c) ==
  /\ calling = None /\ c \in wanted /\ c \notin doubtful
  /\ calling' = c
  /\ UNCHANGED <<wanted, cut, doubtful, retained>>

\* The call is over: answers are added to those retained, the caller may fail.
\* Of a call that was cut nothing remains, and who runs again goes on.
Return(left) ==
  /\ calling # None /\ calling' = None
  /\ retained \subseteq retained' /\ retained' \subseteq Answers
  /\ calling \notin wanted => retained' = retained
  /\ cut => retained' = retained /\ left = wanted
  /\ wanted' = left
  /\ cut' = FALSE
  /\ UNCHANGED doubtful

\* Answers go with what they are about.
Forget ==
  /\ retained' \subseteq retained
  /\ UNCHANGED <<wanted, calling, cut, doubtful>>

\* The process ends.
Crash ==
  /\ doubtful' = doubtful \union ({calling} \ {None})
  /\ calling' = None /\ cut' = FALSE
  /\ UNCHANGED <<wanted, retained>>

Init ==
  /\ wanted = {} /\ calling = None /\ cut = FALSE /\ doubtful = {}
  /\ retained \subseteq Answers

Next ==
  \/ \E c \in Callers : Ask(c) \/ Call(c)
  \/ \E S \in SUBSET Callers : Withdraw(S)
  \/ \E left \in {wanted, wanted \ {calling}} : Return(left)
  \/ Cut \/ Forget \/ Crash

Spec == Init /\ [][Next]_pvars
=============================================================================
