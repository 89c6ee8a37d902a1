---------------------------- MODULE ExclusiveUse ----------------------------
(***************************************************************************)
(* What the workspace lock promises, without PID files or mutexes: at most *)
(* one process uses the workspace at a time, and the stored data only      *)
(* changes at the hand of the process that uses it.                        *)
(***************************************************************************)
CONSTANT Procs

VARIABLES
  users,      \* the processes that may read and write the workspace
  data        \* what is stored

vars == <<users, data>>

Enter(p) == users = {} /\ users' = {p} /\ UNCHANGED data

Leave(p) == users = {p} /\ users' = {} /\ UNCHANGED data

Use(p) == users = {p} /\ data' # data /\ UNCHANGED users

Init == users = {}

Next == \E p \in Procs : Enter(p) \/ Leave(p) \/ Use(p)

Spec == Init /\ [][Next]_vars
=============================================================================
