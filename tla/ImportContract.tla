---------------------------- MODULE ImportContract ----------------------------
(***************************************************************************)
(* What staging and AI organization promise each other about the rows they *)
(* share: the status of a batch and of its entries, whether an entry is    *)
(* left out, and which batch's organization job is running.                *)
(*   runtime/src/workspace/imports.ts                                      *)
(*   runtime/src/workspace/import-organization-jobs.ts                     *)
(*                                                                         *)
(* ImportStaging and ImportOrganization model one side each in detail and  *)
(* the other as far as they notice it.  Both implement this module, so     *)
(* what either takes the other to do is what the contract allows.          *)
(***************************************************************************)
CONSTANTS Batches, Entries, BatchOf

VARIABLES
  batch,      \* import_batches.status
  file,       \* import_entries.status
  included,   \* entries whose filing choice is not to skip them
  organizing  \* batches whose organization job is running

ivars == <<batch, file, included, organizing>>

EntriesOf(b) == {e \in Entries : BatchOf[e] = b}
Parsed  == {"ready", "error", "skipped", "policy"}
LeftOut == {"skipped", "policy"}
Kept(b) == {e \in EntriesOf(b) : e \in included /\ file[e] \notin LeftOut}

\* A new batch: its files wait, but for those excluded from the start.
Create(b, waiting, chosen) ==
  /\ batch[b] = "none"
  /\ batch' = [batch EXCEPT ![b] = "review"]
  /\ file' = [e \in Entries |-> IF e \notin EntriesOf(b) THEN file[e]
                                ELSE IF e \in waiting THEN "waiting" ELSE "skipped"]
  /\ included' = (included \ EntriesOf(b)) \union chosen
  /\ UNCHANGED organizing

\* A file is parsed once it waits, and only until its batch is finished.
Parse(e, outcome) ==
  /\ batch[BatchOf[e]] = "review" /\ file[e] = "waiting"
  /\ file' = [file EXCEPT ![e] = outcome]
  /\ UNCHANGED <<batch, included, organizing>>

\* Failed files are retried or uploaded again.
Retry(b, failed) ==
  /\ batch[b] = "review" /\ \A e \in failed : file[e] = "error"
  /\ file' = [e \in Entries |-> IF e \in failed THEN "waiting" ELSE file[e]]
  /\ UNCHANGED <<batch, included, organizing>>

\* Nobody takes in or leaves out files while the job runs, not even the job.
Include(b, chosen) ==
  /\ batch[b] = "review" /\ b \notin organizing
  /\ \A e \in chosen : file[e] \notin LeftOut
  /\ included' = included \union chosen
  /\ UNCHANGED <<batch, file, organizing>>
LeaveOut(b, chosen) ==
  /\ batch[b] = "review" /\ b \notin organizing
  /\ included' = included \ chosen
  /\ UNCHANGED <<batch, file, organizing>>

\* One job at a time, of a batch in review.
Organize(b) ==
  /\ batch[b] = "review" /\ organizing = {}
  /\ organizing' = {b}
  /\ UNCHANGED <<batch, file, included>>
Rest ==
  /\ organizing' = {}
  /\ UNCHANGED <<batch, file, included>>

\* A batch ends once, without its job, and is committed only when every file
\* kept is ready and none states a local-only policy.
Finish(b, outcome) ==
  /\ batch[b] = "review" /\ b \notin organizing
  /\ outcome = "committed" => /\ Kept(b) # {} /\ \A e \in Kept(b) : file[e] = "ready"
                              /\ \A e \in EntriesOf(b) : file[e] # "policy"
  /\ batch' = [batch EXCEPT ![b] = outcome]
  /\ UNCHANGED <<file, included, organizing>>

\* The rows as an application finds them: no job survived the last one.
Init ==
  /\ batch \in [Batches -> {"none", "review"}]
  /\ file \in [Entries -> Parsed \union {"waiting"}]
  /\ included \in SUBSET Entries
  /\ organizing = {}

Next ==
  \/ \E b \in Batches : \E waiting, chosen \in SUBSET EntriesOf(b) : Create(b, waiting, chosen)
  \/ \E e \in Entries, outcome \in Parsed : Parse(e, outcome)
  \/ \E b \in Batches : \E chosen \in SUBSET EntriesOf(b) :
       Retry(b, chosen) \/ Include(b, chosen) \/ LeaveOut(b, chosen)
  \/ \E b \in Batches : Organize(b)
  \/ Rest
  \/ \E b \in Batches, outcome \in {"committed", "discarded"} : Finish(b, outcome)

Spec == Init /\ [][Next]_ivars
=============================================================================
