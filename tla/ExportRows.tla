----------------------------- MODULE ExportRows -----------------------------
(***************************************************************************)
(* What a reader of export_jobs may rely on: the status of a row, the      *)
(* steps it takes, and that a row once completed names an archive from     *)
(* then on, whatever its status.  ExportJob implements it, redeliveries    *)
(* and workers that overlap included, and the console is modelled on it.   *)
(***************************************************************************)
CONSTANT Exports

VARIABLES
  status,
  recorded   \* the exports that have a manifest_hash

RowsInit ==
  /\ status = [e \in Exports |-> "none"]
  /\ recorded = {}

Requested(e) ==
  /\ status[e] = "none"
  /\ status' = [status EXCEPT ![e] = "pending"]

\* A delivery claims the row whatever it says: a redelivered job takes a completed
\* or a failed export back.
Claimed(e) ==
  /\ status[e] # "none"
  /\ status' = [status EXCEPT ![e] = "processing"]

\* Never of a row that no delivery has claimed.
Settled(e) ==
  /\ status[e] \notin {"none", "pending"}
  /\ status' \in {[status EXCEPT ![e] = s] : s \in {"completed", "failed"}}

\* The hash is recorded with the completion, and never taken back.
RowsNext ==
  /\ \E e \in Exports : Requested(e) \/ Claimed(e) \/ Settled(e)
  /\ recorded' = recorded \cup {e \in Exports : status'[e] = "completed"}

RowsSpec == RowsInit /\ [][RowsNext]_<<status, recorded>>

=============================================================================
