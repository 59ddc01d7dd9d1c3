------------------------------- MODULE Worker -------------------------------
(***************************************************************************)
(* What the worker does beside indexing: exports, the archive an export    *)
(* packs, and the retention compaction.  A behaviour is about one of them; *)
(* what retention does to an export is an action of ExportJob.             *)
(***************************************************************************)
EXTENDS ExportJob, Retention, ZipArchive

VARIABLE part

partVars == <<part, exportVars, retentionVars, zipVars>>

\* The parts that rest have one state.
WorkerInit ==
  /\ ExportInit /\ RetentionInit /\ ZipInit
  /\ \/ part = "export"
     \/ part = "retention"
     \/ part = "zip"
  /\ part # "retention" => plan = NoRun.plan
  /\ part # "zip" => body = [i \in DOMAIN Paths |-> CHOOSE b \in Bodies : TRUE]

WorkerNext ==
  /\ UNCHANGED part
  /\ \/ part = "export" /\ ExportNext /\ UNCHANGED <<retentionVars, zipVars>>
     \/ part = "retention" /\ RetentionNext /\ UNCHANGED <<exportVars, zipVars>>
     \/ part = "zip" /\ ZipNext /\ UNCHANGED <<exportVars, retentionVars>>

\* Nothing of ExportFairness is enabled where the part is another.  The compaction's
\* timer fires every hour and at every start, and the database answers.
WorkerFairness ==
  /\ ExportFairness
  /\ \A c \in Runs : WF_retentionVars(part = "retention" /\ RunStep(c))

WorkerSpec == WorkerInit /\ [][WorkerNext]_partVars /\ WorkerFairness

=============================================================================
