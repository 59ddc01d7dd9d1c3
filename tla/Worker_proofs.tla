---------------------------- MODULE Worker_proofs ----------------------------
(***************************************************************************)
(* Theorems about exports and the archives they pack, for every number of  *)
(* exports, traces, workers and redeliveries, and for any files.           *)
(*                                                                         *)
(* As long as no lock has expired one worker at most has an export's job   *)
(* in hand, so that what it has uploaded is what the row will name; a job  *)
(* that is delivered again has a later pass, and retention only takes      *)
(* traces away, so that what a pass has read covers what is still there.   *)
(***************************************************************************)
EXTENDS Worker, WellFoundedInduction, TLAPS

ExportTypeOK ==
  /\ live \subseteq Traces
  /\ filters \in [Exports -> Filters \cup {NoFilter}]
  /\ status \in [Exports -> {"none", "pending", "processing", "completed", "failed"}]
  /\ manifestHash \in [Exports -> Hash \cup {NoManifest}]
  /\ errorMessage \in [Exports -> BOOLEAN]
  /\ downloadOpen \in [Exports -> BOOLEAN]
  /\ request \in [Exports -> {"idle", "created", "accepted", "failed"}]
  /\ asked \in [Exports -> SUBSET Traces]
  /\ bucket \in [Exports -> Archive \cup {NoArchive}]
  /\ job \in [Exports -> {"none", "waiting", "active", "completed", "failed"}]
  /\ lockOwner \in [Exports -> Workers \cup {NoWorker}]
  /\ passes \in [Exports -> Nat]
  /\ stalls \in [Exports -> Nat]
  /\ failedReason \in [Exports -> {"none", "export", "database", "stalled"}]
  /\ expired \subseteq Exports
  /\ wpc \in [Workers -> {"idle", "claim", "load", "include", "events", "put", "complete",
                          "catch", "finish"}]
  /\ wjob \in [Workers -> Exports \cup {NoExport}]
  /\ wpass \in [Workers -> Nat]
  /\ wtraces \in [Workers -> SUBSET Traces]
  /\ wevents \in [Workers -> SUBSET Traces]
  /\ wsnapshots \in [Workers -> SUBSET Traces]
  /\ ticket \in [Exports -> Hash \cup {NoManifest}]

\* Before a request there is nothing, and afterwards there is a row, with a hash once it
\* is completed.
RowOK(e) ==
  /\ request[e] = "idle" =>
       /\ status[e] = "none" /\ job[e] = "none"
       /\ bucket[e] = NoArchive /\ ticket[e] = NoManifest
  /\ request[e] = "created" => job[e] = "none"
  /\ request[e] # "idle" =>
       /\ status[e] # "none" /\ filters[e] \in Filters /\ asked[e] \subseteq filters[e].traces
  /\ passes[e] # 0 => job[e] # "none"
  /\ status[e] = "completed" => manifestHash[e] # NoManifest

\* A worker in a pass has a job, and one that has claimed its row finds the row claimed.
PassOK(w) ==
  /\ wpc[w] = "idle" <=> wjob[w] = NoExport
  /\ wpc[w] # "idle" =>
       job[wjob[w]] # "none" /\ wpass[w] # 0 /\ wpass[w] <= passes[wjob[w]]
  /\ wpc[w] \notin {"idle", "claim"} => status[wjob[w]] \notin {"none", "pending"}

\* What listed traces are when an export has found all it was asked for.
Found(e, listed) ==
  /\ listed \subseteq filters[e].traces
  /\ \/ asked[e] \cap live \subseteq listed
     \/ ~ filters[e].byIds /\ Cardinality(listed) = TakeLimit

\* What a worker has read is what is still there, and perhaps more.
ReadOK(w) ==
  /\ wpc[w] \in {"include", "events", "put", "complete"} => Found(wjob[w], wtraces[w])
  /\ wpc[w] \in {"events", "put", "complete"} => wtraces[w] \cap live \subseteq wsnapshots[w]
  /\ wpc[w] \in {"put", "complete"} => wtraces[w] \cap live \subseteq wevents[w]

\* While no lock expired under a live worker, the job is in the hands of the one that
\* has the lock, and its pass is later than the one whose archive it will replace.
AloneOK(w, e) ==
  wjob[w] = e =>
    /\ lockOwner[e] = w /\ job[e] = "active"
    /\ wpc[w] \in {"load", "include", "events", "put", "complete"}
         => status[e] = "processing"
    /\ wpc[w] \in {"claim", "load", "include", "events", "put"} /\ bucket[e] # NoArchive
         => bucket[e].manifest.pass < wpass[w]
    /\ wpc[w] = "complete" => bucket[e] = Assemble(w)

\* An archive is of a pass that has begun.
UploadOK(e) == bucket[e] # NoArchive => bucket[e].manifest.pass <= passes[e]

RowsOK == \A e \in Exports : RowOK(e)
PassesOK == \A w \in Workers : PassOK(w)
ReadsOK == \A w \in Workers : ReadOK(w)
UploadsOK == \A e \in Exports : UploadOK(e)
HandsOK == \A e \in Exports \ expired, w \in Workers : AloneOK(w, e)

\* The inductive invariant.
ExportInv ==
  /\ ExportTypeOK
  /\ RowsOK /\ PassesOK /\ ReadsOK /\ UploadsOK /\ HandsOK
  /\ ArchiveIsComplete /\ HashNamesArchive /\ TicketIsNotAhead
-----------------------------------------------------------------------------
\* Nothing is there before a request.
LEMMA ExportInvInit == ExportInit => ExportInv
<1> SUFFICES ASSUME ExportInit PROVE ExportInv
  OBVIOUS
<1>1. ExportTypeOK
  BY DEF ExportInit, ExportTypeOK
<1>2. RowsOK /\ PassesOK /\ ReadsOK /\ UploadsOK
  BY AbsentAssumption
  DEF ExportInit, RowsOK, RowOK, PassesOK, PassOK, ReadsOK, ReadOK, UploadsOK, UploadOK
<1>3. HandsOK
  BY AbsentAssumption DEF ExportInit, HandsOK, AloneOK
<1>4. ArchiveIsComplete /\ HashNamesArchive /\ TicketIsNotAhead
  BY DEF ExportInit, ArchiveIsComplete, HashNamesArchive, TicketIsNotAhead
<1> QED
  BY <1>1, <1>2, <1>3, <1>4 DEF ExportInv

\* What a worker in a pass would record is a hash.
LEMMA HashOfPass ==
  ASSUME ExportInv, NEW w \in Workers, wpc[w] # "idle"
  PROVE  /\ wjob[w] \in Exports /\ wpass[w] \in Nat \ {0}
         /\ ManifestHash(BuildManifest(w)) \in Hash
         /\ ManifestHash(BuildManifest(w)) # NoManifest
<1>1. wjob[w] \in Exports /\ wpass[w] \in Nat \ {0}
  BY DEF ExportInv, PassesOK, PassOK, ExportTypeOK
<1>2. ManifestHash(BuildManifest(w)) \in Hash
  BY <1>1 DEF ExportInv, ExportTypeOK, ManifestHash, BuildManifest, Hash, Manifest
<1> QED
  BY <1>1, <1>2, AbsentAssumption

\* Every step keeps the types: a worker in a pass has a job, and its pass is not 0.
LEMMA TypesStep ==
  ASSUME ExportInv, ExportNext
  PROVE  ExportTypeOK'
<1> USE DEF ExportInv, rowVars, apiVars, queueVars, workerVars
<1>1. ASSUME NEW e \in Exports, NEW f \in Filters, CreateRow(e, f)
      PROVE  ExportTypeOK'
  BY <1>1 DEF CreateRow, ExportTypeOK
<1>2. ASSUME NEW e \in Exports, Publish(e)
      PROVE  ExportTypeOK'
  BY <1>2 DEF Publish, ExportTypeOK
<1>3. ASSUME NEW e \in Exports, PublishFails(e)
      PROVE  ExportTypeOK'
  BY <1>3 DEF PublishFails, ExportTypeOK
<1>4. ASSUME NEW e \in Exports, Stall(e)
      PROVE  ExportTypeOK'
  BY <1>4 DEF Stall, ExportTypeOK
<1>5. ASSUME NEW e \in Exports, SignUrl(e)
      PROVE  ExportTypeOK'
  BY <1>5 DEF SignUrl, ExportTypeOK
<1>6. ASSUME NEW e \in Exports, DownloadExpires(e)
      PROVE  ExportTypeOK'
  BY <1>6 DEF DownloadExpires, ExportTypeOK
<1>7. ASSUME NEW w \in Workers, NEW e \in Exports, TakeJob(w, e)
      PROVE  ExportTypeOK'
  BY <1>7 DEF TakeJob, WorkerAt, ExportTypeOK
<1>8. ASSUME NEW w \in Workers, MarkProcessing(w)
      PROVE  ExportTypeOK'
  BY <1>8 DEF MarkProcessing, WorkerAt, ExportTypeOK, PassesOK, PassOK
<1>9. ASSUME NEW w \in Workers, LoadTraces(w)
      PROVE  ExportTypeOK'
  BY <1>9 DEF LoadTraces, WorkerAt, ExportTypeOK, Loadable
<1>10. ASSUME NEW w \in Workers, IncludeSnapshots(w)
      PROVE  ExportTypeOK'
  BY <1>10 DEF IncludeSnapshots, WorkerAt, ExportTypeOK
<1>11. ASSUME NEW w \in Workers, IncludeEvents(w)
      PROVE  ExportTypeOK'
  BY <1>11 DEF IncludeEvents, WorkerAt, ExportTypeOK
<1>12. ASSUME NEW w \in Workers, PutArchive(w)
      PROVE  ExportTypeOK'
  BY <1>12
  DEF PutArchive, WorkerAt, ExportTypeOK, PassesOK, PassOK, Assemble, BuildManifest, Archive,
      Manifest
<1>13. ASSUME NEW w \in Workers, Complete(w)
      PROVE  ExportTypeOK'
  BY <1>13
  DEF LeaveTry, Complete, RowCompleted, WorkerAt, ExportTypeOK, PassesOK, PassOK, ManifestHash,
      BuildManifest, Hash,
      Manifest
<1>14. ASSUME NEW w \in Workers, MarkFailed(w)
      PROVE  ExportTypeOK'
  BY <1>14
  DEF MarkFailed, RowFailed, WorkerAt, Throw, Idle, LeaveTry, ExportTypeOK, PassesOK, PassOK
<1>15. ASSUME NEW w \in Workers, Finish(w)
      PROVE  ExportTypeOK'
  BY <1>15 DEF Finish, WorkerAt, Idle, LeaveTry, ExportTypeOK
<1>16. ASSUME NEW w \in Workers, MarkFails(w)
      PROVE  ExportTypeOK'
  BY <1>16 DEF MarkFails, WorkerAt, Throw, Idle, LeaveTry, ExportTypeOK, PassesOK
<1>17. ASSUME NEW w \in Workers, StepFails(w)
      PROVE  ExportTypeOK'
  <2>1. CASE UNCHANGED <<bucket, rowVars>>
    BY <1>17, <2>1 DEF LeaveTry, StepFails, WorkerAt, ExportTypeOK
  <2>2. CASE wpc[w] = "put" /\ bucket' = [bucket EXCEPT ![wjob[w]] = Assemble(w)]
             /\ UNCHANGED rowVars
    BY <1>17, <2>2
    DEF LeaveTry, StepFails, WorkerAt, ExportTypeOK, PassesOK, PassOK, Assemble,
        BuildManifest, Archive, Manifest
  <2>3. CASE wpc[w] = "complete" /\ RowCompleted(w) /\ UNCHANGED bucket
    BY <1>17, <2>3, HashOfPass DEF LeaveTry, StepFails, RowCompleted, WorkerAt, ExportTypeOK
  <2> QED
    BY <1>17, <2>1, <2>2, <2>3 DEF StepFails
<1>18. ASSUME NEW w \in Workers, CatchFails(w)
      PROVE  ExportTypeOK'
  <2>1. /\ status' \in [Exports -> {"none", "pending", "processing", "completed", "failed"}]
        /\ errorMessage' \in [Exports -> BOOLEAN]
        /\ UNCHANGED <<filters, manifestHash, downloadOpen>>
    BY <1>18 DEF CatchFails, RowFailed, ExportTypeOK
  <2>2. Throw(w, "database") /\ UNCHANGED <<live, apiVars, bucket, ticket>>
    BY <1>18 DEF CatchFails
  <2>3. /\ job' \in [Exports -> {"none", "waiting", "active", "completed", "failed"}]
        /\ lockOwner' \in [Exports -> Workers \cup {NoWorker}]
        /\ failedReason' \in [Exports -> {"none", "export", "database", "stalled"}]
    BY <2>2 DEF Throw, ExportTypeOK
  <2> QED
    BY <2>1, <2>2, <2>3 DEF WorkerAt, Throw, Idle, LeaveTry, ExportTypeOK
<1>19. ASSUME NEW w \in Workers, WorkerCrash(w)
      PROVE  ExportTypeOK'
  BY <1>19 DEF WorkerCrash, WorkerAt, Idle, LeaveTry, ExportTypeOK
<1>20. ASSUME NEW t \in Traces, Compacted(t)
      PROVE  ExportTypeOK'
  BY <1>20 DEF Compacted, ExportTypeOK
<1> QED
  BY <1>1, <1>2, <1>3, <1>4, <1>5, <1>6, <1>7, <1>8, <1>9, <1>10, <1>11, <1>12, <1>13, <1>14,
     <1>15, <1>16, <1>17, <1>18, <1>19, <1>20
  DEF ExportNext, Work

\* Every step keeps what is known of a row: workers touch only rows whose job was added,
\* and a job is added only when its request has made the row.
LEMMA RowsStep ==
  ASSUME ExportInv, ExportNext
  PROVE  RowsOK'
<1> USE DEF ExportInv, rowVars, apiVars, queueVars, workerVars
<1>1. ASSUME NEW e \in Exports, NEW f \in Filters, CreateRow(e, f)
      PROVE  RowsOK'
  BY <1>1 DEF CreateRow, RowsOK, RowOK, ExportTypeOK
<1>2. ASSUME NEW e \in Exports, Publish(e)
      PROVE  RowsOK'
  BY <1>2 DEF Publish, RowsOK, RowOK, ExportTypeOK
<1>3. ASSUME NEW e \in Exports, PublishFails(e)
      PROVE  RowsOK'
  BY <1>3 DEF PublishFails, RowsOK, RowOK, ExportTypeOK
<1>4. ASSUME NEW e \in Exports, Stall(e)
      PROVE  RowsOK'
  BY <1>4 DEF Stall, RowsOK, RowOK, ExportTypeOK
<1>5. ASSUME NEW e \in Exports, SignUrl(e)
      PROVE  RowsOK'
  BY <1>5 DEF SignUrl, RowsOK, RowOK
<1>6. ASSUME NEW e \in Exports, DownloadExpires(e)
      PROVE  RowsOK'
  BY <1>6 DEF DownloadExpires, RowsOK, RowOK
<1>7. ASSUME NEW w \in Workers, NEW e \in Exports, TakeJob(w, e)
      PROVE  RowsOK'
  BY <1>7 DEF TakeJob, RowsOK, RowOK
<1>8. ASSUME NEW w \in Workers, MarkProcessing(w)
      PROVE  RowsOK'
  BY <1>8 DEF MarkProcessing, RowsOK, RowOK, PassesOK, PassOK
<1>9. ASSUME NEW w \in Workers, LoadTraces(w)
      PROVE  RowsOK'
  BY <1>9 DEF LoadTraces, RowsOK, RowOK
<1>10. ASSUME NEW w \in Workers, IncludeSnapshots(w)
      PROVE  RowsOK'
  BY <1>10 DEF IncludeSnapshots, RowsOK, RowOK
<1>11. ASSUME NEW w \in Workers, IncludeEvents(w)
      PROVE  RowsOK'
  BY <1>11 DEF IncludeEvents, RowsOK, RowOK
<1>12. ASSUME NEW w \in Workers, PutArchive(w)
      PROVE  RowsOK'
  BY <1>12 DEF PutArchive, RowsOK, RowOK, PassesOK, PassOK
<1>13. ASSUME NEW w \in Workers, Complete(w)
      PROVE  RowsOK'
  <2>1. wjob[w] \in Exports /\ ManifestHash(BuildManifest(w)) # NoManifest
    BY <1>13, HashOfPass DEF Complete
  <2> QED
    BY <1>13, <2>1 DEF Complete, RowCompleted, RowsOK, RowOK, ExportTypeOK, PassesOK, PassOK
<1>14. ASSUME NEW w \in Workers, MarkFailed(w)
      PROVE  RowsOK'
  BY <1>14 DEF MarkFailed, RowFailed, Throw, RowsOK, RowOK, ExportTypeOK, PassesOK, PassOK
<1>15. ASSUME NEW w \in Workers, Finish(w)
      PROVE  RowsOK'
  BY <1>15 DEF Finish, RowsOK, RowOK, ExportTypeOK, PassesOK, PassOK
<1>16. ASSUME NEW w \in Workers, MarkFails(w)
      PROVE  RowsOK'
  BY <1>16 DEF MarkFails, Throw, RowsOK, RowOK, ExportTypeOK, PassesOK, PassOK
<1>17. ASSUME NEW w \in Workers, StepFails(w)
      PROVE  RowsOK'
  <2>1. wjob[w] \in Exports /\ ManifestHash(BuildManifest(w)) # NoManifest
    BY <1>17, HashOfPass DEF StepFails
  <2>2. CASE UNCHANGED rowVars
    BY <1>17, <2>2 DEF StepFails, RowsOK, RowOK, ExportTypeOK, PassesOK, PassOK
  <2>3. CASE RowCompleted(w) /\ UNCHANGED bucket
    BY <1>17, <2>1, <2>3
    DEF StepFails, RowCompleted, RowsOK, RowOK, ExportTypeOK, PassesOK, PassOK
  <2> QED
    BY <1>17, <2>2, <2>3 DEF StepFails
<1>18. ASSUME NEW w \in Workers, CatchFails(w)
      PROVE  RowsOK'
  BY <1>18 DEF CatchFails, RowFailed, Throw, RowsOK, RowOK, ExportTypeOK, PassesOK, PassOK
<1>19. ASSUME NEW w \in Workers, WorkerCrash(w)
      PROVE  RowsOK'
  BY <1>19 DEF WorkerCrash, RowsOK, RowOK
<1>20. ASSUME NEW t \in Traces, Compacted(t)
      PROVE  RowsOK'
  BY <1>20 DEF Compacted, RowsOK, RowOK
<1> QED
  BY <1>1, <1>2, <1>3, <1>4, <1>5, <1>6, <1>7, <1>8, <1>9, <1>10, <1>11, <1>12, <1>13, <1>14,
     <1>15, <1>16, <1>17, <1>18, <1>19, <1>20
  DEF ExportNext, Work

\* Every step keeps what is known of a pass: no job is taken off the queue, and only a
\* row without a job is set to pending.
LEMMA PassesStep ==
  ASSUME ExportInv, ExportNext
  PROVE  PassesOK'
<1> USE DEF ExportInv, rowVars, apiVars, queueVars, workerVars
<1>1. ASSUME NEW e \in Exports, NEW f \in Filters, CreateRow(e, f)
      PROVE  PassesOK'
  BY <1>1 DEF CreateRow, PassesOK, PassOK, RowsOK, RowOK
<1>2. ASSUME NEW e \in Exports, Publish(e)
      PROVE  PassesOK'
  BY <1>2 DEF Publish, PassesOK, PassOK
<1>3. ASSUME NEW e \in Exports, PublishFails(e)
      PROVE  PassesOK'
  BY <1>3 DEF PublishFails, PassesOK, PassOK, ExportTypeOK
<1>4. ASSUME NEW e \in Exports, Stall(e)
      PROVE  PassesOK'
  BY <1>4 DEF Stall, PassesOK, PassOK, ExportTypeOK
<1>5. ASSUME NEW e \in Exports, SignUrl(e)
      PROVE  PassesOK'
  BY <1>5 DEF SignUrl, PassesOK, PassOK
<1>6. ASSUME NEW e \in Exports, DownloadExpires(e)
      PROVE  PassesOK'
  BY <1>6 DEF DownloadExpires, PassesOK, PassOK
<1>7. ASSUME NEW w \in Workers, NEW e \in Exports, TakeJob(w, e)
      PROVE  PassesOK'
  <2> SUFFICES ASSUME NEW v \in Workers PROVE PassOK(v)'
    BY DEF PassesOK
  <2>1. passes[e] \in Nat /\ passes' = [passes EXCEPT ![e] = passes[e] + 1]
    BY <1>7 DEF TakeJob, ExportTypeOK
  <2>2. CASE v = w
    BY <1>7, <2>1, <2>2, AbsentAssumption DEF TakeJob, WorkerAt, PassOK, ExportTypeOK
  <2>3. CASE v # w
    BY <1>7, <2>1, <2>3 DEF TakeJob, WorkerAt, PassesOK, PassOK, ExportTypeOK
  <2> QED
    BY <2>2, <2>3
<1>8. ASSUME NEW w \in Workers, MarkProcessing(w)
      PROVE  PassesOK'
  BY <1>8 DEF MarkProcessing, WorkerAt, PassesOK, PassOK, ExportTypeOK
<1>9. ASSUME NEW w \in Workers, LoadTraces(w)
      PROVE  PassesOK'
  BY <1>9 DEF LoadTraces, WorkerAt, PassesOK, PassOK
<1>10. ASSUME NEW w \in Workers, IncludeSnapshots(w)
      PROVE  PassesOK'
  BY <1>10 DEF IncludeSnapshots, WorkerAt, PassesOK, PassOK
<1>11. ASSUME NEW w \in Workers, IncludeEvents(w)
      PROVE  PassesOK'
  BY <1>11 DEF IncludeEvents, WorkerAt, PassesOK, PassOK
<1>12. ASSUME NEW w \in Workers, PutArchive(w)
      PROVE  PassesOK'
  BY <1>12 DEF PutArchive, WorkerAt, PassesOK, PassOK
<1>13. ASSUME NEW w \in Workers, Complete(w)
      PROVE  PassesOK'
  BY <1>13 DEF Complete, RowCompleted, WorkerAt, PassesOK, PassOK
<1>14. ASSUME NEW w \in Workers, MarkFailed(w)
      PROVE  PassesOK'
  BY <1>14 DEF MarkFailed, RowFailed, WorkerAt, Throw, Idle, PassesOK, PassOK, ExportTypeOK
<1>15. ASSUME NEW w \in Workers, Finish(w)
      PROVE  PassesOK'
  BY <1>15 DEF Finish, WorkerAt, Idle, PassesOK, PassOK, ExportTypeOK
<1>16. ASSUME NEW w \in Workers, MarkFails(w)
      PROVE  PassesOK'
  BY <1>16 DEF MarkFails, WorkerAt, Throw, Idle, PassesOK, PassOK, ExportTypeOK
<1>17. ASSUME NEW w \in Workers, StepFails(w)
      PROVE  PassesOK'
  BY <1>17 DEF StepFails, RowCompleted, WorkerAt, PassesOK, PassOK, ExportTypeOK
<1>18. ASSUME NEW w \in Workers, CatchFails(w)
      PROVE  PassesOK'
  BY <1>18 DEF CatchFails, RowFailed, WorkerAt, Throw, Idle, PassesOK, PassOK, ExportTypeOK
<1>19. ASSUME NEW w \in Workers, WorkerCrash(w)
      PROVE  PassesOK'
  BY <1>19 DEF WorkerCrash, WorkerAt, Idle, PassesOK, PassOK, ExportTypeOK
<1>20. ASSUME NEW t \in Traces, Compacted(t)
      PROVE  PassesOK'
  BY <1>20 DEF Compacted, PassesOK, PassOK
<1> QED
  BY <1>1, <1>2, <1>3, <1>4, <1>5, <1>6, <1>7, <1>8, <1>9, <1>10, <1>11, <1>12, <1>13, <1>14,
     <1>15, <1>16, <1>17, <1>18, <1>19, <1>20
  DEF ExportNext, Work

\* Every step keeps what a worker has read complete: retention only takes traces away,
\* and the filter of a row whose job was added does not change.
LEMMA ReadsStep ==
  ASSUME ExportInv, ExportNext
  PROVE  ReadsOK'
<1> USE DEF ExportInv, rowVars, apiVars, queueVars, workerVars
<1>1. ASSUME NEW e \in Exports, NEW f \in Filters, CreateRow(e, f)
      PROVE  ReadsOK'
  BY <1>1 DEF CreateRow, ReadsOK, ReadOK, Found, PassesOK, PassOK, RowsOK, RowOK
<1>2. ASSUME NEW e \in Exports, Publish(e)
      PROVE  ReadsOK'
  BY <1>2 DEF Publish, ReadsOK, ReadOK, Found
<1>3. ASSUME NEW e \in Exports, PublishFails(e)
      PROVE  ReadsOK'
  BY <1>3 DEF PublishFails, ReadsOK, ReadOK, Found
<1>4. ASSUME NEW e \in Exports, Stall(e)
      PROVE  ReadsOK'
  BY <1>4 DEF Stall, ReadsOK, ReadOK, Found
<1>5. ASSUME NEW e \in Exports, SignUrl(e)
      PROVE  ReadsOK'
  BY <1>5 DEF SignUrl, ReadsOK, ReadOK, Found
<1>6. ASSUME NEW e \in Exports, DownloadExpires(e)
      PROVE  ReadsOK'
  BY <1>6 DEF DownloadExpires, ReadsOK, ReadOK, Found
<1>7. ASSUME NEW w \in Workers, NEW e \in Exports, TakeJob(w, e)
      PROVE  ReadsOK'
  BY <1>7 DEF TakeJob, WorkerAt, ReadsOK, ReadOK, Found
<1>8. ASSUME NEW w \in Workers, MarkProcessing(w)
      PROVE  ReadsOK'
  BY <1>8 DEF MarkProcessing, WorkerAt, ReadsOK, ReadOK, Found
<1>9. ASSUME NEW w \in Workers, LoadTraces(w)
      PROVE  ReadsOK'
  BY <1>9
  DEF LoadTraces, WorkerAt, ReadsOK, ReadOK, Found, PassesOK, PassOK, RowsOK, RowOK,
      ExportTypeOK, Loadable
<1>10. ASSUME NEW w \in Workers, IncludeSnapshots(w)
      PROVE  ReadsOK'
  BY <1>10 DEF IncludeSnapshots, WorkerAt, ReadsOK, ReadOK, Found, ExportTypeOK
<1>11. ASSUME NEW w \in Workers, IncludeEvents(w)
      PROVE  ReadsOK'
  BY <1>11 DEF IncludeEvents, WorkerAt, ReadsOK, ReadOK, Found, ExportTypeOK
<1>12. ASSUME NEW w \in Workers, PutArchive(w)
      PROVE  ReadsOK'
  BY <1>12 DEF PutArchive, WorkerAt, ReadsOK, ReadOK, Found
<1>13. ASSUME NEW w \in Workers, Complete(w)
      PROVE  ReadsOK'
  BY <1>13 DEF Complete, RowCompleted, LeaveTry, WorkerAt, ReadsOK, ReadOK, Found, ExportTypeOK
<1>14. ASSUME NEW w \in Workers, MarkFailed(w)
      PROVE  ReadsOK'
  BY <1>14 DEF MarkFailed, RowFailed, WorkerAt, Throw, Idle, LeaveTry, ReadsOK, ReadOK, Found
<1>15. ASSUME NEW w \in Workers, Finish(w)
      PROVE  ReadsOK'
  BY <1>15 DEF Finish, WorkerAt, Idle, LeaveTry, ReadsOK, ReadOK, Found
<1>16. ASSUME NEW w \in Workers, MarkFails(w)
      PROVE  ReadsOK'
  BY <1>16 DEF MarkFails, WorkerAt, Throw, Idle, LeaveTry, ReadsOK, ReadOK, Found
<1>17. ASSUME NEW w \in Workers, StepFails(w)
      PROVE  ReadsOK'
  BY <1>17 DEF StepFails, RowCompleted, LeaveTry, WorkerAt, ReadsOK, ReadOK, Found, ExportTypeOK
<1>18. ASSUME NEW w \in Workers, CatchFails(w)
      PROVE  ReadsOK'
  BY <1>18 DEF CatchFails, RowFailed, WorkerAt, Throw, Idle, LeaveTry, ReadsOK, ReadOK, Found
<1>19. ASSUME NEW w \in Workers, WorkerCrash(w)
      PROVE  ReadsOK'
  BY <1>19 DEF WorkerCrash, WorkerAt, Idle, LeaveTry, ReadsOK, ReadOK, Found, ExportTypeOK
<1>20. ASSUME NEW t \in Traces, Compacted(t)
      PROVE  ReadsOK'
  BY <1>20 DEF Compacted, ReadsOK, ReadOK, Found
<1> QED
  BY <1>1, <1>2, <1>3, <1>4, <1>5, <1>6, <1>7, <1>8, <1>9, <1>10, <1>11, <1>12, <1>13, <1>14,
     <1>15, <1>16, <1>17, <1>18, <1>19, <1>20
  DEF ExportNext, Work

\* Every step keeps archives of passes that have begun.
LEMMA UploadsStep ==
  ASSUME ExportInv, ExportNext
  PROVE  UploadsOK'
<1> USE DEF ExportInv, rowVars, apiVars, queueVars, workerVars
<1>1. ASSUME NEW e \in Exports, NEW f \in Filters, CreateRow(e, f)
      PROVE  UploadsOK'
  BY <1>1 DEF CreateRow, UploadsOK, UploadOK
<1>2. ASSUME NEW e \in Exports, Publish(e)
      PROVE  UploadsOK'
  BY <1>2 DEF Publish, UploadsOK, UploadOK
<1>3. ASSUME NEW e \in Exports, PublishFails(e)
      PROVE  UploadsOK'
  BY <1>3 DEF PublishFails, UploadsOK, UploadOK
<1>4. ASSUME NEW e \in Exports, Stall(e)
      PROVE  UploadsOK'
  BY <1>4 DEF Stall, UploadsOK, UploadOK
<1>5. ASSUME NEW e \in Exports, SignUrl(e)
      PROVE  UploadsOK'
  BY <1>5 DEF SignUrl, UploadsOK, UploadOK
<1>6. ASSUME NEW e \in Exports, DownloadExpires(e)
      PROVE  UploadsOK'
  BY <1>6 DEF DownloadExpires, UploadsOK, UploadOK
<1>7. ASSUME NEW w \in Workers, NEW e \in Exports, TakeJob(w, e)
      PROVE  UploadsOK'
  BY <1>7 DEF TakeJob, UploadsOK, UploadOK, ExportTypeOK, Archive, Manifest
<1>8. ASSUME NEW w \in Workers, MarkProcessing(w)
      PROVE  UploadsOK'
  BY <1>8 DEF MarkProcessing, UploadsOK, UploadOK
<1>9. ASSUME NEW w \in Workers, LoadTraces(w)
      PROVE  UploadsOK'
  BY <1>9 DEF LoadTraces, UploadsOK, UploadOK
<1>10. ASSUME NEW w \in Workers, IncludeSnapshots(w)
      PROVE  UploadsOK'
  BY <1>10 DEF IncludeSnapshots, UploadsOK, UploadOK
<1>11. ASSUME NEW w \in Workers, IncludeEvents(w)
      PROVE  UploadsOK'
  BY <1>11 DEF IncludeEvents, UploadsOK, UploadOK
<1>12. ASSUME NEW w \in Workers, PutArchive(w)
      PROVE  UploadsOK'
  BY <1>12 DEF PutArchive, UploadsOK, UploadOK, PassesOK, PassOK, Assemble, BuildManifest
<1>13. ASSUME NEW w \in Workers, Complete(w)
      PROVE  UploadsOK'
  BY <1>13 DEF Complete, RowCompleted, UploadsOK, UploadOK
<1>14. ASSUME NEW w \in Workers, MarkFailed(w)
      PROVE  UploadsOK'
  BY <1>14 DEF MarkFailed, RowFailed, Throw, UploadsOK, UploadOK
<1>15. ASSUME NEW w \in Workers, Finish(w)
      PROVE  UploadsOK'
  BY <1>15 DEF Finish, UploadsOK, UploadOK
<1>16. ASSUME NEW w \in Workers, MarkFails(w)
      PROVE  UploadsOK'
  BY <1>16 DEF MarkFails, Throw, UploadsOK, UploadOK
<1>17. ASSUME NEW w \in Workers, StepFails(w)
      PROVE  UploadsOK'
  BY <1>17
  DEF StepFails, RowCompleted, UploadsOK, UploadOK, PassesOK, PassOK, ExportTypeOK, Assemble,
      BuildManifest
<1>18. ASSUME NEW w \in Workers, CatchFails(w)
      PROVE  UploadsOK'
  BY <1>18 DEF CatchFails, RowFailed, Throw, UploadsOK, UploadOK
<1>19. ASSUME NEW w \in Workers, WorkerCrash(w)
      PROVE  UploadsOK'
  BY <1>19 DEF WorkerCrash, UploadsOK, UploadOK
<1>20. ASSUME NEW t \in Traces, Compacted(t)
      PROVE  UploadsOK'
  BY <1>20 DEF Compacted, UploadsOK, UploadOK
<1> QED
  BY <1>1, <1>2, <1>3, <1>4, <1>5, <1>6, <1>7, <1>8, <1>9, <1>10, <1>11, <1>12, <1>13, <1>14,
     <1>15, <1>16, <1>17, <1>18, <1>19, <1>20
  DEF ExportNext, Work

\* Every step keeps a job in one worker's hands while no lock expires under a live
\* worker.  It is enough to look at a job x and the worker v that has it afterwards.
LEMMA HandsStep ==
  ASSUME ExportInv, ExportNext
  PROVE  HandsOK'
<1> USE DEF ExportInv, rowVars, apiVars, queueVars, workerVars
<1> SUFFICES ASSUME NEW x \in Exports, x \notin expired', NEW v \in Workers, wjob'[v] = x
             PROVE  AloneOK(v, x)'
  BY DEF HandsOK, AloneOK
<1>1. ASSUME NEW e \in Exports, NEW f \in Filters, CreateRow(e, f)
      PROVE  AloneOK(v, x)'
  BY <1>1 DEF CreateRow, HandsOK, AloneOK, Assemble, BuildManifest, RowsOK, RowOK
<1>2. ASSUME NEW e \in Exports, Publish(e)
      PROVE  AloneOK(v, x)'
  BY <1>2 DEF Publish, HandsOK, AloneOK, Assemble, BuildManifest, RowsOK, RowOK
<1>3. ASSUME NEW e \in Exports, PublishFails(e)
      PROVE  AloneOK(v, x)'
  BY <1>3
  DEF PublishFails, HandsOK, AloneOK, Assemble, BuildManifest, RowsOK, RowOK, ExportTypeOK
<1>4. ASSUME NEW e \in Exports, Stall(e)
      PROVE  AloneOK(v, x)'
  BY <1>4 DEF Stall, HolderGone, HandsOK, AloneOK, Assemble, BuildManifest, ExportTypeOK
<1>5. ASSUME NEW e \in Exports, SignUrl(e)
      PROVE  AloneOK(v, x)'
  BY <1>5 DEF SignUrl, HandsOK, AloneOK, Assemble, BuildManifest
<1>6. ASSUME NEW e \in Exports, DownloadExpires(e)
      PROVE  AloneOK(v, x)'
  BY <1>6 DEF DownloadExpires, HandsOK, AloneOK, Assemble, BuildManifest
<1>7. ASSUME NEW w \in Workers, NEW e \in Exports, TakeJob(w, e)
      PROVE  AloneOK(v, x)'
  BY <1>7
  DEF TakeJob, WorkerAt, HandsOK, AloneOK, Assemble, BuildManifest, ExportTypeOK, UploadsOK,
      UploadOK, Archive, Manifest
<1>8. ASSUME NEW w \in Workers, MarkProcessing(w)
      PROVE  AloneOK(v, x)'
  BY <1>8 DEF MarkProcessing, WorkerAt, HandsOK, AloneOK, Assemble, BuildManifest, ExportTypeOK
<1>9. ASSUME NEW w \in Workers, LoadTraces(w)
      PROVE  AloneOK(v, x)'
  BY <1>9 DEF LoadTraces, WorkerAt, HandsOK, AloneOK, Assemble, BuildManifest, ExportTypeOK
<1>10. ASSUME NEW w \in Workers, IncludeSnapshots(w)
      PROVE  AloneOK(v, x)'
  BY <1>10
  DEF IncludeSnapshots, WorkerAt, HandsOK, AloneOK, Assemble, BuildManifest, ExportTypeOK
<1>11. ASSUME NEW w \in Workers, IncludeEvents(w)
      PROVE  AloneOK(v, x)'
  BY <1>11 DEF IncludeEvents, WorkerAt, HandsOK, AloneOK, Assemble, BuildManifest, ExportTypeOK
<1>12. ASSUME NEW w \in Workers, PutArchive(w)
      PROVE  AloneOK(v, x)'
  BY <1>12 DEF PutArchive, WorkerAt, HandsOK, AloneOK, Assemble, BuildManifest, ExportTypeOK
<1>13. ASSUME NEW w \in Workers, Complete(w)
      PROVE  AloneOK(v, x)'
  BY <1>13
  DEF LeaveTry, Complete, RowCompleted, WorkerAt, HandsOK, AloneOK, Assemble, BuildManifest,
               ExportTypeOK
<1>14. ASSUME NEW w \in Workers, MarkFailed(w)
      PROVE  AloneOK(v, x)'
  <2>1. wjob[v] = x /\ w # v
    BY <1>14, AbsentAssumption DEF MarkFailed, RowFailed, Throw, Idle, ExportTypeOK
  <2>2. wjob[w] # x
    BY <1>14, <2>1 DEF MarkFailed, RowFailed, Throw, HandsOK, AloneOK
  <2>3. UNCHANGED <<bucket, wpc[v], wjob[v], wpass[v], wtraces[v], wevents[v], wsnapshots[v]>>
    BY <1>14, <2>1 DEF MarkFailed, RowFailed, WorkerAt, Throw, Idle, LeaveTry
  <2>4. UNCHANGED <<job[x], lockOwner[x], status[x], expired>>
    BY <1>14, <2>2 DEF MarkFailed, RowFailed, Throw, ExportTypeOK
  <2> QED
    BY <2>1, <2>3, <2>4 DEF HandsOK, AloneOK, Assemble, BuildManifest
<1>15. ASSUME NEW w \in Workers, Finish(w)
      PROVE  AloneOK(v, x)'
  <2>1. wjob[v] = x /\ w # v
    BY <1>15, AbsentAssumption DEF Finish, Idle, ExportTypeOK
  <2>2. wjob[w] # x
    BY <1>15, <2>1 DEF Finish, HandsOK, AloneOK
  <2>3. UNCHANGED <<bucket, wpc[v], wjob[v], wpass[v], wtraces[v], wevents[v], wsnapshots[v]>>
    BY <1>15, <2>1 DEF Finish, WorkerAt, Idle, LeaveTry
  <2>4. UNCHANGED <<job[x], lockOwner[x], status[x], expired>>
    BY <1>15, <2>2 DEF Finish, ExportTypeOK
  <2> QED
    BY <2>1, <2>3, <2>4 DEF HandsOK, AloneOK, Assemble, BuildManifest
<1>16. ASSUME NEW w \in Workers, MarkFails(w)
      PROVE  AloneOK(v, x)'
  <2>1. wjob[v] = x /\ w # v
    BY <1>16, AbsentAssumption DEF MarkFails, Throw, Idle, ExportTypeOK
  <2>2. wjob[w] # x
    BY <1>16, <2>1 DEF MarkFails, Throw, HandsOK, AloneOK
  <2>3. UNCHANGED <<bucket, wpc[v], wjob[v], wpass[v], wtraces[v], wevents[v], wsnapshots[v]>>
    BY <1>16, <2>1 DEF MarkFails, WorkerAt, Throw, Idle, LeaveTry
  <2>4. UNCHANGED <<job[x], lockOwner[x], status[x], expired>>
    BY <1>16, <2>2 DEF MarkFails, Throw, ExportTypeOK
  <2> QED
    BY <2>1, <2>3, <2>4 DEF HandsOK, AloneOK, Assemble, BuildManifest
<1>17. ASSUME NEW w \in Workers, StepFails(w)
      PROVE  AloneOK(v, x)'
  BY <1>17
  DEF LeaveTry, StepFails, RowCompleted, WorkerAt, HandsOK, AloneOK, Assemble, BuildManifest,
               ExportTypeOK
<1>18. ASSUME NEW w \in Workers, CatchFails(w)
      PROVE  AloneOK(v, x)'
  <2>1. wjob[v] = x /\ w # v
    BY <1>18, AbsentAssumption DEF CatchFails, RowFailed, Throw, Idle, ExportTypeOK
  <2>2. wjob[w] # x
    BY <1>18, <2>1 DEF CatchFails, RowFailed, Throw, HandsOK, AloneOK
  <2>3. UNCHANGED <<bucket, wpc[v], wjob[v], wpass[v], wtraces[v], wevents[v], wsnapshots[v]>>
    BY <1>18, <2>1 DEF CatchFails, RowFailed, WorkerAt, Throw, Idle, LeaveTry
  <2>4. UNCHANGED <<job[x], lockOwner[x], status[x], expired>>
    BY <1>18, <2>2 DEF CatchFails, RowFailed, Throw, ExportTypeOK
  <2> QED
    BY <2>1, <2>3, <2>4 DEF HandsOK, AloneOK, Assemble, BuildManifest
<1>19. ASSUME NEW w \in Workers, WorkerCrash(w)
      PROVE  AloneOK(v, x)'
  <2>1. wjob[v] = x /\ w # v
    BY <1>19, AbsentAssumption DEF WorkerCrash, Idle, ExportTypeOK
  <2>2. wjob[w] # x
    BY <1>19, <2>1 DEF WorkerCrash, HandsOK, AloneOK
  <2>3. UNCHANGED <<bucket, wpc[v], wjob[v], wpass[v], wtraces[v], wevents[v], wsnapshots[v]>>
    BY <1>19, <2>1 DEF WorkerCrash, WorkerAt, Idle, LeaveTry
  <2>4. UNCHANGED <<job[x], lockOwner[x], status[x], expired>>
    BY <1>19, <2>2 DEF WorkerCrash
  <2> QED
    BY <2>1, <2>3, <2>4 DEF HandsOK, AloneOK, Assemble, BuildManifest
<1>20. ASSUME NEW t \in Traces, Compacted(t)
      PROVE  AloneOK(v, x)'
  BY <1>20 DEF Compacted, HandsOK, AloneOK, Assemble, BuildManifest
<1> QED
  BY <1>1, <1>2, <1>3, <1>4, <1>5, <1>6, <1>7, <1>8, <1>9, <1>10, <1>11, <1>12, <1>13, <1>14,
     <1>15, <1>16, <1>17, <1>18, <1>19, <1>20
  DEF ExportNext, Work

\* Every step keeps archives complete: what a worker uploads is what it has read.
LEMMA ArchiveStep ==
  ASSUME ExportInv, ExportNext
  PROVE  ArchiveIsComplete'
<1> USE DEF ExportInv, rowVars, apiVars, queueVars, workerVars
<1>1. ASSUME NEW e \in Exports, NEW f \in Filters, CreateRow(e, f)
      PROVE  ArchiveIsComplete'
  BY <1>1 DEF CreateRow, ArchiveIsComplete, RowsOK, RowOK
<1>2. ASSUME NEW e \in Exports, Publish(e)
      PROVE  ArchiveIsComplete'
  BY <1>2 DEF Publish, ArchiveIsComplete
<1>3. ASSUME NEW e \in Exports, PublishFails(e)
      PROVE  ArchiveIsComplete'
  BY <1>3 DEF PublishFails, ArchiveIsComplete
<1>4. ASSUME NEW e \in Exports, Stall(e)
      PROVE  ArchiveIsComplete'
  BY <1>4 DEF Stall, ArchiveIsComplete
<1>5. ASSUME NEW e \in Exports, SignUrl(e)
      PROVE  ArchiveIsComplete'
  BY <1>5 DEF SignUrl, ArchiveIsComplete
<1>6. ASSUME NEW e \in Exports, DownloadExpires(e)
      PROVE  ArchiveIsComplete'
  BY <1>6 DEF DownloadExpires, ArchiveIsComplete
<1>7. ASSUME NEW w \in Workers, NEW e \in Exports, TakeJob(w, e)
      PROVE  ArchiveIsComplete'
  BY <1>7 DEF TakeJob, ArchiveIsComplete
<1>8. ASSUME NEW w \in Workers, MarkProcessing(w)
      PROVE  ArchiveIsComplete'
  BY <1>8 DEF MarkProcessing, ArchiveIsComplete
<1>9. ASSUME NEW w \in Workers, LoadTraces(w)
      PROVE  ArchiveIsComplete'
  BY <1>9 DEF LoadTraces, ArchiveIsComplete
<1>10. ASSUME NEW w \in Workers, IncludeSnapshots(w)
      PROVE  ArchiveIsComplete'
  BY <1>10 DEF IncludeSnapshots, ArchiveIsComplete
<1>11. ASSUME NEW w \in Workers, IncludeEvents(w)
      PROVE  ArchiveIsComplete'
  BY <1>11 DEF IncludeEvents, ArchiveIsComplete
<1>12. ASSUME NEW w \in Workers, PutArchive(w)
      PROVE  ArchiveIsComplete'
  BY <1>12 DEF PutArchive, ArchiveIsComplete, Assemble, BuildManifest, ReadsOK, ReadOK, Found
<1>13. ASSUME NEW w \in Workers, Complete(w)
      PROVE  ArchiveIsComplete'
  BY <1>13 DEF Complete, RowCompleted, ArchiveIsComplete
<1>14. ASSUME NEW w \in Workers, MarkFailed(w)
      PROVE  ArchiveIsComplete'
  BY <1>14 DEF MarkFailed, RowFailed, ArchiveIsComplete
<1>15. ASSUME NEW w \in Workers, Finish(w)
      PROVE  ArchiveIsComplete'
  BY <1>15 DEF Finish, ArchiveIsComplete
<1>16. ASSUME NEW w \in Workers, MarkFails(w)
      PROVE  ArchiveIsComplete'
  BY <1>16 DEF MarkFails, ArchiveIsComplete
<1>17. ASSUME NEW w \in Workers, StepFails(w)
      PROVE  ArchiveIsComplete'
  BY <1>17
  DEF StepFails, RowCompleted, ArchiveIsComplete, ExportTypeOK, Assemble, BuildManifest,
      ReadsOK, ReadOK,
      Found
<1>18. ASSUME NEW w \in Workers, CatchFails(w)
      PROVE  ArchiveIsComplete'
  BY <1>18 DEF CatchFails, RowFailed, ArchiveIsComplete
<1>19. ASSUME NEW w \in Workers, WorkerCrash(w)
      PROVE  ArchiveIsComplete'
  BY <1>19 DEF WorkerCrash, ArchiveIsComplete
<1>20. ASSUME NEW t \in Traces, Compacted(t)
      PROVE  ArchiveIsComplete'
  BY <1>20 DEF Compacted, ArchiveIsComplete
<1> QED
  BY <1>1, <1>2, <1>3, <1>4, <1>5, <1>6, <1>7, <1>8, <1>9, <1>10, <1>11, <1>12, <1>13, <1>14,
     <1>15, <1>16, <1>17, <1>18, <1>19, <1>20
  DEF ExportNext, Work

\* The row that is completed names the archive its worker has uploaded.
LEMMA CompletedNames ==
  ASSUME ExportInv, NEW w \in Workers, wpc[w] = "complete", RowCompleted(w),
         UNCHANGED <<bucket, expired>>
  PROVE  HashNamesArchive'
<1> SUFFICES ASSUME NEW x \in Exports, status'[x] = "completed", x \notin expired
             PROVE  bucket[x] # NoArchive /\ manifestHash'[x] = ManifestHash(bucket[x].manifest)
  BY DEF HashNamesArchive
<1>1. /\ wjob[w] \in Exports /\ ExportTypeOK /\ HandsOK /\ HashNamesArchive
      /\ wpass[w] \in Nat \ {0}
  BY HashOfPass DEF ExportInv
<1>2. CASE wjob[w] = x
  <2>1. bucket[x] = Assemble(w)
    BY <1>1, <1>2 DEF HandsOK, AloneOK
  <2>2. Assemble(w) \in Archive
    BY <1>1 DEF Assemble, BuildManifest, Archive, Manifest, ExportTypeOK
  <2>3. manifestHash'[x] = ManifestHash(BuildManifest(w))
    BY <1>1, <1>2 DEF RowCompleted, ExportTypeOK
  <2> QED
    BY <2>1, <2>2, <2>3, AbsentAssumption DEF Assemble
<1>3. CASE wjob[w] # x
  BY <1>1, <1>3 DEF RowCompleted, HashNamesArchive, ExportTypeOK
<1> QED
  BY <1>2, <1>3

\* Every step keeps the hash of a completed export that of its archive: only the worker
\* that has the job uploads, and it does so while the row is in processing.
LEMMA HashStep ==
  ASSUME ExportInv, ExportNext
  PROVE  HashNamesArchive'
<1> USE DEF ExportInv, rowVars, apiVars, queueVars, workerVars
<1>1. ASSUME NEW e \in Exports, NEW f \in Filters, CreateRow(e, f)
      PROVE  HashNamesArchive'
  BY <1>1 DEF CreateRow, HashNamesArchive
<1>2. ASSUME NEW e \in Exports, Publish(e)
      PROVE  HashNamesArchive'
  BY <1>2 DEF Publish, HashNamesArchive
<1>3. ASSUME NEW e \in Exports, PublishFails(e)
      PROVE  HashNamesArchive'
  BY <1>3 DEF PublishFails, HashNamesArchive
<1>4. ASSUME NEW e \in Exports, Stall(e)
      PROVE  HashNamesArchive'
  BY <1>4 DEF Stall, HashNamesArchive
<1>5. ASSUME NEW e \in Exports, SignUrl(e)
      PROVE  HashNamesArchive'
  BY <1>5 DEF SignUrl, HashNamesArchive
<1>6. ASSUME NEW e \in Exports, DownloadExpires(e)
      PROVE  HashNamesArchive'
  BY <1>6 DEF DownloadExpires, HashNamesArchive
<1>7. ASSUME NEW w \in Workers, NEW e \in Exports, TakeJob(w, e)
      PROVE  HashNamesArchive'
  BY <1>7 DEF TakeJob, HashNamesArchive
<1>8. ASSUME NEW w \in Workers, MarkProcessing(w)
      PROVE  HashNamesArchive'
  BY <1>8 DEF MarkProcessing, HashNamesArchive
<1>9. ASSUME NEW w \in Workers, LoadTraces(w)
      PROVE  HashNamesArchive'
  BY <1>9 DEF LoadTraces, HashNamesArchive
<1>10. ASSUME NEW w \in Workers, IncludeSnapshots(w)
      PROVE  HashNamesArchive'
  BY <1>10 DEF IncludeSnapshots, HashNamesArchive
<1>11. ASSUME NEW w \in Workers, IncludeEvents(w)
      PROVE  HashNamesArchive'
  BY <1>11 DEF IncludeEvents, HashNamesArchive
<1>12. ASSUME NEW w \in Workers, PutArchive(w)
      PROVE  HashNamesArchive'
  BY <1>12 DEF PutArchive, HashNamesArchive, HandsOK, AloneOK
<1>13. ASSUME NEW w \in Workers, Complete(w)
      PROVE  HashNamesArchive'
  BY <1>13, CompletedNames DEF Complete
<1>14. ASSUME NEW w \in Workers, MarkFailed(w)
      PROVE  HashNamesArchive'
  BY <1>14 DEF MarkFailed, RowFailed, Throw, HashNamesArchive
<1>15. ASSUME NEW w \in Workers, Finish(w)
      PROVE  HashNamesArchive'
  BY <1>15 DEF Finish, HashNamesArchive
<1>16. ASSUME NEW w \in Workers, MarkFails(w)
      PROVE  HashNamesArchive'
  <2>1. \A x \in Exports : status'[x] = "completed" => status[x] = "completed"
    BY <1>16 DEF MarkFails, ExportTypeOK
  <2> QED
    BY <1>16, <2>1 DEF MarkFails, Throw, HashNamesArchive
<1>17. ASSUME NEW w \in Workers, StepFails(w)
      PROVE  HashNamesArchive'
  <2>1. CASE UNCHANGED rowVars
    BY <1>17, <2>1 DEF StepFails, HashNamesArchive, HandsOK, AloneOK, ExportTypeOK
  <2>2. CASE wpc[w] = "complete" /\ RowCompleted(w) /\ UNCHANGED bucket
    BY <1>17, <2>2, CompletedNames DEF StepFails
  <2> QED
    BY <1>17, <2>1, <2>2 DEF StepFails
<1>18. ASSUME NEW w \in Workers, CatchFails(w)
      PROVE  HashNamesArchive'
  <2>1. \A x \in Exports : status'[x] = "completed" => status[x] = "completed"
    BY <1>18 DEF CatchFails, RowFailed, ExportTypeOK
  <2> QED
    BY <1>18, <2>1 DEF CatchFails, RowFailed, Throw, HashNamesArchive
<1>19. ASSUME NEW w \in Workers, WorkerCrash(w)
      PROVE  HashNamesArchive'
  BY <1>19 DEF WorkerCrash, HashNamesArchive
<1>20. ASSUME NEW t \in Traces, Compacted(t)
      PROVE  HashNamesArchive'
  BY <1>20 DEF Compacted, HashNamesArchive
<1> QED
  BY <1>1, <1>2, <1>3, <1>4, <1>5, <1>6, <1>7, <1>8, <1>9, <1>10, <1>11, <1>12, <1>13, <1>14,
     <1>15, <1>16, <1>17, <1>18, <1>19, <1>20
  DEF ExportNext, Work

\* Every step keeps tickets behind their archives: an archive is replaced only by that of
\* a later pass.
LEMMA TicketStep ==
  ASSUME ExportInv, ExportNext
  PROVE  TicketIsNotAhead'
<1> USE DEF ExportInv, rowVars, apiVars, queueVars, workerVars
<1>1. ASSUME NEW e \in Exports, NEW f \in Filters, CreateRow(e, f)
      PROVE  TicketIsNotAhead'
  BY <1>1 DEF CreateRow, TicketIsNotAhead
<1>2. ASSUME NEW e \in Exports, Publish(e)
      PROVE  TicketIsNotAhead'
  BY <1>2 DEF Publish, TicketIsNotAhead
<1>3. ASSUME NEW e \in Exports, PublishFails(e)
      PROVE  TicketIsNotAhead'
  BY <1>3 DEF PublishFails, TicketIsNotAhead
<1>4. ASSUME NEW e \in Exports, Stall(e)
      PROVE  TicketIsNotAhead'
  BY <1>4 DEF Stall, TicketIsNotAhead
<1>5. ASSUME NEW e \in Exports, SignUrl(e)
      PROVE  TicketIsNotAhead'
  BY <1>5 DEF SignUrl, TicketIsNotAhead, ExportTypeOK, HashNamesArchive, ManifestHash
<1>6. ASSUME NEW e \in Exports, DownloadExpires(e)
      PROVE  TicketIsNotAhead'
  BY <1>6 DEF DownloadExpires, TicketIsNotAhead
<1>7. ASSUME NEW w \in Workers, NEW e \in Exports, TakeJob(w, e)
      PROVE  TicketIsNotAhead'
  BY <1>7 DEF TakeJob, TicketIsNotAhead
<1>8. ASSUME NEW w \in Workers, MarkProcessing(w)
      PROVE  TicketIsNotAhead'
  BY <1>8 DEF MarkProcessing, TicketIsNotAhead
<1>9. ASSUME NEW w \in Workers, LoadTraces(w)
      PROVE  TicketIsNotAhead'
  BY <1>9 DEF LoadTraces, TicketIsNotAhead
<1>10. ASSUME NEW w \in Workers, IncludeSnapshots(w)
      PROVE  TicketIsNotAhead'
  BY <1>10 DEF IncludeSnapshots, TicketIsNotAhead
<1>11. ASSUME NEW w \in Workers, IncludeEvents(w)
      PROVE  TicketIsNotAhead'
  BY <1>11 DEF IncludeEvents, TicketIsNotAhead
<1>12. ASSUME NEW w \in Workers, PutArchive(w)
      PROVE  TicketIsNotAhead'
  <2> SUFFICES ASSUME NEW x \in Exports, ticket'[x] # NoManifest, x \notin expired'
               PROVE  bucket'[x] # NoArchive
                      /\ \/ bucket'[x].manifest = ticket'[x].of
                         \/ bucket'[x].manifest.pass > ticket'[x].of.pass
    BY DEF TicketIsNotAhead
  <2>1. bucket[x] # NoArchive /\ UNCHANGED ticket
    BY <1>12 DEF PutArchive, TicketIsNotAhead
  <2>2. CASE bucket'[x] = bucket[x]
    BY <1>12, <2>1, <2>2 DEF PutArchive, TicketIsNotAhead
  <2>3. CASE bucket'[x] # bucket[x]
    <3>1. wjob[w] = x /\ wpc[w] = "put" /\ bucket' = [bucket EXCEPT ![x] = Assemble(w)]
      BY <1>12, <2>3 DEF PutArchive, ExportTypeOK
    <3>2. bucket[x].manifest.pass < wpass[w]
      BY <1>12, <2>1, <3>1 DEF PutArchive, HandsOK, AloneOK
    <3>3. ticket[x].of.pass \in Nat /\ bucket[x].manifest.pass \in Nat /\ wpass[w] \in Nat
      BY <2>1 DEF ExportTypeOK, Archive, Hash, Manifest
    <3>4. ticket[x].of.pass <= bucket[x].manifest.pass
      BY <1>12, <2>1, <3>3 DEF PutArchive, TicketIsNotAhead
    <3>5. bucket'[x].manifest.pass = wpass[w] /\ bucket'[x] # NoArchive
      BY <2>1, <3>1, TypesStep, AbsentAssumption
      DEF Assemble, BuildManifest, Archive, Manifest, PassesOK, PassOK, ExportTypeOK
    <3> QED
      BY <2>1, <3>2, <3>3, <3>4, <3>5
  <2> QED
    BY <2>2, <2>3
<1>13. ASSUME NEW w \in Workers, Complete(w)
      PROVE  TicketIsNotAhead'
  BY <1>13 DEF Complete, RowCompleted, TicketIsNotAhead
<1>14. ASSUME NEW w \in Workers, MarkFailed(w)
      PROVE  TicketIsNotAhead'
  BY <1>14 DEF MarkFailed, RowFailed, Throw, TicketIsNotAhead
<1>15. ASSUME NEW w \in Workers, Finish(w)
      PROVE  TicketIsNotAhead'
  BY <1>15 DEF Finish, TicketIsNotAhead
<1>16. ASSUME NEW w \in Workers, MarkFails(w)
      PROVE  TicketIsNotAhead'
  BY <1>16 DEF MarkFails, Throw, TicketIsNotAhead
<1>17. ASSUME NEW w \in Workers, StepFails(w)
      PROVE  TicketIsNotAhead'
  <2> SUFFICES ASSUME NEW x \in Exports, ticket'[x] # NoManifest, x \notin expired'
               PROVE  bucket'[x] # NoArchive
                      /\ \/ bucket'[x].manifest = ticket'[x].of
                         \/ bucket'[x].manifest.pass > ticket'[x].of.pass
    BY DEF TicketIsNotAhead
  <2>1. bucket[x] # NoArchive /\ UNCHANGED ticket
    BY <1>17 DEF StepFails, RowCompleted, TicketIsNotAhead
  <2>2. CASE bucket'[x] = bucket[x]
    BY <1>17, <2>1, <2>2 DEF StepFails, RowCompleted, TicketIsNotAhead
  <2>3. CASE bucket'[x] # bucket[x]
    <3>1. wjob[w] = x /\ wpc[w] = "put" /\ bucket' = [bucket EXCEPT ![x] = Assemble(w)]
      BY <1>17, <2>3 DEF StepFails, RowCompleted, ExportTypeOK
    <3>2. bucket[x].manifest.pass < wpass[w]
      BY <1>17, <2>1, <3>1 DEF StepFails, RowCompleted, HandsOK, AloneOK
    <3>3. ticket[x].of.pass \in Nat /\ bucket[x].manifest.pass \in Nat /\ wpass[w] \in Nat
      BY <2>1 DEF ExportTypeOK, Archive, Hash, Manifest
    <3>4. ticket[x].of.pass <= bucket[x].manifest.pass
      BY <1>17, <2>1, <3>3 DEF StepFails, RowCompleted, TicketIsNotAhead
    <3>5. bucket'[x].manifest.pass = wpass[w] /\ bucket'[x] # NoArchive
      BY <2>1, <3>1, TypesStep, AbsentAssumption
      DEF Assemble, BuildManifest, Archive, Manifest, PassesOK, PassOK, ExportTypeOK
    <3> QED
      BY <2>1, <3>2, <3>3, <3>4, <3>5
  <2> QED
    BY <2>2, <2>3
<1>18. ASSUME NEW w \in Workers, CatchFails(w)
      PROVE  TicketIsNotAhead'
  BY <1>18 DEF CatchFails, RowFailed, Throw, TicketIsNotAhead
<1>19. ASSUME NEW w \in Workers, WorkerCrash(w)
      PROVE  TicketIsNotAhead'
  BY <1>19 DEF WorkerCrash, TicketIsNotAhead
<1>20. ASSUME NEW t \in Traces, Compacted(t)
      PROVE  TicketIsNotAhead'
  BY <1>20 DEF Compacted, TicketIsNotAhead
<1> QED
  BY <1>1, <1>2, <1>3, <1>4, <1>5, <1>6, <1>7, <1>8, <1>9, <1>10, <1>11, <1>12, <1>13, <1>14,
     <1>15, <1>16, <1>17, <1>18, <1>19, <1>20
  DEF ExportNext, Work

-----------------------------------------------------------------------------
\* Nothing of the invariant depends on anything but the variables.
LEMMA ExportStutter == ExportInv /\ UNCHANGED exportVars => ExportInv'
<1> SUFFICES ASSUME ExportInv, UNCHANGED exportVars PROVE ExportInv'
  OBVIOUS
<1> USE DEF exportVars, rowVars, apiVars, queueVars, workerVars, ExportInv
<1>1. ExportTypeOK'
  BY DEF ExportTypeOK
<1>2. (RowsOK /\ PassesOK /\ UploadsOK)'
  BY DEF RowsOK, RowOK, PassesOK, PassOK, UploadsOK, UploadOK
<1>3. ReadsOK'
  BY DEF ReadsOK, ReadOK, Found
<1>4. HandsOK'
  BY DEF HandsOK, AloneOK, Assemble, BuildManifest
<1>5. (ArchiveIsComplete /\ HashNamesArchive /\ TicketIsNotAhead)'
  BY DEF ArchiveIsComplete, HashNamesArchive, TicketIsNotAhead
<1> QED
  BY <1>1, <1>2, <1>3, <1>4, <1>5

\* Every step of exports, queue and retention keeps the invariant.
LEMMA ExportStep == ExportInv /\ [ExportNext]_exportVars => ExportInv'
<1> SUFFICES ASSUME ExportInv, ExportNext PROVE ExportInv'
  BY ExportStutter
<1> QED
  BY TypesStep, RowsStep, PassesStep, ReadsStep, UploadsStep, HandsStep, ArchiveStep, HashStep,
     TicketStep
  DEF ExportInv

\* Rows, the queue, the workers and the archives keep their types, and are related as
\* ExportInv says, in every reachable state.
THEOREM ExportInvariant == ExportSpec => []ExportInv
  BY ExportInvInit, ExportStep, PTL DEF ExportSpec

\* A completed export records the hash of the manifest that lies under its key, unless
\* its lock expired under a live worker.
THEOREM HashNaming == ExportSpec => []HashNamesArchive
<1>1. ExportInv => HashNamesArchive
  BY DEF ExportInv
<1> QED
  BY <1>1, ExportInvariant, PTL

\* Whatever retention deletes meanwhile and whichever workers overlap, what is still
\* there of the traces asked for is in the archive with all it has.
THEOREM ArchiveCompleteness == ExportSpec => []ArchiveIsComplete
<1>1. ExportInv => ArchiveIsComplete
  BY DEF ExportInv
<1> QED
  BY <1>1, ExportInvariant, PTL

\* A signed URL serves the archive whose hash came with it or that of a later pass.
THEOREM TicketOrder == ExportSpec => []TicketIsNotAhead
<1>1. ExportInv => TicketIsNotAhead
  BY DEF ExportInv
<1> QED
  BY <1>1, ExportInvariant, PTL

-----------------------------------------------------------------------------
\* The exports that have a hash, which is what ExportRows calls recorded.
Recorded == {e \in Exports : manifestHash[e] # NoManifest}

\* The steps that touch neither a status nor a hash.
LEMMA RowsRest ==
  ASSUME ExportNext
  PROVE  \/ UNCHANGED <<status, manifestHash>>
         \/ \E e \in Exports, f \in Filters : CreateRow(e, f)
         \/ \E w \in Workers : \/ MarkProcessing(w) \/ Complete(w) \/ MarkFailed(w)
                              \/ MarkFails(w) \/ StepFails(w) \/ CatchFails(w)
<1> USE DEF rowVars
<1>1. ASSUME NEW e \in Exports,
             Publish(e) \/ PublishFails(e) \/ Stall(e) \/ SignUrl(e) \/ DownloadExpires(e)
      PROVE  UNCHANGED <<status, manifestHash>>
  BY <1>1 DEF Publish, PublishFails, Stall, SignUrl, DownloadExpires
<1>2. ASSUME NEW w \in Workers, NEW e \in Exports, TakeJob(w, e)
      PROVE  UNCHANGED <<status, manifestHash>>
  BY <1>2 DEF TakeJob
<1>3. ASSUME NEW w \in Workers,
             \/ LoadTraces(w) \/ IncludeSnapshots(w) \/ IncludeEvents(w) \/ PutArchive(w)
             \/ Finish(w) \/ WorkerCrash(w)
      PROVE  UNCHANGED <<status, manifestHash>>
  BY <1>3 DEF LoadTraces, IncludeSnapshots, IncludeEvents, PutArchive, Finish, WorkerCrash
<1>4. ASSUME NEW t \in Traces, Compacted(t)
      PROVE  UNCHANGED <<status, manifestHash>>
  BY <1>4 DEF Compacted
<1> QED
  BY <1>1, <1>2, <1>3, <1>4 DEF ExportNext, Work

\* A request makes the row, a claim and the two ends of a pass move it as ExportRows
\* says, whether their answer arrives or not, and a completion records the hash.
LEMMA RowsSimulation ==
  ASSUME ExportInv, [ExportNext]_exportVars
  PROVE  [Rows!RowsNext]_<<status, Recorded>>
<1> DEFINE Ends == {e \in Exports : status'[e] = "completed"}
           Step == /\ \E e \in Exports :
                        Rows!Requested(e) \/ Rows!Claimed(e) \/ Rows!Settled(e)
                   /\ Recorded' = Recorded \cup Ends
<1>1. /\ status \in [Exports -> {"none", "pending", "processing", "completed", "failed"}]
      /\ manifestHash \in [Exports -> Hash \cup {NoManifest}]
      /\ \A e \in Exports : status[e] = "completed" => manifestHash[e] # NoManifest
  BY DEF ExportInv, ExportTypeOK, RowsOK, RowOK
<1>2. ASSUME NEW w \in Workers, wpc[w] # "idle"
      PROVE  /\ wjob[w] \in Exports /\ status[wjob[w]] # "none"
             /\ wpc[w] # "claim" => status[wjob[w]] # "pending"
             /\ ManifestHash(BuildManifest(w)) # NoManifest
  <2>1. /\ wjob[w] \in Exports /\ job[wjob[w]] # "none"
        /\ wpc[w] # "claim" => status[wjob[w]] \notin {"none", "pending"}
    BY <1>2, HashOfPass DEF ExportInv, PassesOK, PassOK
  <2>2. status[wjob[w]] # "none"
    BY <2>1 DEF ExportInv, RowsOK, RowOK, ExportTypeOK
  <2> QED
    BY <1>2, <2>1, <2>2, HashOfPass
<1>3. ASSUME NEW e \in Exports, NEW s, s # "completed", status' = [status EXCEPT ![e] = s],
             UNCHANGED manifestHash
      PROVE  Recorded' = Recorded \cup Ends
  BY <1>1, <1>3 DEF Recorded
<1>4. ASSUME NEW e \in Exports, NEW f \in Filters, CreateRow(e, f)
      PROVE  Step
  <2>1. Rows!Requested(e)
    BY <1>4 DEF CreateRow, Rows!Requested, ExportInv, RowsOK, RowOK
  <2> QED
    BY <1>3, <1>4, <2>1 DEF CreateRow
<1>5. ASSUME NEW w \in Workers, wpc[w] # "idle",
             status' = [status EXCEPT ![wjob[w]] = "processing"], UNCHANGED manifestHash
      PROVE  Step
  BY <1>2, <1>3, <1>5 DEF Rows!Claimed
<1>6. ASSUME NEW w \in Workers, wpc[w] \notin {"idle", "claim"}, RowFailed(w)
      PROVE  Step
  <2>1. Rows!Settled(wjob[w])
    BY <1>2, <1>6 DEF RowFailed, Rows!Settled
  <2> QED
    BY <1>2, <1>3, <1>6, <2>1 DEF RowFailed
<1>7. ASSUME NEW w \in Workers, wpc[w] = "complete", RowCompleted(w)
      PROVE  Step
  <2>1. Rows!Settled(wjob[w])
    BY <1>2, <1>7 DEF RowCompleted, Rows!Settled
  <2>2. Recorded' = Recorded \cup Ends
    BY <1>1, <1>2, <1>7 DEF RowCompleted, Recorded
  <2> QED
    BY <1>2, <1>7, <2>1, <2>2
<1>8. ASSUME NEW w \in Workers, MarkProcessing(w) \/ MarkFails(w)
      PROVE  Step \/ UNCHANGED <<status, manifestHash>>
  BY <1>5, <1>8 DEF MarkProcessing, MarkFails
<1>9. ASSUME NEW w \in Workers, Complete(w) \/ StepFails(w)
      PROVE  Step \/ UNCHANGED <<status, manifestHash>>
  BY <1>7, <1>9 DEF Complete, StepFails, rowVars
<1>10. ASSUME NEW w \in Workers, MarkFailed(w) \/ CatchFails(w)
       PROVE  Step \/ UNCHANGED <<status, manifestHash>>
  BY <1>6, <1>10 DEF MarkFailed, CatchFails, rowVars
<1>11. UNCHANGED exportVars => UNCHANGED <<status, manifestHash>>
  BY DEF exportVars, rowVars
<1>12. Step \/ UNCHANGED <<status, manifestHash>>
  BY <1>4, <1>8, <1>9, <1>10, <1>11, RowsRest
<1>13. UNCHANGED <<status, manifestHash>> => UNCHANGED <<status, Recorded>>
  BY DEF Recorded
<1>14. Step => Rows!RowsNext
  BY DEF Rows!RowsNext, Recorded
<1> QED
  BY <1>12, <1>13, <1>14

\* Whoever reads export_jobs sees the steps ExportRows promises, and no others: above all
\* a row that was once completed names an archive from then on.
THEOREM ExportRowsRefinement == ExportSpec => ImplementsExportRows
<1>1. ExportInit => Rows!RowsInit
  BY DEF ExportInit, Rows!RowsInit
<1>2. ExportInv /\ [ExportNext]_exportVars => [Rows!RowsNext]_<<status, Recorded>>
  BY RowsSimulation
<1> QED
  BY <1>1, <1>2, ExportInvariant, PTL
  DEF ExportSpec, ImplementsExportRows, Rows!RowsSpec, Recorded

-----------------------------------------------------------------------------
\* ZipArchive: the sums of lengths that FoldLeft computes.

\* Induction: a set that holds 0 and is closed under successor holds every number.
LEMMA SetInduction ==
  ASSUME NEW G, 0 \in G, \A n \in Nat : n \in G => n + 1 \in G
  PROVE  Nat \subseteq G
<1> DEFINE T == Nat \ G
           R == OpToRel(<, Nat)
<1>1. ASSUME T # {} PROVE FALSE
  <2>1. IsWellFoundedOn(R, Nat)
    BY NatLessThanWellFounded
  <2>2. T \subseteq Nat
    OBVIOUS
  <2> HIDE DEF T, R
  <2>3. PICK x \in T : \A y \in T : ~(<<y, x>> \in R)
    BY <1>1, <2>1, <2>2, WFMin
  <2>4. \A y \in T : ~(y < x)
    BY <2>2, <2>3 DEF R, OpToRel
  <2> USE DEF T
  <2>5. x \in Nat /\ x \notin G /\ x # 0
    BY <2>3
  <2>6. x - 1 \in Nat /\ x - 1 < x /\ (x - 1) + 1 = x
    BY <2>5
  <2>7. x - 1 \in G
    BY <2>4, <2>6
  <2> QED
    BY <2>5, <2>6, <2>7
<1> QED
  BY <1>1

\* The function that FoldLeft defines by recursion on sets of indices.
Summed(parts, g, D) ==
  g = [s \in SUBSET D |-> IF s = {} THEN 0 ELSE g[s \ {Max(s)}] + LocalLength(parts[Max(s)])]

\* The largest index of a set is in it.
HasLast(D) == \A s \in SUBSET D : s # {} => Max(s) \in s

\* The largest of the first m numbers.
LEMMA LastOfInterval ==
  ASSUME NEW m \in Nat, NEW s \in SUBSET (1..(m + 1)), m + 1 \in s
  PROVE  Max(s) = m + 1
<1>1. \A y \in s : m + 1 >= y
  OBVIOUS
<1>2. \A x \in s : (\A y \in s : x >= y) => x = m + 1
  OBVIOUS
<1> QED
  BY <1>1, <1>2, Zenon DEF Max

\* FoldLeft's recursion on the first m indices has a solution.
LEMMA SummedExists ==
  ASSUME NEW parts, NEW n \in Nat
  PROVE  HasLast(1..n) /\ \E g : Summed(parts, g, 1..n)
<1> DEFINE G == {m \in Nat : HasLast(1..m) /\ \E g : Summed(parts, g, 1..m)}
<1>1. 0 \in G
  <2>1. 1..0 = {} /\ SUBSET {} = {{}}
    OBVIOUS
  <2>2. HasLast({})
    BY <2>1 DEF HasLast
  <2>3. Summed(parts, [s \in SUBSET {} |-> 0], {})
    BY <2>1, Zenon DEF Summed
  <2> QED
    BY <2>1, <2>2, <2>3
<1>2. ASSUME NEW m \in Nat, m \in G PROVE m + 1 \in G
  <2> DEFINE C == 1..m
             D == 1..(m + 1)
  <2>1. PICK g : Summed(parts, g, C)
    BY <1>2
  <2>2. HasLast(C)
    BY <1>2
  <2>3. /\ C \subseteq D /\ m + 1 \notin C
        /\ \A s \in SUBSET D : m + 1 \notin s => s \in SUBSET C
        /\ \A s \in SUBSET D : s \ {m + 1} \in SUBSET C
    OBVIOUS
  <2>4. \A s \in SUBSET D : m + 1 \in s => Max(s) = m + 1
    BY LastOfInterval
  <2>5. HasLast(D)
    BY <2>2, <2>3, <2>4 DEF HasLast
  <2> DEFINE last == m + 1
             h == [s \in SUBSET D |->
                     IF last \in s THEN g[s \ {last}] + LocalLength(parts[last]) ELSE g[s]]
  <2> HIDE DEF C, D, last
  <2>6. ASSUME NEW s \in SUBSET D
        PROVE  h[s] = IF s = {} THEN 0
                               ELSE h[s \ {Max(s)}] + LocalLength(parts[Max(s)])
    <3>1. CASE s = {}
      <4>1. s \in SUBSET C /\ last \notin s
        BY <3>1
      <4>2. h[s] = g[s]
        BY <4>1
      <4>3. g[s] = 0
        BY <2>1, <3>1, <4>1, Zenon DEF Summed
      <4> QED
        BY <3>1, <4>2, <4>3
    <3>2. CASE last \in s
      <4>1. Max(s) = last /\ s # {}
        BY <2>4, <3>2 DEF last
      <4>2. s \ {last} \in SUBSET D /\ last \notin s \ {last}
        OBVIOUS
      <4>3. h[s \ {last}] = g[s \ {last}]
        BY <4>2
      <4>4. h[s] = g[s \ {last}] + LocalLength(parts[last])
        BY <3>2
      <4> QED
        BY <4>1, <4>3, <4>4
    <3>3. CASE last \notin s /\ s # {}
      <4>1. s \in SUBSET C
        BY <2>3, <3>3 DEF last
      <4>2. g[s] = g[s \ {Max(s)}] + LocalLength(parts[Max(s)])
        BY <2>1, <3>3, <4>1, Zenon DEF Summed
      <4>3. s \ {Max(s)} \in SUBSET D /\ last \notin s \ {Max(s)}
        BY <3>3
      <4>4. h[s] = g[s] /\ h[s \ {Max(s)}] = g[s \ {Max(s)}]
        BY <3>3, <4>3
      <4> QED
        BY <3>3, <4>2, <4>4
    <3> QED
      BY <3>1, <3>2, <3>3
  <2> HIDE DEF h
  <2>7. h = [s \in SUBSET D |-> h[s]]
    BY DEF h
  <2>8. Summed(parts, h, D)
    BY <2>6, <2>7, Zenon DEF Summed
  <2> QED
    BY <2>5, <2>8 DEF D
<1> HIDE DEF G
<1>3. Nat \subseteq G
  BY <1>1, <1>2, SetInduction
<1> QED
  BY <1>3 DEF G

\* Total adds the lengths from the first part to the last.
LEMMA TotalSteps ==
  ASSUME NEW n \in Nat, NEW parts, DOMAIN parts = 1..n
  PROVE  \E g : /\ g[1..0] = 0
                /\ \A k \in 1..n : g[1..k] = g[1..(k - 1)] + LocalLength(parts[k])
                /\ Total(LocalLength, parts) = g[1..n]
<1> DEFINE D == 1..n
           iter[s \in SUBSET DOMAIN parts] ==
             IF s = {} THEN 0
                       ELSE iter[s \ {Max(s)}] + LocalLength(parts[Max(s)])
<1>1. Total(LocalLength, parts) = iter[DOMAIN parts]
  BY Zenon DEF Total, FoldLeft, MapThenFoldSet
<1>2. \E g : g = [s \in SUBSET DOMAIN parts |->
                    IF s = {} THEN 0
                              ELSE g[s \ {Max(s)}] + LocalLength(parts[Max(s)])]
  <2>1. PICK g : Summed(parts, g, 1..n)
    BY SummedExists, Zenon
  <2> QED
    BY <2>1, Zenon DEF Summed
<1>3. iter = [s \in SUBSET DOMAIN parts |->
                IF s = {} THEN 0
                          ELSE iter[s \ {Max(s)}] + LocalLength(parts[Max(s)])]
  BY <1>2, Zenon
<1> HIDE DEF iter
<1>4. \A s \in SUBSET D : iter[s] = IF s = {} THEN 0
                                    ELSE iter[s \ {Max(s)}] + LocalLength(parts[Max(s)])
  BY <1>3, Zenon
<1>5. iter[1..0] = 0
  <2>1. 1..0 = {} /\ {} \in SUBSET D
    OBVIOUS
  <2> QED
    BY <1>4, <2>1
<1>6. ASSUME NEW k \in 1..n PROVE iter[1..k] = iter[1..(k - 1)] + LocalLength(parts[k])
  <2>1. k - 1 \in Nat /\ (k - 1) + 1 = k /\ 1..k \in SUBSET D /\ k \in 1..k
    OBVIOUS
  <2>2. Max(1..k) = k
    BY <2>1, LastOfInterval
  <2>3. (1..k) \ {k} = 1..(k - 1) /\ 1..k # {}
    OBVIOUS
  <2> HIDE DEF D
  <2> QED
    BY <1>4, <2>1, <2>2, <2>3
<1> QED
  BY <1>1, <1>5, <1>6

\* The total with one more part.
LEMMA TotalOfAppend ==
  ASSUME NEW P, NEW parts \in Seq(P), NEW piece \in P
  PROVE  Total(LocalLength, Append(parts, piece))
           = Total(LocalLength, parts) + LocalLength(piece)
<1> DEFINE n == Len(parts)
           longer == Append(parts, piece)
<1>1. n \in Nat /\ DOMAIN parts = 1..n /\ DOMAIN longer = 1..(n + 1)
  OBVIOUS
<1>2. longer[n + 1] = piece /\ \A k \in 1..n : longer[k] = parts[k]
  OBVIOUS
<1> HIDE DEF n, longer
<1>3. PICK g : /\ g[1..0] = 0
               /\ \A k \in 1..n : g[1..k] = g[1..(k - 1)] + LocalLength(parts[k])
               /\ Total(LocalLength, parts) = g[1..n]
  BY <1>1, TotalSteps
<1>4. PICK h : /\ h[1..0] = 0
               /\ \A k \in 1..(n + 1) : h[1..k] = h[1..(k - 1)] + LocalLength(longer[k])
               /\ Total(LocalLength, longer) = h[1..(n + 1)]
  <2>1. n + 1 \in Nat
    BY <1>1
  <2> QED
    BY <1>1, <2>1, TotalSteps
<1> DEFINE G == {k \in Nat : k <= n => h[1..k] = g[1..k]}
<1>5. 0 \in G
  BY <1>3, <1>4
<1>6. ASSUME NEW k \in Nat, k \in G PROVE k + 1 \in G
  <2> SUFFICES ASSUME k + 1 <= n PROVE h[1..(k + 1)] = g[1..(k + 1)]
    OBVIOUS
  <2>1. k + 1 \in 1..n /\ k + 1 \in 1..(n + 1) /\ (k + 1) - 1 = k /\ k <= n
    BY <1>1
  <2>2. h[1..(k + 1)] = h[1..k] + LocalLength(longer[k + 1])
    BY <1>4, <2>1
  <2>3. g[1..(k + 1)] = g[1..k] + LocalLength(parts[k + 1])
    BY <1>3, <2>1
  <2>4. longer[k + 1] = parts[k + 1]
    BY <1>2, <2>1
  <2>5. h[1..k] = g[1..k]
    BY <1>6, <2>1
  <2> QED
    BY <2>2, <2>3, <2>4, <2>5
<1> HIDE DEF G
<1>7. n \in G
  BY <1>1, <1>5, <1>6, SetInduction
<1>8. h[1..n] = g[1..n]
  BY <1>1, <1>7 DEF G
<1>9. h[1..(n + 1)] = h[1..n] + LocalLength(longer[n + 1])
  <2>1. n + 1 \in 1..(n + 1) /\ (n + 1) - 1 = n
    BY <1>1
  <2> QED
    BY <1>4, <2>1
<1> QED
  BY <1>2, <1>3, <1>4, <1>8, <1>9 DEF longer

\* Where the parts start stays when one more follows, which starts at their total.
LEMMA StartsStay ==
  ASSUME NEW P, NEW parts \in Seq(P), NEW piece \in P
  PROVE  /\ \A j \in 1..Len(parts) :
              Start(LocalLength, Append(parts, piece), j) = Start(LocalLength, parts, j)
         /\ Start(LocalLength, Append(parts, piece), Len(parts) + 1) = Total(LocalLength, parts)
<1> DEFINE longer == Append(parts, piece)
<1>1. ASSUME NEW j \in 1..Len(parts)
      PROVE  SubSeq(longer, 1, j - 1) = SubSeq(parts, 1, j - 1)
  OBVIOUS
<1>2. SubSeq(longer, 1, (Len(parts) + 1) - 1) = parts
  OBVIOUS
<1> HIDE DEF longer
<1>3. \A j \in 1..Len(parts) : Start(LocalLength, longer, j) = Start(LocalLength, parts, j)
  BY <1>1 DEF Start
<1>4. Start(LocalLength, longer, Len(parts) + 1) = Total(LocalLength, parts)
  BY <1>2 DEF Start
<1> QED
  BY <1>3, <1>4 DEF longer

-----------------------------------------------------------------------------
\* The parts of an archive.
Local == [crc : Bodies, size : Nat, name : Nat, path : DOMAIN NameLength, data : Bodies]
Central == [crc : Bodies, size : Nat, name : Nat, at : Nat, path : DOMAIN NameLength]

ZipTypeOK ==
  /\ body \in [DOMAIN Paths -> Bodies]
  /\ locals \in Seq(Local) /\ centrals \in Seq(Central) /\ offset \in Nat
  /\ zip.pc \in {"loop", "done", "thrown"}

\* There is a local and a central part of each path so far; the next local part goes where
\* the ones before it end, and an entry says where its own starts.
PartsOK ==
  /\ Len(centrals) = Len(locals) /\ Len(locals) <= Len(Paths)
  /\ offset = Total(LocalLength, locals)
  /\ \A i \in 1..Len(locals) :
       /\ locals[i] = LocalPart(Paths[i], body[i])
       /\ centrals[i] = CentralPart(Paths[i], body[i], Start(LocalLength, locals, i))

\* The end record is written when all parts are.
EndOK ==
  zip.pc = "done" =>
    /\ Len(locals) = Len(Paths)
    /\ zip.end = [count |-> Len(Paths), size |-> Total(CentralLength, centrals), at |-> offset]

\* The inductive invariant.
ZipInv == ZipTypeOK /\ PartsOK /\ EndOK

\* An archive begins with nothing.
LEMMA ZipInvInit == ZipInit => ZipInv
<1> SUFFICES ASSUME ZipInit PROVE ZipInv
  OBVIOUS
<1>1. Total(LocalLength, <<>>) = 0
  <2>1. DOMAIN <<>> = 1..0
    OBVIOUS
  <2> QED
    BY <2>1, TotalSteps
<1>2. Len(locals) = 0 /\ Len(centrals) = 0 /\ 1..Len(locals) = {} /\ Len(Paths) \in Nat
  BY ZipAssumption DEF ZipInit
<1>3. ZipTypeOK
  BY DEF ZipInit, ZipTypeOK
<1>4. PartsOK
  BY <1>1, <1>2 DEF ZipInit, PartsOK
<1>5. EndOK
  BY DEF ZipInit, EndOK
<1> QED
  BY <1>3, <1>4, <1>5 DEF ZipInv

\* A file more: its two parts, at the end of what is there.
LEMMA AddFileKeeps ==
  ASSUME ZipInv, NEW i \in DOMAIN Paths, AddFile(i)
  PROVE  ZipInv'
<1> USE DEF ZipInv
<1> DEFINE piece == LocalPart(Paths[i], body[i])
           entry == CentralPart(Paths[i], body[i], offset)
<1>1. /\ zip.pc = "loop" /\ zip' = zip /\ body' = body /\ i = Len(locals) + 1
      /\ locals' = Append(locals, piece) /\ centrals' = Append(centrals, entry)
      /\ offset' = offset + LocalLength(piece)
  BY DEF AddFile
<1>2. Paths[i] \in DOMAIN NameLength /\ body[i] \in Bodies /\ i <= Len(Paths)
  BY ZipAssumption DEF ZipTypeOK
<1>3. NameLength[Paths[i]] \in Nat /\ BodyLength[body[i]] \in Nat
  BY <1>2, ZipAssumption
<1>4. /\ piece \in Local /\ entry \in Central
      /\ piece.path = Paths[i] /\ piece.data = body[i]
  BY <1>2, <1>3 DEF LocalPart, CentralPart, Local, Central, ZipTypeOK
<1>5. LocalLength(piece) \in Nat
  BY <1>3, <1>4 DEF LocalLength, LocalHeader
<1> HIDE DEF piece, entry
<1>6. ZipTypeOK'
  BY <1>1, <1>4, <1>5 DEF ZipTypeOK
<1>7. Len(locals') = i /\ Len(centrals') = i
  BY <1>1, <1>4 DEF ZipTypeOK, PartsOK
<1>8. offset' = Total(LocalLength, locals)'
  BY <1>1, <1>4, TotalOfAppend DEF ZipTypeOK, PartsOK
<1>9. ASSUME NEW j \in 1..i
      PROVE  /\ locals'[j] = LocalPart(Paths[j], body[j])
             /\ centrals'[j] = CentralPart(Paths[j], body[j], Start(LocalLength, locals, j)')
  <2>1. CASE j = i
    <3>1. locals'[j] = piece /\ centrals'[j] = entry
      BY <1>1, <1>4, <2>1 DEF ZipTypeOK, PartsOK
    <3>2. Start(LocalLength, locals, j)' = offset
      BY <1>1, <1>4, <2>1, StartsStay DEF ZipTypeOK, PartsOK
    <3> QED
      BY <2>1, <3>1, <3>2 DEF piece, entry
  <2>2. CASE j # i
    <3>1. j \in 1..Len(locals)
      BY <1>1, <2>2 DEF ZipTypeOK
    <3>2. locals'[j] = locals[j] /\ centrals'[j] = centrals[j]
      BY <1>1, <1>4, <3>1 DEF ZipTypeOK, PartsOK
    <3>3. Start(LocalLength, locals, j)' = Start(LocalLength, locals, j)
      BY <1>1, <1>4, <3>1, StartsStay DEF ZipTypeOK
    <3> QED
      BY <3>1, <3>2, <3>3 DEF PartsOK
  <2> QED
    BY <2>1, <2>2
<1>10. PartsOK'
  BY <1>1, <1>2, <1>7, <1>8, <1>9 DEF PartsOK
<1>11. EndOK'
  BY <1>1 DEF EndOK
<1> QED
  BY <1>6, <1>10, <1>11

\* Every step of PackageAssembler keeps the invariant.
LEMMA ZipStep == ZipInv /\ [ZipNext]_zipVars => ZipInv'
<1> SUFFICES ASSUME ZipInv, [ZipNext]_zipVars PROVE ZipInv'
  OBVIOUS
<1> USE DEF ZipInv
<1>1. ASSUME NEW i \in DOMAIN Paths, AddFile(i) PROVE ZipInv'
  BY <1>1, AddFileKeeps
<1>2. ASSUME UNCHANGED <<body, locals, centrals, offset>>, zip'.pc \in {"loop", "done", "thrown"}
      PROVE  ZipTypeOK' /\ PartsOK'
  BY <1>2 DEF ZipTypeOK, PartsOK
<1>3. CASE FinishZip
  <2>1. /\ Len(locals) = Len(Paths) /\ UNCHANGED <<body, locals, centrals, offset>>
        /\ zip' = [pc |-> "done", end |-> [count |-> Len(Paths), at |-> offset,
                                           size |-> Total(CentralLength, centrals)]]
    BY <1>3 DEF FinishZip
  <2> QED
    BY <1>2, <2>1 DEF EndOK
<1>4. CASE ThrowZip
  BY <1>2, <1>4 DEF ThrowZip, EndOK
<1>5. CASE UNCHANGED zipVars
  BY <1>2, <1>5 DEF zipVars, EndOK, ZipTypeOK
<1> QED
  BY <1>1, <1>3, <1>4, <1>5 DEF ZipNext

\* Each entry points at its own local part.
LEMMA EntriesExtract ==
  ASSUME ZipInv, NEW i \in DOMAIN locals
  PROVE  Extracts(i, Paths[i], body[i])
<1>1. i \in 1..Len(locals)
  BY DEF ZipInv, ZipTypeOK
<1>2. /\ locals[i] = LocalPart(Paths[i], body[i])
      /\ centrals[i] = CentralPart(Paths[i], body[i], Start(LocalLength, locals, i))
  BY <1>1 DEF ZipInv, PartsOK
<1>3. /\ centrals[i].at = Start(LocalLength, locals, i)
      /\ locals[i].path = Paths[i] /\ locals[i].data = body[i]
      /\ \A piece \in {locals[i], centrals[i]} :
           /\ piece.path = Paths[i] /\ piece.crc = body[i]
           /\ piece.name = NameLength[Paths[i]] /\ piece.size = BodyLength[body[i]]
  BY <1>2 DEF LocalPart, CentralPart
<1> QED
  BY <1>3 DEF Extracts

\* The parts of an archive fit together, in every reachable state.
THEOREM ZipInvariant == ZipSpec => []ZipInv
  BY ZipInvInit, ZipStep, PTL DEF ZipSpec

\* A finished archive is one that a reader extracts every file of the export from, whatever
\* the files and however many there are.
THEOREM ZipReadability == ZipSpec => []ZipIsReadable
<1>1. ZipInv => ZipIsReadable
  <2> SUFFICES ASSUME ZipInv, zip.pc = "done"
               PROVE  /\ zip.end.at = Total(LocalLength, locals)
                      /\ zip.end.size = Total(CentralLength, centrals)
                      /\ zip.end.count = Len(centrals) /\ zip.end.count = Len(Paths)
                      /\ \A i \in DOMAIN Paths : Extracts(i, Paths[i], body[i])
    BY DEF ZipIsReadable
  <2>1. /\ Len(locals) = Len(Paths) /\ Len(centrals) = Len(Paths)
        /\ offset = Total(LocalLength, locals)
        /\ zip.end = [count |-> Len(Paths), size |-> Total(CentralLength, centrals), at |-> offset]
    BY DEF ZipInv, PartsOK, EndOK
  <2>2. DOMAIN Paths = DOMAIN locals
    BY <2>1, ZipAssumption DEF ZipInv, ZipTypeOK
  <2> QED
    BY <2>1, <2>2, EntriesExtract
<1> QED
  BY <1>1, ZipInvariant, PTL

-----------------------------------------------------------------------------
\* Worker: a behaviour of the whole is one of each part.
THEOREM WorkerParts == WorkerSpec => ExportSpec /\ RetentionSpec /\ ZipSpec
<1>1. WorkerInit => ExportInit /\ RetentionInit /\ ZipInit
  BY DEF WorkerInit
<1>2. [WorkerNext]_partVars
        => [ExportNext]_exportVars /\ [RetentionNext]_retentionVars /\ [ZipNext]_zipVars
  BY DEF WorkerNext, partVars
<1> QED
  BY <1>1, <1>2, PTL DEF WorkerSpec, ExportSpec, RetentionSpec, ZipSpec

=============================================================================
