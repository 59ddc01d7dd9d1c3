------------------------------ MODULE ExportJob ------------------------------
(***************************************************************************)
(* Audit exports: ExportsService writes an export_jobs row and publishes a *)
(* job, the worker's ExportConsumer reads the traces, uploads an archive   *)
(* and completes the row, DownloadController hands out signed URLs.        *)
(*                                                                         *)
(* Retention deletes traces at any time; those ingested after a request    *)
(* are left out, they only widen what a filter finds.  As with the         *)
(* indexer, a job whose lock expires is handed to another worker, whether  *)
(* its first one died or is merely slow.                                   *)
(***************************************************************************)
EXTENDS Naturals, FiniteSets

CONSTANTS
  Exports,        \* export_jobs rows; row, BullMQ job and archive share the id
  Filters,        \* the filters requests carry
  Traces,
  Workers, NoWorker, NoExport, NoFilter,
  NoManifest,     \* NULL manifest_hash
  NoArchive,      \* nothing lies under the key
  TakeLimit       \* findMany's `take`, 500 in the code

\* `traces` are the ones whose row satisfies the filter; `byIds` tells whether
\* they are named by trace_ids.
Filter == [byIds : BOOLEAN, traces : SUBSET Traces]

\* manifest.json: generated_at identifies the pass, `listed` are the traces with an
\* entry and `counted` those whose event_count is not zero.
Manifest == [pass : Nat \ {0}, listed : SUBSET Traces, counted : SUBSET Traces]

\* The archive, with the traces its other two files have lines of.
Archive == [manifest : Manifest, events : SUBSET Traces, snapshots : SUBSET Traces]

\* SHA-256 is taken to be injective: a hash is the text it was computed from.  The
\* row's is that of the compact rendering; the file is indented.
Hash == [of : Manifest, indented : BOOLEAN]

ASSUME FiltersAssumption == Filters \subseteq Filter
ASSUME TakeLimitAssumption == TakeLimit \in Nat \ {0}
ASSUME AbsentAssumption ==
  /\ NoWorker \notin Workers
  /\ NoExport \notin Exports
  /\ NoFilter \notin Filters
  /\ NoManifest \notin Hash
  /\ NoArchive \notin Archive

VARIABLES
  live,             \* the traces rows that retention has not deleted
  filters,          \* export_jobs.filters
  status,           \* export_jobs.status, "none" without a row
  manifestHash,     \* manifest_hash, chain_hash and trace_count, set together
  errorMessage,     \* whether error_message is set
  downloadOpen,     \* whether download_expires_at is set and still ahead
  request,          \* POST /v1/exports: "idle" | "created" | "accepted" | "failed"
  asked,            \* history: the traces a filter matched when its row was made
  bucket,           \* exports/<organization>/<id>.zip
  job, lockOwner, passes, stalls, failedReason,
  expired,          \* history: jobs whose lock expired under a live worker
  wpc, wjob, wpass, wtraces, wevents, wsnapshots,
  ticket            \* manifest_hash returned with the signed URL last handed out

rowVars == <<filters, status, manifestHash, errorMessage, downloadOpen>>
apiVars == <<request, asked>>
queueVars == <<job, lockOwner, passes, stalls, failedReason, expired>>
workerVars == <<wpc, wjob, wpass, wtraces, wevents, wsnapshots>>
exportVars == <<live, rowVars, apiVars, bucket, queueVars, workerVars, ticket>>

MaxStalledCount == 1     \* BullMQ's default maxStalledCount

ExportInit ==
  /\ live = Traces
  /\ filters = [e \in Exports |-> NoFilter]
  /\ status = [e \in Exports |-> "none"]
  /\ manifestHash = [e \in Exports |-> NoManifest]
  /\ errorMessage = [e \in Exports |-> FALSE]
  /\ downloadOpen = [e \in Exports |-> FALSE]
  /\ request = [e \in Exports |-> "idle"]
  /\ asked = [e \in Exports |-> {}]
  /\ bucket = [e \in Exports |-> NoArchive]
  /\ job = [e \in Exports |-> "none"]
  /\ lockOwner = [e \in Exports |-> NoWorker]
  /\ passes = [e \in Exports |-> 0]
  /\ stalls = [e \in Exports |-> 0]
  /\ failedReason = [e \in Exports |-> "none"]
  /\ expired = {}
  /\ wpc = [w \in Workers |-> "idle"]
  /\ wjob = [w \in Workers |-> NoExport]
  /\ wpass = [w \in Workers |-> 0]
  /\ wtraces = [w \in Workers |-> {}]
  /\ wevents = [w \in Workers |-> {}]
  /\ wsnapshots = [w \in Workers |-> {}]
  /\ ticket = [e \in Exports |-> NoManifest]

-----------------------------------------------------------------------------
\* The API: ExportsService.createExport, two awaits.
CreateRow(e, f) ==
  /\ request[e] = "idle"
  /\ request' = [request EXCEPT ![e] = "created"]
  /\ filters' = [filters EXCEPT ![e] = f]
  /\ status' = [status EXCEPT ![e] = "pending"]
  /\ asked' = [asked EXCEPT ![e] = f.traces \cap live]
  /\ UNCHANGED <<live, manifestHash, errorMessage, downloadOpen, bucket, queueVars,
                 workerVars, ticket>>

\* A plausible slip: the publish is not awaited, as it is not in the ingest path.
PublishUnawaited(e) ==
  /\ request[e] = "created"
  /\ request' = [request EXCEPT ![e] = "accepted"]
  /\ job' \in {job, [job EXCEPT ![e] = "waiting"]}
  /\ UNCHANGED <<live, rowVars, asked, bucket, lockOwner, passes, stalls, failedReason,
                 expired, workerVars, ticket>>

Publish(e) ==
  /\ request[e] = "created"
  /\ request' = [request EXCEPT ![e] = "accepted"]
  /\ job' = [job EXCEPT ![e] = "waiting"]
  /\ UNCHANGED <<live, rowVars, asked, bucket, lockOwner, passes, stalls, failedReason,
                 expired, workerVars, ticket>>

\* The publish is rejected, or the process dies before it or before its answer:
\* the client sees an error and the row stays.  The job may have been added.
PublishFails(e) ==
  /\ request[e] = "created"
  /\ request' = [request EXCEPT ![e] = "failed"]
  /\ job' \in {job, [job EXCEPT ![e] = "waiting"]}
  /\ UNCHANGED <<live, rowVars, asked, bucket, lockOwner, passes, stalls, failedReason,
                 expired, workerVars, ticket>>

-----------------------------------------------------------------------------
\* The worker: ExportConsumer.handleJob.
WorkerAt(w, label) == wpc' = [wpc EXCEPT ![w] = label]

\* What the try block read goes out of scope with it.
LeaveTry(w) ==
  /\ wtraces' = [wtraces EXCEPT ![w] = {}]
  /\ wevents' = [wevents EXCEPT ![w] = {}]
  /\ wsnapshots' = [wsnapshots EXCEPT ![w] = {}]

Idle(w) ==
  /\ WorkerAt(w, "idle")
  /\ wjob' = [wjob EXCEPT ![w] = NoExport]
  /\ wpass' = [wpass EXCEPT ![w] = 0]
  /\ LeaveTry(w)

\* The handler throws.  Jobs carry no `attempts`, so the first failure is final;
\* a worker that lost the lock cannot report one.
Throw(w, reason) ==
  LET e == wjob[w]
  IN  /\ Idle(w)
      /\ IF lockOwner[e] = w
           THEN /\ job' = [job EXCEPT ![e] = "failed"]
                /\ lockOwner' = [lockOwner EXCEPT ![e] = NoWorker]
                /\ failedReason' = [failedReason EXCEPT ![e] = reason]
           ELSE UNCHANGED <<job, lockOwner, failedReason>>
      /\ UNCHANGED <<passes, stalls, expired>>

TakeJob(w, e) ==
  /\ wpc[w] = "idle"
  /\ job[e] = "waiting"
  /\ job' = [job EXCEPT ![e] = "active"]
  /\ lockOwner' = [lockOwner EXCEPT ![e] = w]
  /\ passes' = [passes EXCEPT ![e] = @ + 1]
  /\ wjob' = [wjob EXCEPT ![w] = e]
  /\ wpass' = [wpass EXCEPT ![w] = passes[e] + 1]
  /\ WorkerAt(w, "claim")
  /\ UNCHANGED <<live, rowVars, apiVars, bucket, stalls, failedReason, expired, wtraces,
                 wevents, wsnapshots, ticket>>

\* A plausible slip: the pass also resets what an earlier one left in the row.
MarkProcessingResets(w) ==
  /\ wpc[w] = "claim"
  /\ status' = [status EXCEPT ![wjob[w]] = "processing"]
  /\ manifestHash' = [manifestHash EXCEPT ![wjob[w]] = NoManifest]
  /\ WorkerAt(w, "load")
  /\ UNCHANGED <<live, filters, errorMessage, downloadOpen, apiVars, bucket, queueVars, wjob,
                 wpass, wtraces, wevents, wsnapshots, ticket>>

\* status: 'processing', whatever it was.
MarkProcessing(w) ==
  /\ wpc[w] = "claim"
  /\ status' = [status EXCEPT ![wjob[w]] = "processing"]
  /\ WorkerAt(w, "load")
  /\ UNCHANGED <<live, filters, manifestHash, errorMessage, downloadOpen, apiVars, bucket,
                 queueVars, wjob, wpass, wtraces, wevents, wsnapshots, ticket>>

\* That update, outside the try block, throws, and may have been committed.
MarkFails(w) ==
  /\ wpc[w] = "claim"
  /\ status' \in {status, [status EXCEPT ![wjob[w]] = "processing"]}
  /\ Throw(w, "database")
  /\ UNCHANGED <<live, filters, manifestHash, errorMessage, downloadOpen, apiVars, bucket,
                 ticket>>

\* A plausible slip: one trace fewer than the cap.
LoadableBelowCap(f) ==
  LET found == f.traces \cap live
  IN  IF f.byIds \/ Cardinality(found) < TakeLimit THEN {found}
      ELSE {S \in SUBSET found : Cardinality(S) = TakeLimit - 1}

\* The results loadTraces may have: all the traces asked for by id, or any
\* TakeLimit of the matching ones, for the query has no order.
Loadable(f) ==
  LET found == f.traces \cap live
  IN  IF f.byIds \/ Cardinality(found) <= TakeLimit THEN {found}
      ELSE {S \in SUBSET found : Cardinality(S) = TakeLimit}

LoadTraces(w) ==
  /\ wpc[w] = "load"
  /\ \E S \in Loadable(filters[wjob[w]]) : wtraces' = [wtraces EXCEPT ![w] = S]
  /\ WorkerAt(w, "include")
  /\ UNCHANGED <<live, rowVars, apiVars, bucket, queueVars, wjob, wpass, wevents, wsnapshots,
                 ticket>>

\* Prisma resolves each include by a statement of its own.  Spans and events of
\* a trace go together, so one step reads both.
IncludeSnapshots(w) ==
  /\ wpc[w] = "include"
  /\ wsnapshots' = [wsnapshots EXCEPT ![w] = wtraces[w] \cap live]
  /\ WorkerAt(w, "events")
  /\ UNCHANGED <<live, rowVars, apiVars, bucket, queueVars, wjob, wpass, wtraces, wevents,
                 ticket>>

IncludeEvents(w) ==
  /\ wpc[w] = "events"
  /\ wevents' = [wevents EXCEPT ![w] = wtraces[w] \cap live]
  /\ WorkerAt(w, "put")
  /\ UNCHANGED <<live, rowVars, apiVars, bucket, queueVars, wjob, wpass, wtraces, wsnapshots,
                 ticket>>

\* ManifestBuilder.build, of the entries made while the events were read.
BuildManifest(w) == [pass |-> wpass[w], listed |-> wtraces[w], counted |-> wevents[w]]

ManifestHash(manifest) == [of |-> manifest, indented |-> FALSE]

\* PackageAssembler: an entry for each of the three files.
Assemble(w) == [manifest |-> BuildManifest(w), events |-> wevents[w],
                snapshots |-> wsnapshots[w]]

\* A plausible slip: the row is completed with the upload still to come.
CompleteBeforePut(w) ==
  /\ wpc[w] = "put"
  /\ status' = [status EXCEPT ![wjob[w]] = "completed"]
  /\ manifestHash' = [manifestHash EXCEPT ![wjob[w]] = ManifestHash(BuildManifest(w))]
  /\ downloadOpen' = [downloadOpen EXCEPT ![wjob[w]] = TRUE]
  /\ WorkerAt(w, "finish")
  /\ LeaveTry(w)
  /\ UNCHANGED <<live, filters, errorMessage, apiVars, bucket, queueVars, wjob, wpass, ticket>>

PutArchive(w) ==
  /\ wpc[w] = "put"
  /\ bucket' = [bucket EXCEPT ![wjob[w]] = Assemble(w)]
  /\ WorkerAt(w, "complete")
  /\ UNCHANGED <<live, rowVars, apiVars, queueVars, wjob, wpass, wtraces, wevents, wsnapshots,
                 ticket>>

\* A plausible slip: the hash is taken of a manifest built a second time, with
\* another generated_at.
CompleteRebuilt(w) ==
  /\ wpc[w] = "complete"
  /\ status' = [status EXCEPT ![wjob[w]] = "completed"]
  /\ manifestHash' = [manifestHash EXCEPT
       ![wjob[w]] = ManifestHash([BuildManifest(w) EXCEPT !.pass = @ + 1])]
  /\ downloadOpen' = [downloadOpen EXCEPT ![wjob[w]] = TRUE]
  /\ WorkerAt(w, "finish")
  /\ LeaveTry(w)
  /\ UNCHANGED <<live, filters, errorMessage, apiVars, bucket, queueVars, wjob, wpass, ticket>>

\* error_message is not among the columns of this update.
RowCompleted(w) ==
  /\ status' = [status EXCEPT ![wjob[w]] = "completed"]
  /\ manifestHash' = [manifestHash EXCEPT ![wjob[w]] = ManifestHash(BuildManifest(w))]
  /\ downloadOpen' = [downloadOpen EXCEPT ![wjob[w]] = TRUE]
  /\ UNCHANGED <<filters, errorMessage>>

Complete(w) ==
  /\ wpc[w] = "complete"
  /\ RowCompleted(w)
  /\ WorkerAt(w, "finish")
  /\ LeaveTry(w)
  /\ UNCHANGED <<live, apiVars, bucket, queueVars, wjob, wpass, ticket>>

\* A statement or the upload inside the try block fails.  An upload that timed out may
\* have been stored, an update whose answer was lost may have been committed.
StepFails(w) ==
  /\ wpc[w] \in {"load", "include", "events", "put", "complete"}
  /\ WorkerAt(w, "catch")
  /\ \/ UNCHANGED <<bucket, rowVars>>
     \/ /\ wpc[w] = "put" /\ bucket' = [bucket EXCEPT ![wjob[w]] = Assemble(w)]
        /\ UNCHANGED rowVars
     \/ wpc[w] = "complete" /\ RowCompleted(w) /\ UNCHANGED bucket
  /\ LeaveTry(w)
  /\ UNCHANGED <<live, apiVars, queueVars, wjob, wpass, ticket>>

RowFailed(w) ==
  /\ status' = [status EXCEPT ![wjob[w]] = "failed"]
  /\ errorMessage' = [errorMessage EXCEPT ![wjob[w]] = TRUE]
  /\ UNCHANGED <<filters, manifestHash, downloadOpen>>

\* The catch block, which rethrows.
MarkFailed(w) ==
  /\ wpc[w] = "catch"
  /\ RowFailed(w)
  /\ Throw(w, "export")
  /\ UNCHANGED <<live, apiVars, bucket, ticket>>

\* The update of the catch block throws too, committed or not.
CatchFails(w) ==
  /\ wpc[w] = "catch"
  /\ RowFailed(w) \/ UNCHANGED rowVars
  /\ Throw(w, "database")
  /\ UNCHANGED <<live, apiVars, bucket, ticket>>

\* BullMQ's moveToCompleted, refused when the lock was lost.
Finish(w) ==
  /\ wpc[w] = "finish"
  /\ Idle(w)
  /\ IF lockOwner[wjob[w]] = w
       THEN /\ job' = [job EXCEPT ![wjob[w]] = "completed"]
            /\ lockOwner' = [lockOwner EXCEPT ![wjob[w]] = NoWorker]
       ELSE UNCHANGED <<job, lockOwner>>
  /\ UNCHANGED <<live, rowVars, apiVars, bucket, passes, stalls, failedReason, expired, ticket>>

WorkerCrash(w) ==
  /\ wpc[w] # "idle"
  /\ Idle(w)
  /\ UNCHANGED <<live, rowVars, apiVars, bucket, queueVars, ticket>>

HolderGone(e) == \A w \in Workers : lockOwner[e] = w => wjob[w] # e

\* BullMQ's stalled check.
Stall(e) ==
  /\ job[e] = "active"
  /\ lockOwner' = [lockOwner EXCEPT ![e] = NoWorker]
  /\ stalls' = [stalls EXCEPT ![e] = @ + 1]
  /\ expired' = IF HolderGone(e) THEN expired ELSE expired \cup {e}
  /\ IF stalls[e] < MaxStalledCount
       THEN /\ job' = [job EXCEPT ![e] = "waiting"]
            /\ UNCHANGED failedReason
       ELSE /\ job' = [job EXCEPT ![e] = "failed"]
            /\ failedReason' = [failedReason EXCEPT ![e] = "stalled"]
  /\ UNCHANGED <<live, rowVars, apiVars, bucket, passes, workerVars, ticket>>

-----------------------------------------------------------------------------
\* DownloadController.download: only the row is looked at; the URL has a
\* lifetime of its own.
SignUrl(e) ==
  /\ status[e] = "completed"
  /\ downloadOpen[e]
  /\ ticket[e] = NoManifest
  /\ ticket' = [ticket EXCEPT ![e] = manifestHash[e]]
  /\ UNCHANGED <<live, rowVars, apiVars, bucket, queueVars, workerVars>>

\* deleteMany of RetentionCompactionJob, with the cascades of the schema.
Compacted(t) ==
  /\ t \in live
  /\ live' = live \ {t}
  /\ UNCHANGED <<rowVars, apiVars, bucket, queueVars, workerVars, ticket>>

\* Twenty-four hours after the completion.
DownloadExpires(e) ==
  /\ downloadOpen[e]
  /\ downloadOpen' = [downloadOpen EXCEPT ![e] = FALSE]
  /\ UNCHANGED <<live, filters, status, manifestHash, errorMessage, apiVars, bucket, queueVars,
                 workerVars, ticket>>

\* What a worker does when nothing fails, the handling of a failure included.
Work(w) ==
  \/ MarkProcessing(w) \/ LoadTraces(w) \/ IncludeSnapshots(w) \/ IncludeEvents(w)
  \/ PutArchive(w) \/ Complete(w) \/ MarkFailed(w) \/ Finish(w)

ExportNext ==
  \/ \E e \in Exports, f \in Filters : CreateRow(e, f)
  \/ \E e \in Exports :
       Publish(e) \/ PublishFails(e) \/ Stall(e) \/ SignUrl(e) \/ DownloadExpires(e)
  \/ \E w \in Workers, e \in Exports : TakeJob(w, e)
  \/ \E w \in Workers :
       Work(w) \/ MarkFails(w) \/ StepFails(w) \/ CatchFails(w) \/ WorkerCrash(w)
  \/ \E t \in Traces : Compacted(t)

ExportSpec == ExportInit /\ [][ExportNext]_exportVars

\* A request runs to its answer, a live worker to the end of its job, BullMQ
\* delivers and checks for stalled jobs.  Nothing makes clients
\* download.
ExportFairness ==
  /\ \A e \in Exports :
       /\ WF_exportVars(Publish(e) \/ PublishFails(e))
       /\ WF_exportVars(\E w \in Workers : TakeJob(w, e))
       /\ WF_exportVars(Stall(e) /\ HolderGone(e))
  /\ \A w \in Workers : WF_exportVars(Work(w))

-----------------------------------------------------------------------------
\* Whoever reads export_jobs sees the steps ExportRows promises, and a row that was once
\* completed keeps naming an archive, whatever the queue delivers again, however many
\* workers run one job, and whichever updates fail after they were committed.
Rows == INSTANCE ExportRows
          WITH recorded <- {e \in Exports : manifestHash[e] # NoManifest}

ImplementsExportRows == Rows!RowsSpec

\* A completed export records the hash of the manifest that lies under its key,
\* through crashes, redeliveries and uploads of unknown outcome, as long as no
\* two workers ran its job at once.
HashNamesArchive ==
  \A e \in Exports :
    status[e] = "completed" /\ e \notin expired =>
      /\ bucket[e] # NoArchive
      /\ manifestHash[e] = ManifestHash(bucket[e].manifest)

\* Whatever retention deletes while the statements of one export run, and whichever
\* workers overlap, a trace that is still there is in the archive with its events and
\* its snapshot, unless the query's cap cut it off; and only traces the filter
\* matches are.
ArchiveIsComplete ==
  \A e \in Exports :
    bucket[e] # NoArchive =>
      LET listed == bucket[e].manifest.listed
          whole == listed \cap bucket[e].events \cap bucket[e].snapshots
      IN  /\ listed \subseteq filters[e].traces
          /\ listed \cap live \subseteq whole
          /\ \/ asked[e] \cap live \subseteq whole
             \/ ~ filters[e].byIds /\ Cardinality(listed) = TakeLimit

\* A signed URL serves what its key holds when the client follows it: the archive
\* whose hash came with the URL, or that of a later pass, never of an earlier one,
\* as long as no two workers ran the job at once.
TicketIsNotAhead ==
  \A e \in Exports :
    ticket[e] # NoManifest /\ e \notin expired =>
      /\ bucket[e] # NoArchive
      /\ \/ bucket[e].manifest = ticket[e].of
         \/ bucket[e].manifest.pass > ticket[e].of.pass

\* An export that was accepted ends with its row completed or failed, unless the
\* database refused the update that says so, the job stalled too often, or a
\* worker that had lost the lock claimed the row after another finished it.
ExportsSettle ==
  \A e \in Exports :
    request[e] = "accepted" ~>
      \/ status[e] \in {"completed", "failed"}
      \/ failedReason[e] \in {"database", "stalled"}
      \/ e \in expired

=============================================================================
