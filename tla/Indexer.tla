-------------------------------- MODULE Indexer --------------------------------
(***************************************************************************)
(* The worker's indexer: IndexerConsumer takes a job from BullMQ,          *)
(* IndexerService.processIndexJob reads the trace, verifies its hash       *)
(* chain, writes the search projection and seals the trace.  Prisma reads  *)
(* a trace, then its spans and events, in separate statements; retention   *)
(* may delete the trace between any two steps.  A worker that dies, or     *)
(* is so slow that its lock expires, has its job handed to another one     *)
(* while it may still be running.                                          *)
(***************************************************************************)
EXTENDS TraceStore

CONSTANTS Workers, NoWorker, NoJob

ASSUME WorkersAssumption == NoWorker \notin Workers /\ NoJob \notin Requests

VARIABLES
  wpc,           \* where the worker stands in processIndexJob
  wjob,          \* the row whose job it is processing
  wstatus,       \* traces.status as it read it
  wevents,       \* the events rows as it read them
  wpass,         \* which delivery of the job this is
  lockOwner,     \* job -> the worker whose lock token BullMQ knows
  passes,        \* deliveries of the job so far
  stalls,        \* times the job stalled
  attemptsMade,  \* BullMQ's count of failed attempts
  failedReason,  \* why the job failed
  dlq            \* rows of index_job_dlq, by trace

workerVars == <<wpc, wjob, wstatus, wevents, wpass>>
queueVars == <<lockOwner, passes, stalls, attemptsMade, failedReason, dlq>>
indexerVars == <<workerVars, queueVars>>

INDEXER_MAX_ATTEMPTS == 3

\* Queue.publish passes no `attempts`, and BullMQ reads attempts from the job:
\* the retry policy given to the Worker's options is not consulted.
JobAttempts == 1

MaxStalledCount == 1     \* BullMQ's default maxStalledCount

Reasons == {"none", "missing", "mismatch", "database", "stalled"}

IndexerInit ==
  /\ wpc = [w \in Workers |-> "idle"]
  /\ wjob = [w \in Workers |-> NoJob]
  /\ wstatus = [w \in Workers |-> "in_progress"]
  /\ wevents = [w \in Workers |-> {}]
  /\ wpass = [w \in Workers |-> 0]
  /\ lockOwner = [r \in Requests |-> NoWorker]
  /\ passes = [r \in Requests |-> 0]
  /\ stalls = [r \in Requests |-> 0]
  /\ attemptsMade = [r \in Requests |-> 0]
  /\ failedReason = [r \in Requests |-> "none"]
  /\ dlq = {}

WorkerAt(w, label) == wpc' = [wpc EXCEPT ![w] = label]

\* The worker leaves processIndexJob: its locals are gone.
Idle(w) ==
  /\ WorkerAt(w, "idle")
  /\ wjob' = [wjob EXCEPT ![w] = NoJob]
  /\ wstatus' = [wstatus EXCEPT ![w] = "in_progress"]
  /\ wevents' = [wevents EXCEPT ![w] = {}]
  /\ wpass' = [wpass EXCEPT ![w] = 0]

-----------------------------------------------------------------------------
TakeJob(w, r) ==
  /\ wpc[w] = "idle"
  /\ job[r] = "waiting"
  /\ job' = [job EXCEPT ![r] = "active"]
  /\ lockOwner' = [lockOwner EXCEPT ![r] = w]
  /\ passes' = [passes EXCEPT ![r] = @ + 1]
  /\ wjob' = [wjob EXCEPT ![w] = r]
  /\ wpass' = [wpass EXCEPT ![w] = passes[r] + 1]
  /\ WorkerAt(w, "read")
  /\ UNCHANGED <<wstatus, wevents, stalls, attemptsMade, failedReason, dlq,
                 body, tableVars, idempotency, objects>>

\* What a throw out of processIndexJob becomes: BullMQ retries while the job has
\* attempts left, else fails it and the 'failed' listener runs
\* IndexerDlqHandler.recordFailure.  A worker that lost the lock can do neither.
Throw(w, reason) ==
  LET r == wjob[w]
      made == attemptsMade[r] + 1
  IN  /\ Idle(w)
      /\ IF lockOwner[r] # w
           THEN UNCHANGED <<job, lockOwner, attemptsMade, failedReason, dlq>>
           ELSE /\ lockOwner' = [lockOwner EXCEPT ![r] = NoWorker]
                /\ attemptsMade' = [attemptsMade EXCEPT ![r] = made]
                /\ failedReason' = [failedReason EXCEPT ![r] = reason]
                /\ job' = [job EXCEPT ![r] = IF made < JobAttempts THEN "waiting" ELSE "failed"]
                /\ dlq' = IF made >= INDEXER_MAX_ATTEMPTS THEN dlq \cup {r} ELSE dlq
      /\ UNCHANGED <<passes, stalls, body, tableVars, idempotency, objects>>

\* A plausible slip: only traces not indexed yet are looked up.
FoundUnindexed(w) == row[wjob[w]] = "live" /\ indexedAt[wjob[w]] = 0

Found(w) == row[wjob[w]] = "live"

ReadTrace(w) ==
  /\ wpc[w] = "read"
  /\ Found(w)
  /\ wstatus' = [wstatus EXCEPT ![w] = status[wjob[w]]]
  /\ WorkerAt(w, "readEvents")
  /\ UNCHANGED <<wjob, wevents, wpass, queueVars, storeVars>>

\* A plausible slip: a missing trace is taken for nothing left to do.
TraceMissingIsDone(w) ==
  /\ wpc[w] = "read"
  /\ ~ Found(w)
  /\ WorkerAt(w, "finish")
  /\ UNCHANGED <<wjob, wstatus, wevents, wpass, queueVars, storeVars>>

\* A plausible slip: the worker waits for a missing trace to appear.
TraceAwaited(w) ==
  /\ wpc[w] = "read"
  /\ ~ Found(w)
  /\ UNCHANGED <<workerVars, queueVars, storeVars>>

\* NotFoundException
TraceMissing(w) ==
  /\ wpc[w] = "read"
  /\ ~ Found(w)
  /\ Throw(w, "missing")

\* The include's own SELECT, the sort and verifyChain.
ReadEvents(w) ==
  /\ wpc[w] = "readEvents"
  /\ IF ChainVerifies(BySequenceIndex(events[wjob[w]]))
       THEN /\ wevents' = [wevents EXCEPT ![w] = events[wjob[w]]]
            /\ WorkerAt(w, "project")
            /\ UNCHANGED <<wjob, wstatus, wpass, queueVars, storeVars>>
       ELSE Throw(w, "mismatch")

\* A plausible slip: indexing a trace again takes its seal away.
ProjectResetsSeal(w) ==
  /\ wpc[w] = "project"
  /\ row[wjob[w]] = "live"
  /\ indexedAt' = [indexedAt EXCEPT ![wjob[w]] = wpass[w]]
  /\ sealedAt' = [sealedAt EXCEPT ![wjob[w]] = 0]
  /\ WorkerAt(w, "seal")
  /\ UNCHANGED <<wjob, wstatus, wevents, wpass, queueVars, body, row, status,
                 chainHash, events, completedAt, idempotency, objects, job>>

\* SearchProjectionService.update: P2025 when the row is gone.
Project(w) ==
  /\ wpc[w] = "project"
  /\ IF row[wjob[w]] = "live"
       THEN /\ indexedAt' = [indexedAt EXCEPT ![wjob[w]] = wpass[w]]
            /\ WorkerAt(w, "seal")
            /\ UNCHANGED <<wjob, wstatus, wevents, wpass, queueVars, body, row, status,
                           chainHash, events, sealedAt, completedAt, idempotency, objects, job>>
       ELSE Throw(w, "missing")

\* A plausible slip: a completion event outranks what the client reported.
ResolveCompletionFirst(traceStatus, types) ==
  IF "completion" \in types THEN "completed"
  ELSE IF traceStatus \in {"failed", "cancelled"} THEN traceStatus
  ELSE "in_progress"

\* TraceStatusResolver.resolve.
Resolve(traceStatus, types) ==
  IF "approval" \in types /\ traceStatus = "cancelled" THEN "cancelled"
  ELSE IF "custom" \in types /\ traceStatus = "failed" THEN "failed"
  ELSE IF traceStatus \in {"failed", "cancelled"} THEN traceStatus
  ELSE IF "completion" \in types THEN "completed"
  ELSE "in_progress"

TypesOf(rows) == {e.type : e \in rows}

ResolvedStatus(w) == Resolve(wstatus[w], TypesOf(wevents[w]))

FinalChainHash(w) == VerifiedHash(BySequenceIndex(wevents[w]))

\* A plausible slip: completed_at is only set once.
CompletedAtOnce(w) ==
  IF ResolvedStatus(w) = "completed" /\ completedAt[wjob[w]] = 0
  THEN wpass[w] ELSE completedAt[wjob[w]]

CompletedAt(w) ==
  IF ResolvedStatus(w) = "completed" THEN wpass[w] ELSE completedAt[wjob[w]]

\* TraceSealService.sealIfTerminal.
SealIfTerminal(w) ==
  /\ wpc[w] = "seal"
  /\ IF ResolvedStatus(w) = "in_progress"
       THEN /\ WorkerAt(w, "finish")
            /\ UNCHANGED <<wjob, wstatus, wevents, wpass, queueVars, storeVars>>
       ELSE IF row[wjob[w]] = "live"
         THEN /\ status' = [status EXCEPT ![wjob[w]] = ResolvedStatus(w)]
              /\ chainHash' = [chainHash EXCEPT ![wjob[w]] = FinalChainHash(w)]
              /\ sealedAt' = [sealedAt EXCEPT ![wjob[w]] = wpass[w]]
              /\ completedAt' = [completedAt EXCEPT ![wjob[w]] = CompletedAt(w)]
              /\ WorkerAt(w, "finish")
              /\ UNCHANGED <<wjob, wstatus, wevents, wpass, queueVars, body, row, events,
                             indexedAt, idempotency, objects, job>>
         ELSE Throw(w, "missing")

\* Any of the four statements may fail for reasons of the database.
DatabaseFails(w) ==
  /\ wpc[w] \in {"read", "readEvents", "project", "seal"}
  /\ Throw(w, "database")

\* moveToCompleted, refused when the lock was lost.
Finish(w) ==
  /\ wpc[w] = "finish"
  /\ Idle(w)
  /\ IF lockOwner[wjob[w]] = w
       THEN /\ job' = [job EXCEPT ![wjob[w]] = "completed"]
            /\ lockOwner' = [lockOwner EXCEPT ![wjob[w]] = NoWorker]
       ELSE UNCHANGED <<job, lockOwner>>
  /\ UNCHANGED <<passes, stalls, attemptsMade, failedReason, dlq,
                 body, tableVars, idempotency, objects>>

\* A restart: the job stays active and its lock is left to expire.
WorkerCrash(w) ==
  /\ wpc[w] # "idle"
  /\ Idle(w)
  /\ UNCHANGED <<queueVars, storeVars>>

-----------------------------------------------------------------------------
\* BullMQ's stalled check finds an active job whose lock has expired and puts it
\* back to wait, or fails it when it stalled too often.
Stall(r) ==
  /\ job[r] = "active"
  /\ lockOwner' = [lockOwner EXCEPT ![r] = NoWorker]
  /\ stalls' = [stalls EXCEPT ![r] = @ + 1]
  /\ IF stalls[r] < MaxStalledCount
       THEN /\ job' = [job EXCEPT ![r] = "waiting"]
            /\ UNCHANGED <<attemptsMade, failedReason>>
       ELSE /\ job' = [job EXCEPT ![r] = "failed"]
            /\ attemptsMade' = [attemptsMade EXCEPT ![r] = @ + 1]
            /\ failedReason' = [failedReason EXCEPT ![r] = "stalled"]
  /\ UNCHANGED <<workerVars, passes, dlq, body, tableVars, idempotency, objects>>

\* The lock of a worker that died expires for sure; that of a live one may.
HolderGone(r) == \A w \in Workers : lockOwner[r] = w => wjob[w] # r

Work(w) ==
  \/ ReadTrace(w) \/ TraceMissing(w) \/ ReadEvents(w) \/ Project(w)
  \/ SealIfTerminal(w) \/ Finish(w)

IndexerNext ==
  \/ \E w \in Workers, r \in Requests : TakeJob(w, r)
  \/ \E w \in Workers : Work(w) \/ DatabaseFails(w) \/ WorkerCrash(w)
  \/ \E r \in Requests : Stall(r)

\* RetentionCompactionJob, at any time between the worker's steps.
ExpireIngested ==
  \E S \in SUBSET {r \in Requests : row[r] = "live"} :
    S # {} /\ DeleteTraces(S) /\ UNCHANGED indexerVars

\* The indexer on its own: rows that ingest has committed, each with its job.
IngestedInit ==
  /\ body \in [Requests -> {e \in Envelopes : e.valid}]
  /\ row = [r \in Requests |-> "live"]
  /\ status = [r \in Requests |-> InitialStatus(body[r])]
  /\ chainHash = [r \in Requests |-> SealTrace(ContentHashes(body[r]))]
  /\ events = [r \in Requests |-> EventRows(body[r])]
  /\ indexedAt = [r \in Requests |-> 0]
  /\ sealedAt = [r \in Requests |-> 0]
  /\ completedAt = [r \in Requests |-> 0]
  /\ idempotency = [k \in Keys |-> NoAck]
  /\ objects = [k \in ObjectKeys |-> NoObject]
  /\ job = [r \in Requests |-> "waiting"]
  /\ IndexerInit

IndexerSpec == IngestedInit /\ [][IndexerNext \/ ExpireIngested]_<<storeVars, indexerVars>>

IndexerFairness(v) ==
  /\ \A w \in Workers : WF_v(Work(w))
  /\ \A r \in Requests : WF_v(\E w \in Workers : TakeJob(w, r))
  /\ \A r \in Requests : WF_v(Stall(r) /\ HolderGone(r))

FairIndexerSpec == IndexerSpec /\ IndexerFairness(<<storeVars, indexerVars>>)

-----------------------------------------------------------------------------
IndexerTypeOK ==
  /\ StoreTypeOK
  /\ wpc \in [Workers -> {"idle", "read", "readEvents", "project", "seal", "finish"}]
  /\ wjob \in [Workers -> Requests \cup {NoJob}]
  /\ wstatus \in [Workers -> Statuses]
  /\ wevents \in [Workers -> {{}} \cup {EventRows(e) : e \in Envelopes}]
  /\ wpass \in [Workers -> Nat]
  /\ lockOwner \in [Requests -> Workers \cup {NoWorker}]
  /\ passes \in [Requests -> Nat]
  /\ stalls \in [Requests -> Nat]
  /\ attemptsMade \in [Requests -> Nat]
  /\ failedReason \in [Requests -> Reasons]
  /\ dlq \subseteq Requests

\* The status a trace must end with: the failure or cancellation the client
\* reported, else completed if and only if it holds a completion event.
SettledStatus(e) ==
  CASE e.status \in {"failed", "cancelled"} -> e.status
    [] e.status \notin {"failed", "cancelled"} ->
         IF \E i \in DOMAIN e.events : e.events[i].type = "completion"
         THEN "completed" ELSE "in_progress"

\* Whatever passes ran, overlapped, died or read a trace that was being deleted,
\* a seal carries the hash of exactly the events that were ingested, and the
\* status those events resolve to.
SealBindsContent ==
  \A r \in Requests :
    sealedAt[r] # 0 =>
      /\ chainHash[r] = SealTrace(ContentHashes(body[r]))
      /\ status[r] = SettledStatus(body[r])
      /\ status[r] # "in_progress"

\* The columns a seal writes agree with one another although passes of two
\* workers interleave, and a sealed trace is always in the search projection.
SealColumnsAgree ==
  \A r \in Requests :
    sealedAt[r] # 0 =>
      /\ indexedAt[r] # 0
      /\ completedAt[r] = (IF status[r] = "completed" THEN sealedAt[r] ELSE 0)

\* A chain mismatch is never reported for a trace as ingest stored it, in
\* whatever order the database returned its events.
NoFalseMismatch == \A r \in Requests : failedReason[r] # "mismatch"

\* A job that BullMQ counts as completed has done its work: the trace is in the
\* search projection, and sealed when its events are terminal.
CompletedJobDidItsWork ==
  \A r \in Requests :
    job[r] = "completed" =>
      /\ indexedAt[r] # 0
      /\ SettledStatus(body[r]) # "in_progress" => sealedAt[r] # 0

\* Only retention makes a job fail for want of its trace: publishing comes
\* after the commit, so no job overtakes its row.
MissingOnlyWhenDeleted ==
  \A r \in Requests : failedReason[r] = "missing" => row[r] = "deleted"

\* Once sealed, a trace keeps its hash and status through every later pass.
SealIsFinal ==
  [][\A r \in Requests :
       sealedAt[r] # 0 =>
         sealedAt'[r] # 0 /\ chainHash'[r] = chainHash[r] /\ status'[r] = status[r]
    ]_storeVars

\* A queued job ends as completed or failed, however often workers die.
JobsSettle ==
  \A r \in Requests : job[r] = "waiting" ~> job[r] \in {"completed", "failed"}

\* docs/runbooks/indexer-dlq.md:5: "Exhausted jobs are persisted to
\* `index_job_dlq`."
FailedJobsReachDlq == \A r \in Requests : job[r] = "failed" => r \in dlq

=============================================================================
