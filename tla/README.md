# TLA+ verification of AI Decision Audit

This directory models the repository in TLA+, model-checks it with TLC and
proves parts of it with TLAPS. Paths are relative to the repository (`src/`
here). `PROJECT.json` lists for every definition the lines it was translated
from, for every run its properties, and the hazards the properties are for.

## The system

Applications and SDKs send *traces* (an envelope with spans and events) to
`POST /v1/traces`. The API validates the envelope, offloads large payloads to a
bucket, computes a hash chain over the events, stores everything in one
transaction, acknowledges, and queues an index job. A worker verifies the chain,
writes a search projection and seals the trace when its events are terminal.
Retention deletes old traces. Auditors query traces in a web console and order
export packages. An organization's administrators invite members and issue API
keys.

| Part | State it keeps | Operations | Talks to |
| --- | --- | --- | --- |
| Hash chain (`packages/integrity`) | none | `contentHash`, `chainHash`, `computeEventChain`, `sealTrace` | called by ingest and by the worker |
| Ingest API (`apps/api/src/ingest`) | none of its own; a request's locals between awaits | `acceptTrace` | Postgres, bucket, queue `indexer` |
| Store (`schema.prisma`, `traces.repository.ts`) | the tables | transactions, unique indexes, cascades | shared by API and worker |
| Queue (`bullmq.queue.ts`, BullMQ) | jobs with state, attempts, locks | publish, take, complete, fail, stalled check | API publishes, worker consumes |
| Indexer (`apps/worker/src/indexer`) | locals of a pass | `processIndexJob`, `recordFailure` | Postgres, queue |
| Retention (`compaction.job.ts`) | a timer, locals of a run | `runCompaction` | Postgres |
| Exports (`apps/api/src/exports`, `apps/worker/src/exports`) | `export_jobs`, the archive in the bucket | create, process, download | Postgres, bucket, queue `exports` |
| SDKs (`packages/sdk-node`, `sdk-python`) | a buffer of envelopes, a timer, a flushing flag or a lock | record, flush, shutdown, retry | ingest API |
| Quotas, rate limit | event counts; token buckets per process | enforce, warn; consume | Postgres, mail |
| Query API | a payload cache per request | search with cursors, detail | Postgres, bucket |
| Control plane (auth, organizations, projects, memberships, API keys, meta audit) | their tables | sign-up, invite, link session, roles, create and revoke keys | Postgres, Clerk |
| Web console | React state, the query cache, local and session storage | list, page, poll, link, sign up | all of the API |
| Local development (`scripts/`) | credentials file, `.env` files, seeded rows | setup, bootstrap, verify | Docker, Postgres, API |

The hard behaviours:

- *Interleaving.* Requests run concurrently on several API tasks and share only
  the database, so every `await` is a point where another delivery, invitation
  or quota check can come in between. Prisma reads a row and what it includes by
  separate statements while retention deletes. Two flushes, two compactions, two
  bootstraps may run at once.
- *Delivery.* A job is delivered at least once, and a worker whose lock expired
  may still be running beside the next one. Any call may fail, or succeed
  without its outcome reaching the caller. The publish of ingest and its puts go
  on after the answer.
- *Crashes.* A process may die between any two steps; an unhandled rejection
  ends one too.
- *Stale state.* A plan read once per compaction, a list fetched before an
  export was made, the link of a user who signed out, a key read before it is
  revoked.
- *Limits.* Cursors, caches, caps and buffers at their boundary; a quota that is
  compared before what it counts is written.

What makes each part correct is said with the properties below.

## Modules

| Module | Models |
| --- | --- |
| `HashChain` | `hash-chain.ts` and `HashChainProcessor.verifyChain`, as operators |
| `TraceStore` | tables, bucket and queue of traces; `createFromIngest`, the unique indexes, `publish`, the deletion of traces |
| `Ingest` | `acceptTrace`, one action per step between awaits |
| `Indexer` | `IndexerConsumer`, `processIndexJob`, `recordFailure`, BullMQ's locks and stalled check |
| `AuditLog` | abstract: an append-only log of traces |
| `TracePipeline` | API, worker and retention over one store; the refinement mapping to `AuditLog` |
| `ExportRows` | abstract: the steps a row of `export_jobs` takes, and that a row once completed names an archive |
| `ExportJob` | `createExport`, `ExportConsumer.handleJob` statement by statement, BullMQ, downloads, with retention under them |
| `ZipArchive` | the archive `PackageAssembler` lays out by hand |
| `Retention` | `RetentionCompactionJob` over the traces of one organization, in days |
| `Query` | `search` and the trace explorer that pages through it; `getDetail` with payload hydration; over the table of `Retention` |
| `SdkClient` | what the two SDKs share: the recorded envelopes, a flush in progress, what ingest may answer |
| `NodeTransport`, `PythonTransport` | the two transports, one as tasks of an event loop, one as threads |
| `Sdk` | a program with one of the two, and what it may rely on |
| `Admission` | rate limit, authentication and quota in front of ingest; the quota banner |
| `ControlPlane` | users, memberships, projects, API keys and the audit interceptor, as concurrent requests |
| `LocalDev` | setup, bootstrap and verify on a developer's machine |
| `ConsoleSession` | from a Clerk session to a page: routes, `AuthBootstrap`, onboarding |
| `ConsoleExports` | the exports page: React Query's list, its polling, the two buttons; over the rows of `ExportRows` |
| `Worker`, `Tenant`, `Portal`, `Outcomes` | specifications that hold several parts for one run (below) |
| `MC*` | the instances TLC checks |
| `TracePipeline_proofs`, `Ingest_proofs`, `Indexer_proofs`, `Outcomes_proofs`, `Worker_proofs`, `Portal_proofs`, `Tenant_proofs`, `Sdk_proofs` | the theorems |

How modules are put together:

- `TracePipeline` composes `Ingest` and `Indexer` over the variables of
  `TraceStore`. Each component also has a specification of its own
  (`IngestSpec`, `IndexerSpec`), checked with more requests or workers than the
  composition allows.
- `ExportJob` implements `ExportRows`, and `ConsoleExports` is built on
  `ExportRows`: the console is checked against every behaviour of the rows the
  worker is shown to stay within.
- `Query` extends `Retention`: the listing runs over the very compaction that
  deletes from it.
- `Sdk` is the disjunction of the two transports over one state, so that each
  property is stated once and says where the two differ.
- `Worker` (ExportJob, Retention, ZipArchive), `Tenant` (ControlPlane, Admission,
  LocalDev), `Portal` (Query, ConsoleSession) and `Outcomes` (TracePipeline,
  ConsoleExports) hold parts that share no state. A variable `part`, chosen in
  the initial state and never changed, says which of them a behaviour is about;
  the others rest. This explores the union of the parts and not their product,
  and nothing is lost by it: an interleaving of parts that share nothing has no
  state the parts do not have.

### Traces

- A *request* is one delivery of `POST /v1/traces`. It creates at most one
  `traces` row, so the row, its uuid and its BullMQ job id carry the request's
  name. `body`, `key` are its input, `pc` the await it stands at, `code` and
  `ack` its answer. `received_at` is the clock of the request that was accepted
  and is represented by that request.
- `Receive`, `ReplayCached`, `RejectInvalid`, `StartOffload` are the start of
  `acceptTrace` up to the puts. `PutLands` and `PutFails` are the puts of
  `Promise.all`, which go on when one of them has failed the request; a put that
  failed may have stored its object.
  `CommitTrace`, `CommitRefused` (P2002), `CommitFails` (any other error, with
  or without the commit) are the transaction. `StoreKey` and `StoreKeyFails`
  write the idempotency record; its own P2002 leads to the same catch block,
  `AnswerDuplicate`. `LookupFails` is a failed read. `Respond` answers and
  starts the publish, `PublishLands` and `PublishFails` end it. `Crash` is the
  loss of the API task with all that it had under way.
- A *worker* is one job slot. `TakeJob`, `ReadTrace` or `TraceMissing`,
  `ReadEvents` (the include's own SELECT, the sort, `verifyChain`), `Project`,
  `SealIfTerminal`, `Finish` are `processIndexJob`, one statement each;
  `DatabaseFails` fails any of them; `Throw` is what BullMQ and the `failed`
  listener make of an exception. `WorkerCrash` leaves the job active, `Stall`
  is BullMQ's check for expired locks. It may also hit a live worker, which then
  goes on without the lock beside the one that takes the job next.
- `indexedAt`, `sealedAt` and `completedAt` hold the number of the pass that
  wrote them, 0 for NULL.
- `Expire` deletes any set of live traces whose request is over: the shortest
  retention is 30 days, no request lasts that long. The indexer gets no such
  guard, because a job may wait in the queue.
- Abstractions: one organization (every key and index is scoped by it); SHA-256
  is collision free, so a hash is the tuple of what it commits to; validation,
  permission snapshot and project scope are one Boolean; spans are flattened as
  `flattenEvents` does, their only constraint that can fail (a span id twice in
  one envelope) has the effect of an event id twice in it.

### Exports

- Row, BullMQ job and archive share an id. `CreateRow` and `Publish` or
  `PublishFails` are the two awaits of `createExport`; a request that got an
  error may leave a row pending for ever, or a job all the same.
- A pass is `MarkProcessing` (outside the try block), `LoadTraces`,
  `IncludeSnapshots`, `IncludeEvents` (each include is a statement of its own),
  `PutArchive`, `Complete`, `Finish`. `StepFails` leads to the catch block,
  `MarkFailed` or `CatchFails`. An upload or an update that failed may have taken
  effect: the completion that throws after its commit is followed by the update to
  failed.
- The manifest holds the number of its pass for `generated_at`, so that two
  passes never build the same one. The row's `manifest_hash` is of the compact
  text, the file in the archive is indented: `docs/export-format.md:52` says
  canonical JSON, which is neither, but since a reader who parses the file can
  rebuild the text this is no property here. `PackageAssembler`'s own
  `manifestHash` is used by nobody.
- An export by filter without a project covers the organization. Traces
  ingested after the request are left out: they only widen what is found.
- `ZipArchive` is the byte layout, because the code writes it by hand: lengths,
  offsets and the fields that hold them. `writeUInt32LE` throws where a field is
  too narrow (`ThrowZip`); such a pass fails.

### Retention and queries

- A run reads organizations and plans once (`StartRun`), takes its cutoff when it
  comes to an organization, then finds and deletes batches until none is found.
  The hourly timer does not wait for the run before, so `Runs` overlap. A failed
  statement is an unhandled rejection and ends the worker (`WorkerExits`).
- `upgraded` is history: the runs that were under way when an operator raised
  the plan. They delete by the plan they read, which the property excepts.
- `Query` has one user. `explorer` is the state of `TraceExplorerPage` and the
  search it waits for, `detail` a `getDetail` with its four statements and the
  check of the window after them. `unlisted` is history: the traces that every
  fetch of the listing could see and that are not listed yet. `mixed` is history:
  a project was switched while a later page was loaded, which keeps the rows and
  the cursor of the old project (`TraceExplorerPage.tsx:25-29`) and is excepted
  by the property.

### SDKs

- Of an envelope `rev` counts the changes it holds; each change hands over the
  whole envelope, to a sink or to the client's own pending list. A caller is an
  async task (Node) or a thread (Python).
- In Node what a task does up to its next await is one step (`LoopFree` keeps
  others out while a wrapped model call still has its flush to call). `flush`
  returns at once while another runs (`outcome` is "skipped", and `promised` still
  says what it found in the buffer). An error in a flush nobody awaits is an
  unhandled rejection and may end the process.
- In Python a change is handed over in steps of its thread. With a sink,
  `PyChange` alters the trace, `PyCopy` makes the redacted copy and `PyEnqueue` puts
  it into the buffer under the lock, which it takes only then: an older copy may
  replace a newer one. `shared` is history: the traces that another thread was still
  handing over when they last changed. Without a sink there is no lock: `PyFind` and
  `PyPlace` are the search and the assignment of `_sync` (or its IndexError),
  `PyCopyPending` and `PyClearPending` those of `flush`; `torn` is history: the
  traces whose entry was overwritten by that of another or cleared unsent. The copy
  itself is taken at one instant. The timer fires once. A request without an answer
  is not retried: its exception is not the one the loop catches.
- What ingest answers is an action's choice among 2xx, 400, another 4xx, a 429 or
  5xx, and silence; an envelope is valid or not by its content. Python sends
  `null` for what it was not given, which the schema refuses.

### Admission and the control plane

- `Arrive` is `RateLimitMiddleware`, which comes before
  `TenantContextMiddleware` (`app.module.ts:53`) and therefore keys its buckets by
  address, although `docs/api/ingest.md:42` says per key. Time is counted in
  parts of a token. `Authenticate`, `EnforceIngest` and `Stored` are the steps
  up to the commit; a slot is a request in hand.
- Usage is a count of existing rows, so it falls with retention and with the
  turn of the month. Replays of accepted traces count as incoming events.
- `ControlPlane`: a request is its `pc`, who sends it, what the middleware found
  out (`ctx`) and what its handler found out (`target`). A statement outside a
  transaction is a step of its own. The audit row is written beside the answer;
  its action is the first entry of `AUDITED_ACTIONS` whose method fits, so that
  every POST under `/organizations` is recorded as `api_key.created`
  (`AuditedActions` is the table itself, which the run `audit_action` compares with
  what is logged), and a failed insert ends the process (`ProcessExits`). Rows of these tables are never
  deleted. An invited person's e-mail blocks the row that signing in would make
  (`EnsureUser` answers 500), and `UpdateRole` may demote the last administrator.

### Web console

- `ConsoleExports` is React Query as the page uses it: the cached answer, the
  fetch under way, the refetch timer, invalidation, one retry. React Query is not
  in the repository; its part is marked external. `missed` is history: an answer
  that was read before an export was made arrived after the answer to its
  creation, on another page, where nothing cancels it.
- `ConsoleSession` takes what React does up to its next rest as one step: a
  change with its rendering, redirects and effects. `members` is what the API has
  committed. `LinkAnswered` is dropped when the effect was cancelled (`current`).
  `diverted` is history: the form was answered after its user had left it, and
  its answer overwrites the organization and the page of whoever is there.

### Local development

- Files are known by what they say of the variables the scripts add: nothing,
  the name alone (in a comment, or without a value), or a value. The script adds
  a line only to a file that does not contain the name.
  The names of `.env.example` are in comments (lines 29-32), and `.env` is a copy of it,
  so that after the documented setup none of the variables is set that
  `docs/runbooks/local-dev.md:98` says the bootstrap sets; no run is about that.
- `TruncateFile` and `WriteFile` are the two steps of `writeFileSync`. A run that is
  killed between them leaves a file that does not parse, on which every later run
  ends at `ReadFile` until the key is revoked or the file deleted. `keptKey` is
  history: whether what a bootstrap left was lost since by an overlap, a kill between
  the row and the file or in the write, or a deleted file.

## Runs

| Run | Question | Bounds |
| --- | --- | --- |
| `ingest` | Do the answers agree with what was committed, stored and queued? | 3 requests, 6 bodies over 2 traces, 2 events, 2 large payloads, 1 key; symmetric requests |
| `indexer` | Do seals bind what was ingested, whoever runs when? | 2 jobs, 2 workers, 3 bodies (one completes, one stays open, one is cancelled and holds a completion); symmetric |
| `pipeline` | Does the whole implement `AuditLog`, do requests and jobs end, and does the console show how exports ended? | traces: 2 requests, 1 worker, one body with and without key; exports: 2 rows on a list of 1 |
| `worker` | Do rows and archives of exports agree, does an accepted export end, and does retention delete exactly what has expired? | 1 export by id or by filter, 2 traces, a cap of 1, 2 workers; 2 runs, batches of 1, 2 plans, 4 days, 1 exit; 3 files with 3 lengths, fields below 300 and 30 |
| `sdk` | Is what a program records delivered, or given up with an error? | 2 callers, 2 traces with up to 4 changes together, 1 span, 2 attempts, a buffer of 2, both SDKs with and without a sink |
| `portal` | Are listings and details exact, and are pages shown only to members? | 3 traces, pages of 1, 2 projects, 2 plans, 3 days, 1 run, 2 payloads and a cache of 1; 2 users, 2 links, with Clerk and without |
| `tenant` | Do invitations, keys, the rows that audit entries name, the limits and the local credentials hold? | 2 requests, 2 persons, 2 roles, 1 key; 2 slots, 2 tokens, a quota of 5, requests of up to 2 events, 6 ticks; 2 bootstraps, 2 local keys, 1 service; symmetric |
| `ingest_queued` | `docs/api/ingest.md:5`: "persisted and queued" | as `ingest` with 2 requests; violated |
| `ingest_payload` | `docs/export-format.md:69`: `payload_ref` resolves to the event's payload | as above; violated |
| `indexer_dlq` | `docs/runbooks/indexer-dlq.md:5`: exhausted jobs reach the DLQ | 1 job, 1 worker; violated |
| `quota_mail` | `docs/pricing-plans.md:23`: "an email is sent" at 80 percent | 1 slot, 2 mails counted; violated |
| `audit_action` | `AUDITED_ACTIONS`, `meta-audit.interceptor.ts:7-21`: an invitation is `member.invited` | 1 request, 2 persons; violated |

Why the bounds are enough for the cases that matter:

- *Ingest, indexer.* A conflict over a trace, an event or a key is between two
  requests, and a third one makes retention and a later retry act on the outcome.
  Two bodies share a trace with different payloads and events, two share an event
  across traces, and one key is sent with two traces, so that each unique index is
  hit alone and together with another. Two workers on one trace with a second job
  are all the ways two passes can overlap.
- *Queues.* BullMQ's `maxStalledCount` of 1 bounds redeliveries, so no counter
  needs a bound of ours: `passes` and `stalls` are at most 2 and `attemptsMade`
  at most 1. One export is enough because exports share nothing but the traces,
  which the model deletes at will; two workers hold the two passes of its job.
- *Caps.* A cap of 1 with 2 traces has an export at its cap, below it and beyond
  it; pages of 1 with 3 traces have a first, a middle and a last page, a cursor
  whose row is gone, and rows of equal start time.
- *Retention.* Two runs take the same batch, overlap with a change of plan either
  way and are cut off by an exit; four days let a trace leave the shorter and the
  longer window (1 and 2 days). `MaxExits` is needed for liveness only: a worker
  that always dies first deletes nothing.
- *SDKs.* A trace that is changed again while it is sent and once more while that
  is retried, beside one that fills the buffer; more attempts repeat the second. The
  fourth change of one trace, which is then alone, is the one of a wrapped call. No step
  under fairness is a change, so that what must happen is never cut off. Two threads on one trace are enough for one
  to overtake the other between copy and lock.
- *Console.* Two exports on a list of one: the older is pushed off. Two users with
  a link each, so that one can be answered after the other has begun.
- *Control plane.* Every conflict is between two requests: two invitations of one
  person, an invitation and a sign-in, a revocation and a use of the key. A third
  person or key changes nothing that the two do not.
- *Admission.* Two requests read one count; the quota is no multiple of a request,
  so that the overshoot is reached. Six ticks refill a bucket of four parts and
  leave time to spend it.
- *Local development.* Postgres is the service the bootstrap needs; others only add
  to what `verify` waits for. Two runs and two keys: a key is lost, revoked and replaced. With no
  third key the last replacement is not followed by another.

Bounds named in the modules: `MaxDay`, `MaxExits`, `MaxRevs`, `MaxSpans`, `MaxTime`,
`MaxMails`, `MaxExports`, `MaxLinks`. The limits of the code (`TakeLimit`,
`BatchSize`, `Limit`, `CacheMax`, `ListLimit`, `MaxAttempts`, `MaxBufferSize`,
`Capacity`, `PartsPerToken`, `MonthlyLimit`, `Wide`, `Narrow`) are constants given
small values.

What the passing properties say.

Traces:

- `AckNamesCommittedTrace`, `OneAckPerTrace`, `AckAnswersPost`: a 202 names a
  committed trace with the `received_at` of its commit; all clients get the same
  one unless retention intervened; it is the trace posted unless an
  Idempotency-Key was used for two traces.
- `PayloadRefsResolve`: a stored reference resolves to the event's payload
  unless a request for the same trace and event with another payload replaced it
  (which does happen: `ingest_payload`).
- `ClientErrorLeavesNoRow`, `JobOnlyForAcceptedRow`: a 400 or 409 leaves nothing
  behind; a job exists only for a row whose own request was acknowledged.
- `SealBindsContent`, `SealColumnsAgree`, `SealIsFinal`: a seal carries the hash
  and status of exactly what was ingested, its columns agree although passes
  overlap, and later passes change neither hash nor status.
- `NoFalseMismatch`, `CompletedJobDidItsWork`, `MissingOnlyWhenDeleted`: no
  mismatch is reported for what ingest wrote; a completed job indexed and, when
  terminal, sealed its trace; a trace is missed only if retention deleted it.
- `ImplementsAuditLog`: the composition refines `AuditLog`. An entry is
  recorded whole, indexed, sealed with the outcome its content determines, never
  altered, and removed only by retention; a client is told only of recorded
  entries.
- `RequestsEnd`, `JobsSettle`: every received request is answered unless its
  task dies; every queued job completes or fails.

Exports and retention:

- `HashNamesArchive`, `TicketIsNotAhead`: the recorded manifest hash is that of the
  archive under the key, and a signed URL serves that archive or a later one, as
  long as no two workers ran the job at once. That exception is real: the second
  pass overwrites the archive before it overwrites the row, and if it dies in
  between, or its order differs, the row names an archive that is gone.
- `ArchiveIsComplete`: a trace that retention spared is in the archive whole,
  unless the cap of 500 cut it off, and nothing else is.
- `ImplementsExportRows`, `ExportsSettle`: a row takes only the steps of `ExportRows`,
  and once it was completed it names an archive from then on, though a redelivery
  takes it back to processing and its failure to failed; an accepted export ends
  completed or failed, with the exceptions the property names, each of which leaves a
  row in `processing`.
- `ZipIsReadable`: a reader finds every file of a finished archive.
- `OnlyExpiredIsDeleted`, `ExpiredIsDeleted`: overlapping compactions delete
  nothing inside the window but what a run under way takes by a plan that was
  raised under it, and all that is outside every window in the end.

SDKs:

- `NothingLostQuietly`: the latest state of a trace is being handed over, is waiting,
  on its way, accepted or given up with an error. Two races of Python's threads are
  excepted, because the code has them: a copy made before the lock may replace a newer
  one if two threads record on one trace (`shared`), and the pending list of a client
  without a sink is not locked (`torn`).
- `FlushDelivers`: a flush that sends and ends well delivered what it found. One that
  returns at once because another runs, that of `shutdown` included, delivers none of
  what it found and loses none of it. Nothing need send it afterwards, though: the
  running flush does not look at the buffer again (`transport.ts:65-72`), so that even a
  full buffer is left to the timer, and after `shutdown` there is none.
- `SendsInOrder`, `BufferDrains`: Node with a sink never sends an older state after a
  newer one; while its timer runs the buffer empties. Python has no counterpart of
  these two.

Queries and console:

- `PagingIsExact`: newest first, nothing twice, and nothing left out that every
  fetch could see, whatever ingest and retention do between pages.
- `DetailIsWhole`: a trace that is deleted between the statements of `getDetail` is
  refused and not shown in part. This hangs on the order of reads: the window is
  checked last.
- `PayloadsAreShown`: at most a cacheful of payloads is in an answer, and no fewer
  of those that could be read.
- `PollingIsKept`, `ShownCatchesUp`: a list at rest shows each export this user was
  told of with a final status, the one that was read last (a redelivery may change it
  after the polling has stopped); a row shown as under way catches up.
- `PagesAreLinked`: a page is shown to a Clerk user only when a member of the
  organization its requests name.

Tenant and local development:

- `InviteAnswersHold`: 201 and 409 mean that the person has a membership, through
  four statements without a transaction.
- `RevokedKeyIsRefused`: a key revoked before a request came does not authenticate
  it, though it is read and compared in two steps.
- `AuditedRowsExist`: the row an audit entry names exists, and a key that an entry
  reports as revoked is. It says nothing of the action an entry names, which for a POST
  is that of the table's first: `EntriesNameTheirAction` compares it with the table and
  is violated.
- `RateBound`: in no span of time does an address get more through than a bucket
  and the span's refill, within one life of the process.
- `OvershootBounded`, `BlockedMeansBlocked`: concurrent checks exceed the quota by
  less than the slots can hold; after the console says that ingest is blocked, no
  request with events passes until usage falls.
- `CredentialsWork`: after one good bootstrap the file holds a live key, except while
  a run rewrites it, unless an overlap, a kill at the wrong place or a deleted file
  lost it, and revoking the key and running it again repairs that.

The violated runs are listed with their lines under `findings`. The gravest is
`ingest_queued`: a trace whose publish is lost is never indexed, since no retry
and no sweep publishes it again.

Deadlock is checked in `portal`, where a user can always start over. It is not checked
in the other passing runs, because there the system may stop: requests, jobs, recorded
changes, ticks or keys are finite, and a behaviour ends when all are done.

## Fairness

- `Fairness` (traces): weak fairness of the steps of each request, of each worker,
  of taking each waiting job and of the stalled check for a job whose holder is
  gone. A Node event loop runs every promise that settled, a BullMQ worker keeps
  polling, and the stalled check runs on a timer.
- `ExportFairness`: the same for exports.
- `WorkerFairness` adds the steps of each compaction: the timer fires every hour and
  at every start, and the database answers. `WorkerExits` is bounded and not fair.
- `FairSdkSpec`: the Node timer fires, a wrapper that was answered calls flush, and
  each request is answered, in whatever way. Nothing is assumed of Python, whose
  timer fires once.
- `ConsoleExportsFairness`: the refetch timer fires and a fetch is answered.

A failed call (`DatabaseFails`, `StepFails`, `FetchFails`) is no step of these
sets, so nothing ends because it was forced to fail. Nothing is assumed about
clients, crashes, users or retention under ingest and exports. The other runs
state no fairness and check safety.

## Proofs

Every safety invariant and every action property of the passing runs is also proved,
for every value of the constants, and so are both refinements. The runs found out
first that the invariants hold; each inductive invariant below was itself checked as
an invariant of its run's instance before it was proved.

### The trace pipeline

`TracePipeline_proofs` proves, for traces of any length, that the chain hash after
event i commits to the first i content hashes (`ChainCommitsToPrefix`), that
equal seals mean equal events (`SealIsTamperEvident`), and that any rows
`verifyChain` accepts return the seal of their content hashes
(`VerifyChainIsSound`). The chain is a recursive function; existence of it is
shown by the prefixes as a witness, and induction along the events is
`IntervalInduction`: a set that holds 1 and is closed under successor up to n is
1..n, by the pigeonhole principle for finite sets. Its parameter is a set, so
that no induction rule with a predicate parameter is needed.

It also proves `Spec => []TypeOK` for any requests, envelopes,
keys and workers; `TypeOK` holds the types of both components
(`IngestTypeOK`, `IndexerTypeOK`), which no run repeats. `TypeOK` is not
inductive: a request that stands at a step of `acceptTrace` needs a body
(`BodyReceived`), a worker in a pass needs a job (`HasJob`), and the seal it
writes must be a hash, which needs `IngestedRowsVerify`: the rows ingest stores,
sorted by `sequence_index`, pass `verifyChain`, and the hash returned is the seal
of what was posted. The assumptions are those of the modules: envelopes are well
formed, and the values that stand for "none" are not values.

The other theorems about traces are about the composition, `Spec` of
`TracePipeline`, and rest on two inductive invariants.

`IngestInv` (`Ingest_proofs`) adds to the types:

- `StagesAgree`: what row and answer a request has at each step of
  `acceptTrace`. `ClientErrorLeavesNoRow` hangs on it: a request that lost its
  idempotency key after its own commit finds its own live row in the P2002
  handler, so it is never told 409.
- `AcksCommitted`: every acknowledgement, in an answer or in
  `ingest_idempotency`, is that of a committed row. It must cover the table,
  since a replay answers from it.
- `LiveTracesDiffer`: the unique index. With `AcksCommitted` it gives
  `OneAckPerTrace`: two answers for one trace are those of two commits, and if
  both rows are live they are one.
- `QueuedWasAnswered`: whatever is published, queued or in a worker's hands
  (even of one that lost its lock) was answered by its request.
- `KeysNameTraces`: the stored response of a key is for a trace that was sent
  with that key. `PayloadsStored`: the put of an event that is no longer under
  way has stored its payload, or another request replaced it.

`IndexInv` (`Indexer_proofs`) adds to `IngestInv`:

- `RowsIntact`: the events and the hash of a live row are those of its envelope.
- `SealsSettled`: the columns of a row before and after its first seal.
- `PassesAgree`: what a worker has read is what ingest wrote, however old it is.
  The point is the pair of separate reads: a trace deleted between them yields no
  events, which verify and resolve to another status; such a pass ends at the
  projection, because the row is gone, so a pass that reaches the seal has all
  the events. Two overlapping passes resolve the status to the same value
  although the second one may read what the first one sealed
  (`ResolveSettles`).
- `JobsAgree`: what the final states of a job say.

`SealsAreFinal` is an action property: the hash and the status of a sealed row
are functions of its envelope, which no step changes.

`Outcomes_proofs` proves `Spec => ImplementsAuditLog`. Under the refinement
mapping a commit is `Record`, an answer is `Announce`, the first projection and
the first seal of a row are `Index` and `Seal`, retention is `Expire`, and every
other step (a lost answer, a second pass, a stall, a crash) is a stutter.

### The control plane, admission, local development

`Tenant_proofs` proves, for any number of requests, persons, roles, projects
and keys, the types with the unique index on e-mails (`ControlTypes`) and the
three properties of the `tenant` run (`InvitationsHold`, `RevokedKeysAreRefused`,
`AuditedRowsAlwaysExist`), from `ControlInv`:

- `OrgFirst`: before the organization exists, nothing else does. Sign-up replaces
  the set of projects, which only then is no loss.
- `Progress`, of each request: what it was asked for (`Asking`), what its handler
  has found out or done at its step (`Handled`), who asks (`Caller`), and that its
  answer and its audit row are true (`Told`).

Rows of these tables are never deleted and revocation is never undone (`Grown`).
`ProgressIsKept` turns this into the lemma that carries the proof: what one request
knows stays true however the others change the tables, so that each action is
looked at only for the request that takes it. `NextKeepsInv` then has one lemma per
action.

`AdmissionInv` gives `RateLimit`, `OvershootLimit` and `BlockedIsBlocked`, for any
capacity, rate, limit and number of slots:

- `BucketPays`: what an address got through since any moment, with what its bucket
  holds now, is paid for by a full bucket and the refill since. `RateBound` speaks of
  all pairs of moments and is kept by time alone; its strength comes from the pairs
  that end now. A refill is capped, which only loses.
- `BannerIsTrue`: a console that shows the block is right until usage falls.
- `OvershootBounded` is inductive as it stands, once the cardinality of the admitted
  slots is known to grow and shrink by one.

`LocalInv` gives `CredentialsAreKept`. As long as nothing was lost, bootstraps have
run one at a time (`OneAtATime`), what a run has found out about the keys still holds
(`FoundHolds`), and a live key is in the file or about to be written by the run that
made it or rewrites the file (`LiveIsKept`).

### Exports and archives

`Worker_proofs` proves `ImplementsExportRows` (`ExportRowsRefinement`) and the three
invariants of exports (`HashNaming`, `ArchiveCompleteness`, `TicketOrder`), for any
number of exports, traces, workers, redeliveries and any cap, from `ExportInv`:

- `RowOK`, `PassOK`: what there is before and after a request, a row that is completed
  having a hash, which is what `recorded` of `ExportRows` is; a worker in a pass has
  a job whose passes have reached its own, and a row that it has claimed.
- `ReadOK`: what a pass has read covers what is still there. It is stated relative to
  `live`, which only shrinks, so that retention between two statements keeps it.
- `AloneOK`: while no lock expired under a live worker, a job is in the hands of the
  worker that has the lock, and its pass is later than that of the archive it will
  replace; when it is about to complete the row, the archive is its own.
  `HashNamesArchive` and `TicketIsNotAhead` hang on it, `ArchiveIsComplete` does not.
- `UploadOK`: an archive is of a pass that has begun.

`ZipReadability` proves `ZipIsReadable` for any files. `ZipInv` says that the offset
is the total length of the local parts and that each central entry holds the start of
its own. What `Total` computes is a fold over a sequence: `SummedExists` shows that
the recursion FoldLeft is defined by has a solution on the subsets of 1..n,
`TotalSteps` reads the steps off it, and `TotalOfAppend` and `StartsStay` are the two
laws the proof needs. The induction is `SetInduction`, with a set for its parameter,
from the well-foundedness of the natural numbers.

### Retention, queries, the console

`Portal_proofs` proves:

- `RetentionSafety` (`OnlyExpiredIsDeleted`), from `RetentionInv`: what a run is about
  to delete was outside the window when it looked (`BatchOK`), and a run under which
  the plan was not raised is not ahead of the window, neither by the plan it has read
  nor by the cutoff it has taken (`CutoffOK`).
- `DetailWholeness` and `HydrationIsComplete`, from `QueryInv`. `DetailOK`: a trace
  that getDetail is reading, and that no raised plan has overtaken, has left the
  window or is there with all that was read of it; so the check after the reads refuses
  what retention took. `HydratedKeeps`: whatever order the reads end in, the request
  cache holds the last `CacheMax` of them; it is induction along FoldLeft as above.
- `PagingExactness`, from `PagingInv`, for any page size, any traces and any
  interleaving with ingest and retention. `PagesOK`: the pages loaded so far are sorted,
  end at the cursor, and the page shown begins after it. `UnlistedOK`: what every fetch
  could see and is not listed comes after the place the listing has come to.
  `SortedRows` is the sorted sequence of a finite set of rows: that there is one is
  shown by the rank of a row, the number of rows before it.
- `LinkedPages`, from `SessionInv`: the link `AuthBootstrap` waits for is one of the
  user it was mounted for (`CurrentIsTheUsers`), a link that was answered has made the
  member (`LinkedAreMembers`), and so a console that is ready is a member's
  (`ReadyIsMember`), shown or not.

`Outcomes_proofs` proves `PollingGoesOn` (`PollingIsKept`), for any number of exports
and any limit, from `ConsoleInv`: rows are made in order (`RowsOK`), so that the newest
up to the limit cover what the user was told; what has been read covers it, unless the
read was overtaken, and then the data are marked as stale and are fetched again
(`CoverageOK`).

### The SDKs

`Sdk_proofs` proves `NothingLostQuietly`, `FlushDelivers` and `SendsInOrder` for both
transports, with any buffer size, callers and traces, from `SdkInv`:

- `ShapeOK`: a flush has a body on the wire as long as it has entries, except one of
  the Python client that has only copied the pending list.
- `ListsOK`: what waits or was taken is of recorded traces, in no later state than the
  latest; in Node with one entry of a trace in a list, without which an upsert could
  leave an older entry behind.
- `HandsOK`: a thread that hands over a change has no flush of its own, and the copy it
  holds is the latest, unless another thread was handing over the trace when it last
  changed (`shared`).
- `LatestOK`: the latest state of each trace is somewhere, or one of the two races may
  have lost it. It is stronger than `NothingLostQuietly`: it does not need the process
  to live, and a thread that has found an index in the pending list does not count as
  handing over, since it may come too late.
- `PromiseOK`: what a running flush has promised is answered or still on its way, in
  that state or a later one. `SkipOK`: only Node's flush leaves the buffer to another
  one, and what it found is kept (`KeptOf`), whatever becomes of that other one.
- `OrderOK`: one Node flush at a time, and what waits is later than what it has taken.

### From the parts to the whole

The runs check compositions in which a behaviour is about one part. `WorkerParts`,
`PortalParts`, `TenantParts` and `OutcomesParts` prove that a behaviour of the whole is
one of each part, so that what is proved of the parts holds of what the runs check.
The `ingest` and `indexer` runs check a component by itself with more requests or
workers; the theorems are about the two together.

### Assumptions

The proofs use the assumptions that the modules state and TLC evaluates: what the
bounds are, which sets are finite (ids, references, slots), and that the values which
stand for "none" (`NoEnvelope`, `NoTrace`, `NoFile`, `NoArchive`, ...) are not values.

### Only model-checked

- Liveness (`RequestsEnd`, `JobsSettle`, `ExportsSettle`, `ExpiredIsDeleted`,
  `BufferDrains`, `ShownCatchesUp`): TLAPS reasons neither about fairness nor about
  ENABLED.
- The properties that runs find violated: they are false.

## Plan

Done: the trace pipeline, exports, retention, queries, SDKs, admission, control plane,
local scripts and the console's asynchronous parts, modelled and checked; every safety
property of a passing run proved.

Next:

1. The theorems about ingest and indexing for `IngestSpec` and `IndexerSpec`, where the
   other component is absent: `IngestInv` and `IndexInv` split into what each needs.
2. That the answers of hydrateMany are the payloads read last, not only as many
   (`HydratedKeeps` shows it of the cache).

## Not modelled

- Web console: the lists of API keys and projects (fetched once and shown), the
  dashboard, theme and layout, and the replay page, which lays out what
  `getDetail` answers. The cache under the trace explorer's queries is left out:
  each page has a key of its own. `handleDownload` opens a link.
- `replay.service`: another layout of the same reads.
- Notifications: mails are outgoing text. Only that and how often a quota warning
  is sent is modelled.
- Metrics, the index lag gauge, logging and configuration: no decision depends on
  them.
- The JSON Schema: data interpreted by a library; a body is valid or not. The body
  size limit and token verification are stateless, the latter is Clerk's.
- Canonical JSON: formatting. An event is a value, equal events have equal hashes.
- SDK redaction: it changes contents and no control flow. (Node turns an array under
  `headers` into an object, Python keeps the list and deep-copies tuples without
  looking into them.) Event ids of a wrapper repeat when it is called twice on one
  span; ingest has answered that trace by then, so that nothing is left to refuse.
- `TracesRepository.findByExternalId`, `list`, `existsInOrganization` and the `mark*`
  methods of `ExportsService`: no caller. The fallback of `loadManifestBuilder`: the
  module it stands in for is part of the build.
- Local development: the probes of the API and web ports by `verify`, the copy of
  `apps/api/.env`, the object that the health check's storage probe leaves behind.
- Infrastructure, seed data and examples: deployment and demo material.
- Several organizations: every table is scoped by its organization, and every model
  holds one.
