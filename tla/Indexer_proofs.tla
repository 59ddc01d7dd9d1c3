---------------------------- MODULE Indexer_proofs ----------------------------
(***************************************************************************)
(* The safety properties of indexing and sealing, for any number of jobs,  *)
(* of workers that overlap and die, and of stalls, with ingest and         *)
(* retention running.                                                      *)
(***************************************************************************)
EXTENDS Ingest_proofs

\* While a row is live its events and its hash are those of its envelope.
RowsIntact ==
  \A r \in Requests :
    /\ row[r] = "none" => indexedAt[r] = 0 /\ sealedAt[r] = 0 /\ completedAt[r] = 0
    /\ row[r] = "live" => events[r] = EventRows(body[r])
    /\ row[r] = "deleted" => events[r] = {}
    /\ row[r] # "none" => chainHash[r] = SealTrace(ContentHashes(body[r]))

\* The columns of a row that was not sealed, and those of one that was.
SealsSettled ==
  \A r \in Requests :
    /\ row[r] # "none" /\ sealedAt[r] = 0
       => status[r] = InitialStatus(body[r]) /\ completedAt[r] = 0
    /\ sealedAt[r] # 0
       => /\ status[r] = SettledStatus(body[r])
          /\ status[r] # "in_progress"
          /\ indexedAt[r] # 0
          /\ completedAt[r] = (IF status[r] = "completed" THEN sealedAt[r] ELSE 0)

Worked(r) ==
  /\ indexedAt[r] # 0
  /\ SettledStatus(body[r]) # "in_progress" => sealedAt[r] # 0

\* What a worker has read is what ingest wrote, however old it is: a pass gets
\* past the projection only when the row was still live after its read.
PassAgrees(w, r) ==
  /\ wpass[w] # 0
  /\ wpc[w] \in {"readEvents", "project", "seal"}
     => wstatus[w] \in {InitialStatus(body[r]), SettledStatus(body[r])}
  /\ wpc[w] = "project" /\ row[r] = "live" => wevents[w] = EventRows(body[r])
  /\ wpc[w] = "seal" => wevents[w] = EventRows(body[r]) /\ indexedAt[r] # 0
  /\ wpc[w] = "finish" => Worked(r)

PassesAgree == \A w \in Workers : wpc[w] # "idle" => PassAgrees(w, wjob[w])

JobsAgree ==
  \A r \in Requests :
    /\ job[r] = "completed" => Worked(r)
    /\ failedReason[r] # "mismatch"
    /\ failedReason[r] = "missing" => row[r] = "deleted"

IndexInv == IngestInv /\ RowsIntact /\ SealsSettled /\ PassesAgree /\ JobsAgree

\* Nothing is stored, indexed or sealed at first.
LEMMA IndexInvInit == Init => IndexInv
<1> SUFFICES ASSUME Init PROVE IndexInv
  OBVIOUS
<1>1. IngestInv
  BY IngestInvInit
<1>2. RowsIntact /\ SealsSettled /\ PassesAgree /\ JobsAgree
  BY DEF Init, IngestInit, IndexerInit, StoreInit, RowsIntact, SealsSettled, PassesAgree, JobsAgree
<1> QED
  BY <1>1, <1>2 DEF IndexInv

-----------------------------------------------------------------------------
\* The statuses a pass may have read resolve to the one the trace must end with.
LEMMA ResolveSettles ==
  ASSUME NEW e \in Envelopes, NEW s \in {InitialStatus(e), SettledStatus(e)}
  PROVE  Resolve(s, TypesOf(EventRows(e))) = SettledStatus(e)
<1> DEFINE types == TypesOf(EventRows(e))
<1>1. "completion" \in types <=> \E i \in DOMAIN e.events : e.events[i].type = "completion"
  <2>1. \A i \in DOMAIN e.events : EventRow(e, i).type = e.events[i].type
    BY DEF EventRow
  <2> QED
    BY <2>1 DEF TypesOf, EventRows
<1>2. e.status \in {"in_progress", "completed", "failed", "cancelled", "unset"}
  BY EnvelopeFields DEF Statuses
<1>3. CASE e.status \in {"failed", "cancelled"}
  <2>1. s = e.status /\ SettledStatus(e) = e.status
    BY <1>3 DEF InitialStatus, SettledStatus
  <2> QED
    BY <1>3, <2>1 DEF Resolve
<1>4. CASE e.status \notin {"failed", "cancelled"}
  <2>1. SettledStatus(e) = IF "completion" \in types THEN "completed" ELSE "in_progress"
    BY <1>1, <1>4 DEF SettledStatus
  <2>2. s \notin {"failed", "cancelled"}
    BY <1>2, <1>4, <2>1 DEF InitialStatus
  <2> HIDE DEF types
  <2>3. Resolve(s, types) = IF "completion" \in types THEN "completed" ELSE "in_progress"
    BY <2>2 DEF Resolve
  <2> QED
    BY <2>1, <2>3 DEF types
<1> QED
  BY <1>3, <1>4

\* The types a step of the worker reads and writes.
LEMMA IndexShapes ==
  ASSUME TypeInv
  PROVE  /\ row \in [Requests -> {"none", "live", "deleted"}]
         /\ status \in [Requests -> Statuses]
         /\ chainHash \in [Requests -> Hashes]
         /\ DOMAIN events = Requests
         /\ indexedAt \in [Requests -> Nat]
         /\ sealedAt \in [Requests -> Nat]
         /\ completedAt \in [Requests -> Nat]
         /\ job \in [Requests -> {"none", "waiting", "active", "completed", "failed"}]
         /\ wpc \in [Workers -> {"idle", "read", "readEvents", "project", "seal", "finish"}]
         /\ wjob \in [Workers -> Requests \cup {NoJob}]
         /\ wstatus \in [Workers -> Statuses]
         /\ DOMAIN wevents = Workers
         /\ wpass \in [Workers -> Nat]
         /\ passes \in [Requests -> Nat]
         /\ failedReason \in [Requests -> Reasons]
         /\ \A w \in Workers : wpc[w] # "idle" => wjob[w] \in Requests
BY DEF TypeInv, TypeOK, IndexerTypeOK, StoreTypeOK, HasJob

\* The row a worker works on was committed, from an envelope.
LEMMA JobHasRow ==
  ASSUME IngestInv, NEW w \in Workers, wpc[w] # "idle"
  PROVE  /\ wjob[w] \in Requests
         /\ row[wjob[w]] # "none"
         /\ body[wjob[w]] \in Envelopes
<1>1. wjob[w] \in Requests
  BY DEF IngestInv, TypeInv, HasJob
<1>2. row[wjob[w]] # "none"
  BY <1>1 DEF IngestInv, QueuedWasAnswered, Queued
<1> QED
  BY <1>1, <1>2 DEF IngestInv, TypeInv, BodyReceived

-----------------------------------------------------------------------------
\* A step of the API commits whole rows, and touches no row that exists.
LEMMA ApiTables ==
  ASSUME IngestInv, NEW r \in Requests, ApiStep(r), NEW q \in Requests
  PROVE  /\ indexedAt'[q] = indexedAt[q] /\ sealedAt'[q] = sealedAt[q]
         /\ completedAt'[q] = completedAt[q]
         /\ row[q] # "none" =>
              /\ row'[q] = row[q] /\ body'[q] = body[q] /\ events'[q] = events[q]
              /\ status'[q] = status[q] /\ chainHash'[q] = chainHash[q]
         /\ row[q] = "none" /\ row'[q] # "none" =>
              /\ row'[q] = "live"
              /\ status'[q] = InitialStatus(body'[q])
              /\ chainHash'[q] = SealTrace(ContentHashes(body'[q]))
              /\ events'[q] = EventRows(body'[q])
<1>1. row[q] # "none" => row'[q] = row[q] /\ body'[q] = body[q]
  BY CommittedStays
<1>t. /\ row \in [Requests -> {"none", "live", "deleted"}]
      /\ status \in [Requests -> Statuses]
      /\ chainHash \in [Requests -> Hashes]
      /\ DOMAIN events = Requests
      /\ pc[r] = "offload" => row[r] = "none"
  BY IndexShapes DEF IngestInv, StagesAgree
<1>2. CASE UNCHANGED tableVars
  BY <1>1, <1>2 DEF tableVars
<1>3. CASE ~ UNCHANGED tableVars
  <2>1. pc[r] = "offload" /\ CreateFromIngest(r) /\ UNCHANGED body
    BY <1>3 DEF ApiStep, Receive, ReplayCached, RejectInvalid, StartOffload, PutLands, PutFails,
       CommitTrace, CommitRefused, CommitFails, OffloadDone, StoreKey, StoreKeyFails,
       AnswerDuplicate, LookupFails, Respond, PublishLands, PublishFails, Crash, storeVars
  <2>2. CASE q = r
    BY <1>t, <2>1, <2>2 DEF CreateFromIngest
  <2>3. CASE q # r
    BY <1>t, <2>1, <2>3 DEF CreateFromIngest
  <2> QED
    BY <2>2, <2>3
<1> QED
  BY <1>2, <1>3

\* Publishing an id that BullMQ holds changes nothing.
LEMMA ApiJobs ==
  ASSUME TypeInv, NEW r \in Requests, ApiStep(r), NEW q \in Requests, job'[q] = "completed"
  PROVE  job[q] = "completed"
<1>1. CASE PublishLands(r)
  BY <1>1, IndexShapes DEF PublishLands, AddJob
<1>2. CASE ~ PublishLands(r)
  BY <1>2 DEF ApiStep, Receive, ReplayCached, RejectInvalid, StartOffload, PutLands, PutFails,
     CommitTrace, CommitRefused, CommitFails, StoreKey, StoreKeyFails,
     AnswerDuplicate, LookupFails, Respond, PublishFails, Crash, storeVars
<1> QED
  BY <1>1, <1>2

\* The API, which writes a row but once, keeps what indexing relies on.
LEMMA ApiIndexInv ==
  ASSUME IndexInv, NEW r \in Requests, ApiStep(r), UNCHANGED indexerVars
  PROVE  (RowsIntact /\ SealsSettled /\ PassesAgree /\ JobsAgree)'
<1>0. IngestInv /\ RowsIntact /\ SealsSettled /\ PassesAgree /\ JobsAgree
  BY DEF IndexInv
<1>r. row \in [Requests -> {"none", "live", "deleted"}]
  BY <1>0, IndexShapes DEF IngestInv
<1>1. RowsIntact'
  BY <1>0, <1>r, ApiTables DEF RowsIntact
<1>2. SealsSettled'
  <2> SUFFICES ASSUME NEW q \in Requests
               PROVE  /\ row'[q] # "none" /\ sealedAt'[q] = 0
                         => status'[q] = InitialStatus(body'[q]) /\ completedAt'[q] = 0
                      /\ sealedAt'[q] # 0
                         => /\ status'[q] = SettledStatus(body'[q])
                            /\ status'[q] # "in_progress"
                            /\ indexedAt'[q] # 0
                            /\ completedAt'[q] =
                                 (IF status'[q] = "completed" THEN sealedAt'[q] ELSE 0)
    BY DEF SealsSettled
  <2>1. CASE row[q] = "none"
    BY <1>0, <2>1, ApiTables DEF RowsIntact
  <2>2. CASE row[q] # "none"
    BY <1>0, <2>2, ApiTables DEF SealsSettled
  <2> QED
    BY <2>1, <2>2
<1>3. PassesAgree'
  <2> SUFFICES ASSUME NEW w \in Workers, wpc'[w] # "idle"
               PROVE  PassAgrees(w, wjob[w])'
    BY DEF PassesAgree, PassAgrees, indexerVars, workerVars
  <2>1. UNCHANGED <<wpc, wjob, wstatus, wevents, wpass>>
    BY DEF indexerVars, workerVars
  <2>2. wjob[w] \in Requests /\ row[wjob[w]] # "none"
    BY <1>0, <2>1, JobHasRow
  <2>3. PassAgrees(w, wjob[w])
    BY <1>0, <2>1 DEF PassesAgree
  <2> QED
    BY <1>0, <2>1, <2>2, <2>3, ApiTables DEF PassAgrees, Worked
<1>4. JobsAgree'
  <2> SUFFICES ASSUME NEW q \in Requests
               PROVE  /\ job'[q] = "completed" => Worked(q)'
                      /\ failedReason'[q] # "mismatch"
                      /\ failedReason'[q] = "missing" => row'[q] = "deleted"
    BY DEF JobsAgree
  <2>1. UNCHANGED failedReason
    BY DEF indexerVars, queueVars
  <2>2. job'[q] = "completed" => job[q] = "completed" /\ row[q] # "none"
    BY <1>0, ApiJobs DEF IngestInv, QueuedWasAnswered, Queued
  <2> QED
    BY <1>0, <2>1, <2>2, ApiTables DEF JobsAgree, Worked
<1> QED
  BY <1>1, <1>2, <1>3, <1>4

-----------------------------------------------------------------------------
\* A step of one worker disturbs no pass of another: it takes nothing back.
LEMMA OtherPasses ==
  ASSUME IndexInv, NEW w \in Workers,
         \A v \in Workers \ {w} :
           /\ wpc'[v] = wpc[v] /\ wjob'[v] = wjob[v] /\ wstatus'[v] = wstatus[v]
           /\ wevents'[v] = wevents[v] /\ wpass'[v] = wpass[v],
         wpc'[w] # "idle" => PassAgrees(w, wjob[w])' /\ wjob'[w] \in Requests,
         UNCHANGED <<body, row>>,
         \A q \in Requests : /\ indexedAt[q] # 0 => indexedAt'[q] # 0
                             /\ sealedAt[q] # 0 => sealedAt'[q] # 0
  PROVE  PassesAgree'
<1> SUFFICES ASSUME NEW v \in Workers, wpc'[v] # "idle"
             PROVE  PassAgrees(v, wjob[v])'
  BY DEF PassesAgree
<1>1. CASE v = w
  BY <1>1
<1>2. CASE v # w
  <2>1. /\ wpc'[v] = wpc[v] /\ wjob'[v] = wjob[v] /\ wstatus'[v] = wstatus[v]
        /\ wevents'[v] = wevents[v] /\ wpass'[v] = wpass[v]
    BY <1>2
  <2>2. PassAgrees(v, wjob[v]) /\ wjob[v] \in Requests
    BY <2>1, JobHasRow DEF IndexInv, PassesAgree
  <2> QED
    BY <2>1, <2>2 DEF PassAgrees, Worked
<1> QED
  BY <1>1, <1>2

\* A pass that throws writes nothing to the tables.
LEMMA ThrowIndexInv ==
  ASSUME IndexInv, NEW w \in Workers, wpc[w] # "idle",
         NEW reason, Throw(w, reason), reason # "mismatch",
         reason = "missing" => row[wjob[w]] = "deleted"
  PROVE  (RowsIntact /\ SealsSettled /\ PassesAgree /\ JobsAgree)'
<1>0. /\ IngestInv /\ TypeInv /\ RowsIntact /\ SealsSettled /\ PassesAgree /\ JobsAgree
      /\ UNCHANGED <<body, row, status, chainHash, events, indexedAt, sealedAt, completedAt>>
  BY DEF IndexInv, IngestInv, Throw, tableVars
<1>1. RowsIntact' /\ SealsSettled'
  BY <1>0 DEF RowsIntact, SealsSettled
<1>2. PassesAgree'
  <2>1. wpc'[w] = "idle"
    BY <1>0, IndexShapes DEF Throw, Idle, WorkerAt
  <2>2. \A v \in Workers \ {w} :
          /\ wpc'[v] = wpc[v] /\ wjob'[v] = wjob[v] /\ wstatus'[v] = wstatus[v]
          /\ wevents'[v] = wevents[v] /\ wpass'[v] = wpass[v]
    BY <1>0, IndexShapes DEF Throw, Idle, WorkerAt
  <2> QED
    BY <1>0, <2>1, <2>2, OtherPasses
<1>3. JobsAgree'
  <2>1. wjob[w] \in Requests
    BY <1>0, IndexShapes
  <2>2. ASSUME NEW q \in Requests
        PROVE  /\ job'[q] = "completed" => job[q] = "completed"
               /\ failedReason'[q] = failedReason[q] \/ (q = wjob[w] /\ failedReason'[q] = reason)
    BY <1>0, <2>1, IndexShapes DEF Throw
  <2> QED
    BY <1>0, <2>2 DEF JobsAgree, Worked
<1> QED
  BY <1>1, <1>2, <1>3

\* A step within a pass that writes neither tables nor queue.
LEMMA QuietIndexInv ==
  ASSUME IndexInv, NEW w \in Workers, UNCHANGED <<storeVars, queueVars>>,
         \A v \in Workers \ {w} :
           /\ wpc'[v] = wpc[v] /\ wjob'[v] = wjob[v] /\ wstatus'[v] = wstatus[v]
           /\ wevents'[v] = wevents[v] /\ wpass'[v] = wpass[v],
         wpc'[w] # "idle" => PassAgrees(w, wjob[w])' /\ wjob'[w] \in Requests
  PROVE  (RowsIntact /\ SealsSettled /\ PassesAgree /\ JobsAgree)'
<1>1. /\ UNCHANGED <<body, row, status, chainHash, events, indexedAt, sealedAt, completedAt>>
      /\ UNCHANGED <<job, failedReason>>
  BY DEF storeVars, tableVars, queueVars
<1>2. PassesAgree'
  BY <1>1, OtherPasses
<1> QED
  BY <1>1, <1>2 DEF IndexInv, RowsIntact, SealsSettled, JobsAgree, Worked

\* A pass reads what ingest wrote.
LEMMA ReadTraceIndexInv ==
  ASSUME IndexInv, NEW w \in Workers, ReadTrace(w)
  PROVE  (RowsIntact /\ SealsSettled /\ PassesAgree /\ JobsAgree)'
<1> DEFINE r == wjob[w]
<1>0. /\ TypeInv /\ PassAgrees(w, r) /\ r \in Requests /\ row[r] # "none"
      /\ SealsSettled
  BY JobHasRow DEF IndexInv, IngestInv, PassesAgree, ReadTrace
<1>1. status[r] \in {InitialStatus(body[r]), SettledStatus(body[r])}
  BY <1>0 DEF SealsSettled
<1>2. /\ UNCHANGED <<wjob, wevents, wpass, body, row, indexedAt, sealedAt>>
      /\ UNCHANGED <<storeVars, queueVars>>
      /\ wpc' = [wpc EXCEPT ![w] = "readEvents"]
      /\ wstatus' = [wstatus EXCEPT ![w] = status[r]]
  BY DEF ReadTrace, WorkerAt, storeVars, tableVars
<1>3. wpc'[w] = "readEvents" /\ wstatus'[w] = status[r]
  BY <1>0, <1>2, IndexShapes
<1>4. PassAgrees(w, wjob[w])'
  BY <1>0, <1>1, <1>2, <1>3 DEF PassAgrees
<1> QED
  BY <1>0, <1>2, <1>4, IndexShapes, QuietIndexInv

\* Whatever rows a worker reads verify: all of them, or none of a deleted trace.
LEMMA ReadEventsIndexInv ==
  ASSUME IndexInv, NEW w \in Workers, ReadEvents(w)
  PROVE  (RowsIntact /\ SealsSettled /\ PassesAgree /\ JobsAgree)'
<1> DEFINE r == wjob[w]
<1>0. /\ TypeInv /\ PassAgrees(w, r) /\ r \in Requests /\ row[r] # "none"
      /\ body[r] \in Envelopes /\ RowsIntact /\ wpc[w] = "readEvents"
  BY JobHasRow DEF IndexInv, IngestInv, PassesAgree, ReadEvents
<1>1. /\ row[r] = "live" => events[r] = EventRows(body[r])
      /\ row[r] # "live" => events[r] = {}
  BY <1>0, IndexShapes DEF RowsIntact
<1>2. ChainVerifies(BySequenceIndex(events[r]))
  <2>1. CASE row[r] = "live"
    BY <1>0, <1>1, <2>1, IngestedRowsVerify
  <2>2. CASE row[r] # "live"
    BY <1>1, <2>2, NoRowsVerify
  <2> QED
    BY <2>1, <2>2
<1>3. /\ UNCHANGED <<wjob, wstatus, wpass, body, row, indexedAt, sealedAt>>
      /\ UNCHANGED <<storeVars, queueVars>>
      /\ wpc' = [wpc EXCEPT ![w] = "project"]
      /\ wevents' = [wevents EXCEPT ![w] = events[r]]
  BY <1>2 DEF ReadEvents, WorkerAt, storeVars, tableVars
<1>4. wpc'[w] = "project" /\ wevents'[w] = events[r]
  BY <1>0, <1>3, IndexShapes
<1>5. PassAgrees(w, wjob[w])'
  BY <1>0, <1>1, <1>3, <1>4 DEF PassAgrees
<1> QED
  BY <1>0, <1>3, <1>5, IndexShapes, QuietIndexInv

\* A projection is of a row that is there.
LEMMA ProjectIndexInv ==
  ASSUME IndexInv, NEW w \in Workers, Project(w)
  PROVE  (RowsIntact /\ SealsSettled /\ PassesAgree /\ JobsAgree)'
<1> DEFINE r == wjob[w]
<1>0. /\ TypeInv /\ PassAgrees(w, r) /\ r \in Requests /\ row[r] # "none"
      /\ wpc[w] = "project" /\ RowsIntact /\ SealsSettled /\ JobsAgree
  BY JobHasRow DEF IndexInv, IngestInv, PassesAgree, Project
<1>1. CASE row[r] = "live"
  <2>1. /\ indexedAt' = [indexedAt EXCEPT ![r] = wpass[w]]
        /\ wpc' = [wpc EXCEPT ![w] = "seal"]
        /\ UNCHANGED <<wjob, wstatus, wevents, wpass, failedReason, job, body, row, status,
                       chainHash, events, sealedAt, completedAt>>
    BY <1>1 DEF Project, WorkerAt, queueVars
  <2>2. wpc'[w] = "seal" /\ indexedAt'[r] # 0
    BY <1>0, <2>1, IndexShapes DEF PassAgrees
  <2>3. \A q \in Requests : indexedAt'[q] = indexedAt[q] \/ (q = r /\ indexedAt'[q] # 0)
    BY <1>0, <2>1, <2>2, IndexShapes
  <2>4. PassAgrees(w, wjob[w])'
    BY <1>0, <1>1, <2>1, <2>2 DEF PassAgrees
  <2>5. PassesAgree'
    <3>1. \A v \in Workers \ {w} : wpc'[v] = wpc[v]
      BY <1>0, <2>1, IndexShapes
    <3> QED
      BY <1>0, <2>1, <2>3, <2>4, <3>1, OtherPasses
  <2>6. RowsIntact' /\ SealsSettled'
    BY <1>0, <2>1, <2>3 DEF RowsIntact, SealsSettled
  <2>7. JobsAgree'
    BY <1>0, <2>1, <2>3 DEF JobsAgree, Worked
  <2> QED
    BY <2>5, <2>6, <2>7
<1>2. CASE row[r] # "live"
  BY <1>0, <1>2, IndexShapes, ThrowIndexInv DEF Project
<1> QED
  BY <1>1, <1>2

\* A pass that reaches the seal read all the events, and resolves them to the
\* status that any other pass resolves them to.
LEMMA SealIndexInv ==
  ASSUME IndexInv, NEW w \in Workers, SealIfTerminal(w)
  PROVE  (RowsIntact /\ SealsSettled /\ PassesAgree /\ JobsAgree)'
<1> DEFINE r == wjob[w]
<1>0. /\ TypeInv /\ PassAgrees(w, r) /\ r \in Requests /\ row[r] # "none"
      /\ body[r] \in Envelopes /\ wpc[w] = "seal"
      /\ RowsIntact /\ SealsSettled /\ JobsAgree
  BY JobHasRow DEF IndexInv, IngestInv, PassesAgree, SealIfTerminal
<1>1. ResolvedStatus(w) = SettledStatus(body[r])
  BY <1>0, ResolveSettles DEF PassAgrees, ResolvedStatus
<1>2. FinalChainHash(w) = SealTrace(ContentHashes(body[r]))
  BY <1>0, IngestedRowsVerify DEF PassAgrees, FinalChainHash
<1>3. wpass[w] # 0 /\ indexedAt[r] # 0
  BY <1>0 DEF PassAgrees
<1>4. CASE ResolvedStatus(w) = "in_progress"
  <2>1. /\ UNCHANGED <<wjob, wstatus, wevents, wpass, body, row, indexedAt, sealedAt>>
        /\ UNCHANGED <<storeVars, queueVars>>
        /\ wpc' = [wpc EXCEPT ![w] = "finish"]
    BY <1>4 DEF SealIfTerminal, WorkerAt, storeVars, tableVars
  <2>2. PassAgrees(w, wjob[w])'
    BY <1>0, <1>1, <1>3, <1>4, <2>1, IndexShapes DEF PassAgrees, Worked
  <2> QED
    BY <1>0, <2>1, <2>2, IndexShapes, QuietIndexInv
<1>5. CASE ResolvedStatus(w) # "in_progress" /\ row[r] = "live"
  <2>1. /\ status' = [status EXCEPT ![r] = ResolvedStatus(w)]
        /\ chainHash' = [chainHash EXCEPT ![r] = FinalChainHash(w)]
        /\ sealedAt' = [sealedAt EXCEPT ![r] = wpass[w]]
        /\ completedAt' = [completedAt EXCEPT ![r] = CompletedAt(w)]
        /\ wpc' = [wpc EXCEPT ![w] = "finish"]
        /\ UNCHANGED <<wjob, wstatus, wevents, wpass, failedReason, job, body, row,
                       events, indexedAt>>
    BY <1>5 DEF SealIfTerminal, WorkerAt, queueVars
  <2>2. /\ wpc'[w] = "finish" /\ status'[r] = SettledStatus(body[r])
        /\ chainHash'[r] = SealTrace(ContentHashes(body[r]))
        /\ sealedAt'[r] = wpass[w] /\ completedAt'[r] = CompletedAt(w)
    BY <1>0, <1>1, <1>2, <2>1, IndexShapes
  <2>3. \A q \in Requests \ {r} :
          /\ status'[q] = status[q] /\ chainHash'[q] = chainHash[q]
          /\ sealedAt'[q] = sealedAt[q] /\ completedAt'[q] = completedAt[q]
    BY <1>0, <2>1, IndexShapes
  <2>4. CompletedAt(w) = (IF SettledStatus(body[r]) = "completed" THEN wpass[w] ELSE 0)
    <3>1. CASE sealedAt[r] = 0
      BY <1>0, <1>1, <3>1 DEF CompletedAt, SealsSettled
    <3>2. CASE sealedAt[r] # 0
      BY <1>0, <1>1, <3>2 DEF CompletedAt, SealsSettled
    <3> QED
      BY <3>1, <3>2
  <2>5. RowsIntact'
    BY <1>0, <1>5, <2>1, <2>2, <2>3 DEF RowsIntact
  <2>6. SealsSettled'
    <3> SUFFICES ASSUME NEW q \in Requests
                 PROVE  /\ row'[q] # "none" /\ sealedAt'[q] = 0
                           => status'[q] = InitialStatus(body'[q]) /\ completedAt'[q] = 0
                        /\ sealedAt'[q] # 0
                           => /\ status'[q] = SettledStatus(body'[q])
                              /\ status'[q] # "in_progress"
                              /\ indexedAt'[q] # 0
                              /\ completedAt'[q] =
                                   (IF status'[q] = "completed" THEN sealedAt'[q] ELSE 0)
      BY DEF SealsSettled
    <3>1. CASE q = r
      BY <1>1, <1>3, <1>5, <2>1, <2>2, <2>4, <3>1
    <3>2. CASE q # r
      BY <1>0, <2>1, <2>3, <3>2 DEF SealsSettled
    <3> QED
      BY <3>1, <3>2
  <2>7. \A q \in Requests : sealedAt[q] # 0 => sealedAt'[q] # 0
    BY <1>3, <2>2, <2>3
  <2>8. PassAgrees(w, wjob[w])'
    BY <1>0, <1>3, <2>1, <2>2 DEF PassAgrees, Worked
  <2>9. PassesAgree'
    <3>1. \A v \in Workers \ {w} : wpc'[v] = wpc[v]
      BY <1>0, <2>1, IndexShapes
    <3> QED
      BY <1>0, <2>1, <2>7, <2>8, <3>1, OtherPasses
  <2>10. JobsAgree'
    BY <1>0, <2>1, <2>7 DEF JobsAgree, Worked
  <2> QED
    BY <2>5, <2>6, <2>9, <2>10
<1>6. CASE ResolvedStatus(w) # "in_progress" /\ row[r] # "live"
  BY <1>0, <1>6, IndexShapes, ThrowIndexInv DEF SealIfTerminal
<1> QED
  BY <1>4, <1>5, <1>6

\* A worker that takes a job has read nothing yet.
LEMMA TakeJobIndexInv ==
  ASSUME IndexInv, NEW w \in Workers, NEW r \in Requests, TakeJob(w, r)
  PROVE  (RowsIntact /\ SealsSettled /\ PassesAgree /\ JobsAgree)'
<1>0. /\ TypeInv /\ RowsIntact /\ SealsSettled /\ JobsAgree
      /\ UNCHANGED <<body, row, status, chainHash, events, indexedAt, sealedAt, completedAt>>
      /\ UNCHANGED failedReason
  BY DEF IndexInv, IngestInv, TakeJob, tableVars
<1>1. RowsIntact' /\ SealsSettled'
  BY <1>0 DEF RowsIntact, SealsSettled
<1>2. JobsAgree'
  <2>1. \A q \in Requests : job'[q] = "completed" => job[q] = "completed"
    BY <1>0, IndexShapes DEF TakeJob
  <2> QED
    BY <1>0, <2>1 DEF JobsAgree, Worked
<1>3. PassesAgree'
  <2>1. wpc'[w] = "read" /\ wjob'[w] = r /\ wpass'[w] = passes[r] + 1
    BY <1>0, IndexShapes DEF TakeJob, WorkerAt
  <2>2. passes[r] \in Nat
    BY <1>0, IndexShapes
  <2>3. PassAgrees(w, wjob[w])'
    BY <2>1, <2>2 DEF PassAgrees
  <2>4. \A v \in Workers \ {w} :
          /\ wpc'[v] = wpc[v] /\ wjob'[v] = wjob[v] /\ wstatus'[v] = wstatus[v]
          /\ wevents'[v] = wevents[v] /\ wpass'[v] = wpass[v]
    BY <1>0, IndexShapes DEF TakeJob, WorkerAt
  <2> QED
    BY <1>0, <2>1, <2>3, <2>4, OtherPasses
<1> QED
  BY <1>1, <1>2, <1>3

\* A job ends as its pass did, or its worker dies.
LEMMA FinishIndexInv ==
  ASSUME IndexInv, NEW w \in Workers, Finish(w) \/ WorkerCrash(w)
  PROVE  (RowsIntact /\ SealsSettled /\ PassesAgree /\ JobsAgree)'
<1>0. /\ TypeInv /\ RowsIntact /\ SealsSettled /\ JobsAgree
      /\ UNCHANGED <<body, row, status, chainHash, events, indexedAt, sealedAt, completedAt>>
      /\ UNCHANGED failedReason
      /\ Idle(w)
  BY DEF IndexInv, IngestInv, Finish, WorkerCrash, storeVars, tableVars, queueVars
<1>1. RowsIntact' /\ SealsSettled'
  BY <1>0 DEF RowsIntact, SealsSettled
<1>2. JobsAgree'
  <2>1. \A q \in Requests : job'[q] = "completed" => job[q] = "completed" \/ Worked(q)
    <3>1. CASE Finish(w)
      <4>1. Worked(wjob[w])
        BY <3>1 DEF Finish, IndexInv, PassesAgree, PassAgrees
      <4> QED
        BY <1>0, <3>1, <4>1, IndexShapes DEF Finish
    <3>2. CASE WorkerCrash(w)
      BY <3>2 DEF WorkerCrash, storeVars
    <3> QED
      BY <3>1, <3>2
  <2> QED
    BY <1>0, <2>1 DEF JobsAgree, Worked
<1>3. PassesAgree'
  <2>1. wpc'[w] = "idle"
    BY <1>0, IndexShapes DEF Idle, WorkerAt
  <2>2. \A v \in Workers \ {w} :
          /\ wpc'[v] = wpc[v] /\ wjob'[v] = wjob[v] /\ wstatus'[v] = wstatus[v]
          /\ wevents'[v] = wevents[v] /\ wpass'[v] = wpass[v]
    BY <1>0, IndexShapes DEF Idle, WorkerAt
  <2> QED
    BY <1>0, <2>1, <2>2, OtherPasses
<1> QED
  BY <1>1, <1>2, <1>3

\* A lost lock changes no row.
LEMMA StallIndexInv ==
  ASSUME IndexInv, NEW r \in Requests, Stall(r)
  PROVE  (RowsIntact /\ SealsSettled /\ PassesAgree /\ JobsAgree)'
<1>0. /\ TypeInv /\ RowsIntact /\ SealsSettled /\ JobsAgree /\ PassesAgree
      /\ UNCHANGED <<body, row, status, chainHash, events, indexedAt, sealedAt, completedAt>>
      /\ UNCHANGED <<wpc, wjob, wstatus, wevents, wpass>>
  BY DEF IndexInv, IngestInv, Stall, tableVars, workerVars
<1>1. \A q \in Requests :
        /\ job'[q] = "completed" => job[q] = "completed"
        /\ failedReason'[q] = failedReason[q] \/ failedReason'[q] = "stalled"
  BY <1>0, IndexShapes DEF Stall
<1> QED
  BY <1>0, <1>1
  DEF RowsIntact, SealsSettled, JobsAgree, PassesAgree, PassAgrees, Worked

-----------------------------------------------------------------------------

\* Every step of the worker and of its queue keeps the invariant.
LEMMA IndexerIndexInv ==
  ASSUME IndexInv, IndexerNext
  PROVE  (RowsIntact /\ SealsSettled /\ PassesAgree /\ JobsAgree)'
<1> DEFINE Kept == (RowsIntact /\ SealsSettled /\ PassesAgree /\ JobsAgree)'
<1>1. ASSUME NEW w \in Workers, TraceMissing(w)
      PROVE  Kept
  <2>1. wpc[w] # "idle" /\ Throw(w, "missing") /\ row[wjob[w]] # "live"
    BY <1>1 DEF TraceMissing, Found
  <2>2. row[wjob[w]] = "deleted"
    BY <2>1, JobHasRow, IndexShapes DEF IndexInv, IngestInv
  <2> QED
    BY <2>1, <2>2, ThrowIndexInv
<1>2. ASSUME NEW w \in Workers, DatabaseFails(w)
      PROVE  Kept
  BY <1>2, ThrowIndexInv DEF DatabaseFails
<1>3. ASSUME NEW w \in Workers, Work(w) \/ DatabaseFails(w) \/ WorkerCrash(w)
      PROVE  Kept
  <2> HIDE DEF Kept
  <2>1. CASE ReadTrace(w) \/ ReadEvents(w) \/ Project(w) \/ SealIfTerminal(w)
    BY <2>1, ReadTraceIndexInv, ReadEventsIndexInv, ProjectIndexInv, SealIndexInv DEF Kept
  <2>2. CASE Finish(w) \/ WorkerCrash(w)
    BY <2>2, FinishIndexInv DEF Kept
  <2> QED
    BY <1>1, <1>2, <1>3, <2>1, <2>2 DEF Work
<1>4. ASSUME NEW w \in Workers, NEW r \in Requests, TakeJob(w, r)
      PROVE  Kept
  BY <1>4, TakeJobIndexInv
<1>5. ASSUME NEW r \in Requests, Stall(r)
      PROVE  Kept
  BY <1>5, StallIndexInv
<1> HIDE DEF Kept
<1>6. Kept
  BY <1>3, <1>4, <1>5 DEF IndexerNext
<1> QED
  BY <1>6 DEF Kept

\* Retention takes the events away with the row, and leaves the other columns.
LEMMA ExpireIndexInv ==
  ASSUME IndexInv, Expire, UNCHANGED indexerVars
  PROVE  (RowsIntact /\ SealsSettled /\ PassesAgree /\ JobsAgree)'
<1>1. PICK S \in SUBSET {r \in Requests : row[r] = "live" /\ pc[r] \notin Running} :
        DeleteTraces(S) /\ UNCHANGED apiVars
  BY DEF Expire
<1>2. /\ UNCHANGED <<body, status, chainHash, indexedAt, sealedAt, completedAt, job>>
      /\ UNCHANGED <<wpc, wjob, wstatus, wevents, wpass, failedReason>>
      /\ RowsIntact /\ SealsSettled /\ PassesAgree /\ JobsAgree
  BY <1>1 DEF DeleteTraces, indexerVars, workerVars, queueVars, IndexInv
<1>3. \A q \in Requests :
        \/ row'[q] = row[q] /\ events'[q] = events[q]
        \/ row[q] = "live" /\ row'[q] = "deleted" /\ events'[q] = {}
  BY <1>1 DEF DeleteTraces
<1>4. RowsIntact' /\ SealsSettled'
  BY <1>2, <1>3 DEF RowsIntact, SealsSettled
<1>5. PassesAgree'
  <2>1. \A w \in Workers : wpc[w] # "idle" => wjob[w] \in Requests
    BY JobHasRow DEF IndexInv
  <2> QED
    BY <1>2, <1>3, <2>1 DEF PassesAgree, PassAgrees, Worked
<1>6. JobsAgree'
  BY <1>2, <1>3 DEF JobsAgree, Worked
<1> QED
  BY <1>4, <1>5, <1>6

\* So does every step of the pipeline.
LEMMA IndexInvStep == IndexInv /\ [Next]_vars => IndexInv'
<1> SUFFICES ASSUME IndexInv, [Next]_vars
             PROVE  IndexInv'
  OBVIOUS
<1>1. IngestInv'
  BY IngestInvStep DEF IndexInv
<1>2. (RowsIntact /\ SealsSettled /\ PassesAgree /\ JobsAgree)'
  <2>1. CASE ApiNext /\ UNCHANGED indexerVars
    BY <2>1, ApiNextIsStep, ApiIndexInv
  <2>2. CASE IndexerNext /\ UNCHANGED apiVars
    BY <2>2, IndexerIndexInv
  <2>3. CASE Expire /\ UNCHANGED indexerVars
    BY <2>3, ExpireIndexInv
  <2>4. CASE UNCHANGED vars
    BY <2>4 DEF vars, storeVars, tableVars, indexerVars, queueVars, workerVars, IndexInv,
       RowsIntact, SealsSettled, PassesAgree, PassAgrees, JobsAgree, Worked
  <2> QED
    BY <2>1, <2>2, <2>3, <2>4 DEF Next
<1> QED
  BY <1>1, <1>2 DEF IndexInv

\* The inductive invariant of indexing holds in the whole pipeline.
THEOREM IndexInvariance == Spec => []IndexInv
BY IndexInvInit, IndexInvStep, PTL DEF Spec

-----------------------------------------------------------------------------
\* A sealed row was committed: what is not there has no seal.
LEMMA SealedWasCommitted ==
  ASSUME IndexInv, NEW r \in Requests, sealedAt[r] # 0
  PROVE  row[r] # "none"
BY DEF IndexInv, RowsIntact

\* A seal carries the hash of exactly the events that were ingested and the
\* status those events resolve to, whatever passes ran, overlapped or died.
THEOREM SealsBindContent == Spec => []SealBindsContent
<1>1. IndexInv => SealBindsContent
  BY SealedWasCommitted DEF IndexInv, RowsIntact, SealsSettled, SealBindsContent
<1> QED
  BY <1>1, IndexInvariance, PTL

\* The columns a seal writes agree, and a sealed trace is in the projection.
THEOREM SealColumnsAlwaysAgree == Spec => []SealColumnsAgree
<1>1. IndexInv => SealColumnsAgree
  BY DEF IndexInv, SealsSettled, SealColumnsAgree
<1> QED
  BY <1>1, IndexInvariance, PTL

\* No mismatch is reported for a trace as ingest stored it, in whatever order
\* the database returned its events.
THEOREM MismatchIsNeverFalse == Spec => []NoFalseMismatch
<1>1. IndexInv => NoFalseMismatch
  BY DEF IndexInv, JobsAgree, NoFalseMismatch
<1> QED
  BY <1>1, IndexInvariance, PTL

\* A job that BullMQ counts as completed projected its trace, and sealed it when
\* its events are terminal.
THEOREM CompletedJobsDidTheirWork == Spec => []CompletedJobDidItsWork
<1>1. IndexInv => CompletedJobDidItsWork
  BY DEF IndexInv, JobsAgree, Worked, CompletedJobDidItsWork
<1> QED
  BY <1>1, IndexInvariance, PTL

\* A job fails for want of its trace only when retention deleted the trace.
THEOREM MissingTracesWereDeleted == Spec => []MissingOnlyWhenDeleted
<1>1. IndexInv => MissingOnlyWhenDeleted
  BY DEF IndexInv, JobsAgree, MissingOnlyWhenDeleted
<1> QED
  BY <1>1, IndexInvariance, PTL

\* No step unseals a trace, or changes the hash or the status of a sealed one.
THEOREM SealsAreFinal == Spec => SealIsFinal
<1>1. ASSUME IndexInv, IndexInv', [Next]_vars, NEW r \in Requests, sealedAt[r] # 0
      PROVE  sealedAt'[r] # 0 /\ chainHash'[r] = chainHash[r] /\ status'[r] = status[r]
  <2>1. sealedAt'[r] # 0 /\ row'[r] # "none" /\ body'[r] = body[r]
    <3>t. TypeInv /\ row[r] # "none"
      BY <1>1, SealedWasCommitted DEF IndexInv, IngestInv
    <3>1. CASE ApiNext /\ UNCHANGED indexerVars
      BY <1>1, <3>1, <3>t, ApiNextIsStep, ApiTables DEF IndexInv
    <3>2. CASE IndexerNext /\ UNCHANGED apiVars
      <4>1. UNCHANGED <<body, row>>
        BY <3>2, <3>t, IndexerFrame
      <4>2. ASSUME NEW w \in Workers, wpc[w] = "seal"
            PROVE  wpass[w] # 0
        BY <1>1, <4>2 DEF IndexInv, PassesAgree, PassAgrees
      <4>3. sealedAt'[r] # 0
        BY <1>1, <3>2, <3>t, <4>2, IndexShapes
        DEF IndexerNext, Work, TakeJob, ReadTrace, TraceMissing, ReadEvents, Project,
            SealIfTerminal, DatabaseFails, Finish, WorkerCrash, Stall, Throw, storeVars, tableVars
      <4> QED
        BY <3>t, <4>1, <4>3
    <3>3. CASE Expire /\ UNCHANGED indexerVars
      BY <1>1, <3>3, <3>t DEF Expire, DeleteTraces
    <3>4. CASE UNCHANGED vars
      BY <1>1, <3>4, <3>t DEF vars, storeVars, tableVars
    <3> QED
      BY <1>1, <3>1, <3>2, <3>3, <3>4 DEF Next
  <2>2. /\ chainHash[r] = SealTrace(ContentHashes(body[r]))
        /\ status[r] = SettledStatus(body[r])
    BY <1>1, SealedWasCommitted DEF IndexInv, RowsIntact, SealsSettled
  <2>3. /\ chainHash'[r] = SealTrace(ContentHashes(body'[r]))
        /\ status'[r] = SettledStatus(body'[r])
    BY <1>1, <2>1 DEF IndexInv, RowsIntact, SealsSettled
  <2> QED
    BY <2>1, <2>2, <2>3
<1>2. IndexInv /\ IndexInv' /\ [Next]_vars =>
        [\A r \in Requests :
           sealedAt[r] # 0 =>
             sealedAt'[r] # 0 /\ chainHash'[r] = chainHash[r] /\ status'[r] = status[r]]_storeVars
  BY <1>1
<1> QED
  BY <1>2, IndexInvariance, PTL DEF Spec, SealIsFinal

=============================================================================
