-------------------------------- MODULE Ingest --------------------------------
(***************************************************************************)
(* IngestService.acceptTrace, one step per await.  Requests run            *)
(* concurrently on any number of API tasks: the only thing they share is   *)
(* the store.  The publish of the index job and the puts to the bucket go  *)
(* on after the request that started them has been answered.               *)
(***************************************************************************)
EXTENDS TraceStore

CONSTANT Posts      \* the <<envelope, idempotency key>> pairs clients send

ASSUME PostsAssumption == Posts \subseteq (Envelopes \X (Keys \cup {NoKey}))

VARIABLES
  pc,          \* where the request stands in acceptTrace
  key,         \* its Idempotency-Key
  code, ack,   \* the HTTP answer: 0 while there is none
  puts,        \* indexes of the events whose put is under way
  publishing   \* rows whose fire-and-forget publish is under way

apiVars == <<pc, key, code, ack, puts, publishing>>

Running == {"lookup", "offload", "duplicate", "store", "respond"}

ApiInit ==
  /\ pc = [r \in Requests |-> "idle"]
  /\ key = [r \in Requests |-> NoKey]
  /\ code = [r \in Requests |-> 0]
  /\ ack = [r \in Requests |-> NoAck]
  /\ puts = [r \in Requests |-> {}]
  /\ publishing = {}

Goto(r, label) == pc' = [pc EXCEPT ![r] = label]

Answer(r, c, a) ==
  /\ Goto(r, "done")
  /\ code' = [code EXCEPT ![r] = c]
  /\ ack' = [ack EXCEPT ![r] = a]

Receive(r, post) ==
  /\ pc[r] = "idle"
  /\ body' = [body EXCEPT ![r] = post[1]]
  /\ key' = [key EXCEPT ![r] = post[2]]
  /\ Goto(r, "lookup")
  /\ UNCHANGED <<code, ack, puts, publishing, tableVars, idempotency, objects, job>>

-----------------------------------------------------------------------------
\* IdempotencyService.findCached, looked up before the body is validated.
Cached(r) == IF key[r] = NoKey THEN NoAck ELSE idempotency[key[r]]

ReplayCached(r) ==
  /\ pc[r] = "lookup"
  /\ Cached(r) # NoAck
  /\ Answer(r, 202, Cached(r))
  /\ UNCHANGED <<key, puts, publishing, storeVars>>

RejectInvalid(r) ==
  /\ pc[r] = "lookup"
  /\ Cached(r) = NoAck
  /\ ~ body[r].valid
  /\ Answer(r, 400, NoAck)
  /\ UNCHANGED <<key, puts, publishing, storeVars>>

\* Promise.all starts every put at once.
StartOffload(r) ==
  /\ pc[r] = "lookup"
  /\ Cached(r) = NoAck
  /\ body[r].valid
  /\ puts' = [puts EXCEPT ![r] = {i \in DOMAIN body[r].events : Offloaded(body[r].events[i])}]
  /\ Goto(r, "offload")
  /\ UNCHANGED <<key, code, ack, publishing, storeVars>>

\* The bucket once it has the object of event i.
ObjectPut(r, i) ==
  [objects EXCEPT ![ObjectKey(body[r], body[r].events[i])] = body[r].events[i].payload]

PutLands(r, i) ==
  /\ i \in puts[r]
  /\ puts' = [puts EXCEPT ![r] = @ \ {i}]
  /\ objects' = ObjectPut(r, i)
  /\ UNCHANGED <<pc, key, code, ack, publishing, body, tableVars, idempotency, job>>

\* The first rejected put answers 500; the others are not cancelled.  The bucket may have
\* stored the object although its answer never reached the API.
PutFails(r, i) ==
  /\ i \in puts[r]
  /\ puts' = [puts EXCEPT ![r] = @ \ {i}]
  /\ IF pc[r] = "offload" THEN Answer(r, 500, NoAck) ELSE UNCHANGED <<pc, code, ack>>
  /\ objects' \in {objects, ObjectPut(r, i)}
  /\ UNCHANGED <<key, publishing, body, tableVars, idempotency, job>>

-----------------------------------------------------------------------------
\* A plausible slip: Promise.all is not awaited.
OffloadStarted(r) == pc[r] = "offload"

OffloadDone(r) == pc[r] = "offload" /\ puts[r] = {}

AfterCommit(r) == IF key[r] = NoKey THEN "respond" ELSE "store"

CommitTrace(r) ==
  /\ OffloadDone(r)
  /\ ~ ViolatesUnique(body[r])
  /\ CreateFromIngest(r)
  /\ Goto(r, AfterCommit(r))
  /\ UNCHANGED <<key, code, ack, puts, publishing, body, idempotency, objects, job>>

\* A plausible slip: a refused insert is taken for an accepted one.
CommitRefusedAsAccepted(r) ==
  /\ OffloadDone(r)
  /\ ViolatesUnique(body[r])
  /\ Goto(r, AfterCommit(r))
  /\ UNCHANGED <<key, code, ack, puts, publishing, storeVars>>

\* P2002: the transaction is rolled back and the catch block takes over.
CommitRefused(r) ==
  /\ OffloadDone(r)
  /\ ViolatesUnique(body[r])
  /\ Goto(r, "duplicate")
  /\ UNCHANGED <<key, code, ack, puts, publishing, storeVars>>

\* A plausible slip: the publish sits in a finally block.
CommitFailsButPublishes(r) ==
  /\ OffloadDone(r)
  /\ Answer(r, 500, NoAck)
  /\ publishing' = publishing \cup {r}
  /\ UNCHANGED <<key, puts, storeVars>>

\* Any other database error is rethrown; the transaction may have committed
\* although its outcome never reached the API.
CommitFails(r) ==
  /\ OffloadDone(r)
  /\ Answer(r, 500, NoAck)
  /\ \/ UNCHANGED tableVars
     \/ ~ ViolatesUnique(body[r]) /\ CreateFromIngest(r)
  /\ UNCHANGED <<key, puts, publishing, body, idempotency, objects, job>>

\* A plausible slip: a taken key is answered 409 at once.
StoreKeyOrRefuse(r) ==
  /\ pc[r] = "store"
  /\ IF idempotency[key[r]] = NoAck
       THEN /\ idempotency' = [idempotency EXCEPT ![key[r]] = AckOf(r)]
            /\ Goto(r, "respond")
            /\ UNCHANGED <<code, ack>>
       ELSE /\ Answer(r, 409, NoAck)
            /\ UNCHANGED idempotency
  /\ UNCHANGED <<key, puts, publishing, body, tableVars, objects, job>>

\* IdempotencyService.store; a second row for the key is refused with P2002,
\* which the catch block takes for a duplicate event.
StoreKey(r) ==
  /\ pc[r] = "store"
  /\ IF idempotency[key[r]] = NoAck
       THEN /\ idempotency' = [idempotency EXCEPT ![key[r]] = AckOf(r)]
            /\ Goto(r, "respond")
       ELSE /\ Goto(r, "duplicate")
            /\ UNCHANGED idempotency
  /\ UNCHANGED <<key, code, ack, puts, publishing, body, tableVars, objects, job>>

StoreKeyFails(r) ==
  /\ pc[r] = "store"
  /\ Answer(r, 500, NoAck)
  /\ \/ UNCHANGED idempotency
     \/ /\ idempotency[key[r]] = NoAck
        /\ idempotency' = [idempotency EXCEPT ![key[r]] = AckOf(r)]
  /\ UNCHANGED <<key, puts, publishing, body, tableVars, objects, job>>

\* A plausible slip: the handler of a duplicate event_id returns the trace that
\* owns the event.
ExistingByEvent(r) ==
  {x \in Requests : row[x] = "live" /\
     \E i \in DOMAIN body[r].events :
       \E stored \in events[x] : stored.externalEventId = body[r].events[i].id}

\* The catch block looks the trace up by its external id.
Existing(r) == {x \in Requests : row[x] = "live" /\ body[x].trace = body[r].trace}

\* A plausible slip: the catch block forgets the case of no such trace.
AnswerDuplicateIfFound(r) ==
  /\ pc[r] = "duplicate"
  /\ \E x \in Existing(r) : Answer(r, 202, AckOf(x))
  /\ UNCHANGED <<key, puts, publishing, storeVars>>

AnswerDuplicate(r) ==
  /\ pc[r] = "duplicate"
  /\ \/ \E x \in Existing(r) : Answer(r, 202, AckOf(x))
     \/ Existing(r) = {} /\ Answer(r, 409, NoAck)
  /\ UNCHANGED <<key, puts, publishing, storeVars>>

\* findCached and the catch block's findUnique fail with the database.
LookupFails(r) ==
  /\ \/ pc[r] = "lookup" /\ key[r] # NoKey
     \/ pc[r] = "duplicate"
  /\ Answer(r, 500, NoAck)
  /\ UNCHANGED <<key, puts, publishing, storeVars>>

\* The publish is started and not awaited.
Respond(r) ==
  /\ pc[r] = "respond"
  /\ Answer(r, 202, AckOf(r))
  /\ publishing' = publishing \cup {r}
  /\ UNCHANGED <<key, puts, storeVars>>

PublishLands(r) ==
  /\ r \in publishing
  /\ publishing' = publishing \ {r}
  /\ AddJob(r)
  /\ UNCHANGED <<pc, key, code, ack, puts, body, tableVars, idempotency, objects>>

\* The rejection is caught and only counted.
PublishFails(r) ==
  /\ r \in publishing
  /\ publishing' = publishing \ {r}
  /\ UNCHANGED <<pc, key, code, ack, puts, storeVars>>

\* The API task goes away: no answer, and whatever it had under way is lost.
Crash(r) ==
  /\ pc[r] \in Running \/ puts[r] # {} \/ r \in publishing
  /\ pc' = [pc EXCEPT ![r] = IF @ \in Running THEN "crashed" ELSE @]
  /\ puts' = [puts EXCEPT ![r] = {}]
  /\ publishing' = publishing \ {r}
  /\ UNCHANGED <<key, code, ack, storeVars>>

ApiProgress(r) ==
  \/ ReplayCached(r) \/ RejectInvalid(r) \/ StartOffload(r)
  \/ \E i \in puts[r] : PutLands(r, i)
  \/ CommitTrace(r) \/ CommitRefused(r) \/ StoreKey(r)
  \/ AnswerDuplicate(r) \/ Respond(r) \/ PublishLands(r)

ApiFailure(r) ==
  \/ \E i \in puts[r] : PutFails(r, i)
  \/ CommitFails(r) \/ StoreKeyFails(r) \/ LookupFails(r) \/ PublishFails(r)
  \/ Crash(r)

ApiNext ==
  \E r \in Requests :
    \/ \E post \in Posts : Receive(r, post)
    \/ ApiProgress(r)
    \/ ApiFailure(r)

\* Retention deletes rows older than at least 30 days; the request that wrote
\* such a row is over.
Expire ==
  \E S \in SUBSET {r \in Requests : row[r] = "live" /\ pc[r] \notin Running} :
    /\ S # {}
    /\ DeleteTraces(S)
    /\ UNCHANGED apiVars

IngestInit == StoreInit /\ ApiInit

IngestNext == ApiNext \/ Expire

ingestVars == <<storeVars, apiVars>>

IngestSpec == IngestInit /\ [][IngestNext]_ingestVars

FairIngestSpec == IngestSpec /\ \A r \in Requests : WF_ingestVars(ApiProgress(r))

-----------------------------------------------------------------------------
IngestTypeOK ==
  /\ StoreTypeOK
  /\ pc \in [Requests -> Running \cup {"idle", "done", "crashed"}]
  /\ key \in [Requests -> Keys \cup {NoKey}]
  /\ code \in [Requests -> {0, 202, 400, 409, 500}]
  /\ ack \in [Requests -> Ack \cup {NoAck}]
  /\ puts \in [Requests -> SUBSET Nat]
  /\ publishing \subseteq Requests

\* A 202 names a trace that was committed, with the server time of the request
\* that committed it, whichever path produced the answer: the commit itself,
\* the idempotency table, or the P2002 handler of acceptTrace.
AckNamesCommittedTrace ==
  \A r \in Requests :
    /\ (code[r] = 202) <=> (ack[r] # NoAck)
    /\ ack[r] # NoAck =>
         /\ row[ack[r].receivedAt] # "none"
         /\ body[ack[r].receivedAt].trace = ack[r].trace

\* Two clients told that the same trace was accepted got the same ACK, unless
\* retention removed a row of that trace in between (docs/api/ingest.md:18,
\* "Replays return the original ACK").
OneAckPerTrace ==
  \A r, s \in Requests :
    /\ ack[r] # NoAck /\ ack[s] # NoAck
    /\ ack[r].trace = ack[s].trace
    => \/ ack[r] = ack[s]
       \/ "deleted" \in {row[ack[r].receivedAt], row[ack[s].receivedAt]}

\* The ACK a request gets is for the trace it posted; an ACK for another trace
\* takes an Idempotency-Key that was also sent with that other trace.
KeysWithTrace(k, t) == \E r \in Requests : key[r] = k /\ body[r] # NoEnvelope /\ body[r].trace = t

AckAnswersPost ==
  \A r \in Requests :
    ack[r] # NoAck =>
      \/ ack[r].trace = body[r].trace
      \/ key[r] # NoKey /\ KeysWithTrace(key[r], ack[r].trace)

\* What payload_ref resolves to is the payload the content hash of its event
\* was computed from; only a request that carries the same trace and event ids
\* with another payload can have replaced it.
ReplacedBy(e, i) ==
  \E s \in Requests :
    /\ body[s] # NoEnvelope
    /\ \E j \in DOMAIN body[s].events :
         /\ ObjectKey(body[s], body[s].events[j]) = ObjectKey(e, e.events[i])
         /\ objects[ObjectKey(e, e.events[i])] = body[s].events[j].payload
         /\ body[s].events[j].payload # e.events[i].payload

RefResolves(e, i) ==
  LET ref == EventRow(e, i).payloadRef
  IN  ref # NoRef => objects[ref] = e.events[i].payload \/ ReplacedBy(e, i)

PayloadRefsResolve ==
  \A r \in Requests :
    row[r] = "live" => \A i \in DOMAIN body[r].events : RefResolves(body[r], i)

\* A request that is told 400 or 409 left no trace row behind, not even when the
\* refusal came from the idempotency table after its own commit.
ClientErrorLeavesNoRow ==
  \A r \in Requests : code[r] \in {400, 409} => row[r] = "none"

\* A trace is queued at most for a row that was committed and acknowledged by
\* its own request: no index job without a trace, none for a 5xx.
JobOnlyForAcceptedRow ==
  \A r \in Requests :
    job[r] # "none" \/ r \in publishing => row[r] # "none" /\ ack[r] = AckOf(r)

\* Every request that is received is answered, unless its API task goes away.
RequestsEnd ==
  \A r \in Requests : pc[r] = "lookup" ~> pc[r] \in {"done", "crashed"}

\* docs/api/ingest.md:5: "returns `202 Accepted` when the trace is persisted and
\* queued for indexing".
AckedTraceIsQueued ==
  \A r \in Requests :
    /\ ack[r] # NoAck
    /\ row[ack[r].receivedAt] = "live"
    /\ pc[ack[r].receivedAt] \in {"done", "crashed"}
    /\ ack[r].receivedAt \notin publishing
    => job[ack[r].receivedAt] # "none"

\* docs/export-format.md:69: "auditors with storage access can resolve
\* `payload_ref` using the same keys as the ingest pipeline": the bucket holds
\* the payload the event's content hash commits to.
StoredPayloadMatchesHash ==
  \A r \in Requests :
    row[r] = "live" =>
      \A i \in DOMAIN body[r].events :
        LET ref == EventRow(body[r], i).payloadRef
        IN  ref # NoRef => objects[ref] = body[r].events[i].payload

=============================================================================
