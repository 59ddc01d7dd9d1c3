------------------------------ MODULE TraceStore ------------------------------
(***************************************************************************)
(* What the API and the worker share: the Postgres tables traces, events   *)
(* and ingest_idempotency, the payload bucket, and the BullMQ queue        *)
(* `indexer`.  One organization; a request creates at most one traces row, *)
(* so the row, its uuid and its BullMQ jobId are named by the request.     *)
(***************************************************************************)
EXTENDS HashChain, FiniteSets

CONSTANTS
  Requests,       \* the deliveries of POST /v1/traces
  Envelopes,      \* the request bodies clients send
  Keys,           \* values of the Idempotency-Key header
  NoKey,          \* the header is absent
  NoAck,          \* no stored response
  NoEnvelope,
  NoObject,
  TraceIds, EventIds, Payloads,
  LargePayloads   \* the payloads of PAYLOAD_OFFLOAD_THRESHOLD_BYTES or more

Statuses == {"in_progress", "completed", "failed", "cancelled"}

EventTypes == {"prompt", "completion", "tool_call", "retrieval", "approval", "custom"}

Event == [id : EventIds, type : EventTypes, payload : Payloads]

\* `valid`: the body passes the JSON Schema and carries a permission snapshot,
\* and the API key is scoped to a project.
Envelope == [trace : TraceIds, status : Statuses \cup {"unset"},
             events : Seq(Event), valid : BOOLEAN]

ASSUME EnvelopesAssumption == Envelopes \subseteq Envelope
ASSUME LargePayloadsAssumption == LargePayloads \subseteq Payloads
ASSUME NoValuesAssumption ==
  /\ NoKey \notin Keys
  /\ NoEnvelope \notin Envelopes
  /\ NoObject \notin Payloads
  /\ NoAck \notin [trace : TraceIds, receivedAt : Requests]

VARIABLES
  body,           \* request -> the envelope it carries, and its row was made from
  row,            \* traces row: "none" | "live" | "deleted"
  status,         \* traces.status
  chainHash,      \* traces.chain_hash
  events,         \* the events rows of the trace, a set
  indexedAt, sealedAt, completedAt,   \* 0 is NULL, else the pass that wrote it
  idempotency,    \* ingest_idempotency: key -> response
  objects,        \* <<trace, event>> -> payload in the bucket
  job             \* state of the index job of the row in BullMQ

tableVars == <<row, status, chainHash, events, indexedAt, sealedAt, completedAt>>
storeVars == <<body, tableVars, idempotency, objects, job>>

-----------------------------------------------------------------------------
\* IngestTraceResponseDto.  received_at is the clock of the request that was
\* accepted, so it identifies that request.
Ack == [trace : TraceIds, receivedAt : Requests]

AckOf(r) == [trace |-> body[r].trace, receivedAt |-> r]

NoRef == <<>>

\* Object keys are built from the trace id and the event id alone.
ObjectKeys == TraceIds \X EventIds

ObjectKey(e, event) == <<e.trace, event.id>>

Offloaded(event) == event.payload \in LargePayloads

ContentHashes(e) == [i \in DOMAIN e.events |-> ContentHash(e.events[i])]

ChainHashes(e) == ComputeEventChain(ContentHashes(e))

\* The events rows acceptTrace prepares: the flattened events, numbered.
EventRow(e, i) ==
  [externalEventId |-> e.events[i].id,
   type            |-> e.events[i].type,
   sequenceIndex   |-> i - 1,
   contentHash     |-> ContentHashes(e)[i],
   chainHash       |-> ChainHashes(e)[i],
   payloadRef      |-> IF Offloaded(e.events[i]) THEN ObjectKey(e, e.events[i]) ELSE NoRef]

EventRows(e) == {EventRow(e, i) : i \in DOMAIN e.events}

\* A plausible slip: the rows stay in some order of the database's.
AsReturned(rows) ==
  [i \in {e.sequenceIndex + 1 : e \in rows} |->
     CHOOSE e \in rows :
       i = 1 + (CHOOSE n \in {x.sequenceIndex : x \in rows} :
                  n + e.sequenceIndex + 1 = Cardinality(rows))]

\* Array.prototype.sort by sequenceIndex of rows that the database returns in
\* any order.
BySequenceIndex(rows) ==
  [i \in {e.sequenceIndex + 1 : e \in rows} |->
     CHOOSE e \in rows : e.sequenceIndex + 1 = i]

InitialStatus(e) == IF e.status = "unset" THEN "in_progress" ELSE e.status

\* A plausible slip: no unique index on the trace id.
ViolatesUniqueEvent(e) ==
  \/ \E r \in Requests, i \in DOMAIN e.events :
       \E x \in events[r] : x.externalEventId = e.events[i].id
  \/ \E i, j \in DOMAIN e.events : i # j /\ e.events[i].id = e.events[j].id

\* unique (organization_id, external_trace_id) and (organization_id, external_event_id)
ViolatesUnique(e) ==
  \/ \E r \in Requests : row[r] = "live" /\ body[r].trace = e.trace
  \/ \E r \in Requests, i \in DOMAIN e.events :
       \E x \in events[r] : x.externalEventId = e.events[i].id
  \/ \E i, j \in DOMAIN e.events : i # j /\ e.events[i].id = e.events[j].id

\* TracesRepository.createFromIngest: trace, permission snapshot, spans and
\* events in one transaction.
CreateFromIngest(r) ==
  /\ row' = [row EXCEPT ![r] = "live"]
  /\ status' = [status EXCEPT ![r] = InitialStatus(body[r])]
  /\ chainHash' = [chainHash EXCEPT ![r] = SealTrace(ContentHashes(body[r]))]
  /\ events' = [events EXCEPT ![r] = EventRows(body[r])]
  /\ UNCHANGED <<indexedAt, sealedAt, completedAt>>

\* Queue.add with the row's id as jobId: ignored when BullMQ still holds that id.
AddJob(r) == job' = [job EXCEPT ![r] = IF @ = "none" THEN "waiting" ELSE @]

\* deleteMany of RetentionCompactionJob, with the ON DELETE CASCADE of the
\* schema.  Idempotency rows, bucket objects and jobs stay.
DeleteTraces(S) ==
  /\ row' = [r \in Requests |-> IF r \in S THEN "deleted" ELSE row[r]]
  /\ events' = [r \in Requests |-> IF r \in S THEN {} ELSE events[r]]
  /\ UNCHANGED <<body, status, chainHash, indexedAt, sealedAt, completedAt,
                 idempotency, objects, job>>

StoreInit ==
  /\ body = [r \in Requests |-> NoEnvelope]
  /\ row = [r \in Requests |-> "none"]
  /\ status = [r \in Requests |-> "in_progress"]
  /\ chainHash = [r \in Requests |-> GENESIS_HASH]
  /\ events = [r \in Requests |-> {}]
  /\ indexedAt = [r \in Requests |-> 0]
  /\ sealedAt = [r \in Requests |-> 0]
  /\ completedAt = [r \in Requests |-> 0]
  /\ idempotency = [k \in Keys |-> NoAck]
  /\ objects = [k \in ObjectKeys |-> NoObject]
  /\ job = [r \in Requests |-> "none"]

\* The hashes the store can hold.
Hashes == {GENESIS_HASH} \cup {SealTrace(ContentHashes(e)) : e \in Envelopes}

StoreTypeOK ==
  /\ body \in [Requests -> Envelopes \cup {NoEnvelope}]
  /\ row \in [Requests -> {"none", "live", "deleted"}]
  /\ status \in [Requests -> Statuses]
  /\ chainHash \in [Requests -> Hashes]
  /\ events \in [Requests -> {{}} \cup {EventRows(e) : e \in Envelopes}]
  /\ indexedAt \in [Requests -> Nat]
  /\ sealedAt \in [Requests -> Nat]
  /\ completedAt \in [Requests -> Nat]
  /\ idempotency \in [Keys -> Ack \cup {NoAck}]
  /\ objects \in [ObjectKeys -> Payloads \cup {NoObject}]
  /\ job \in [Requests -> {"none", "waiting", "active", "completed", "failed"}]

=============================================================================
