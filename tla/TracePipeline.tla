----------------------------- MODULE TracePipeline -----------------------------
(***************************************************************************)
(* A trace from POST /v1/traces to its seal: the API and the worker over   *)
(* the one store, with retention deleting old traces under both.           *)
(***************************************************************************)
EXTENDS Ingest, Indexer

vars == <<storeVars, apiVars, indexerVars>>

Init == IngestInit /\ IndexerInit

Next ==
  \/ ApiNext /\ UNCHANGED indexerVars
  \/ IndexerNext /\ UNCHANGED apiVars
  \/ Expire /\ UNCHANGED indexerVars

Spec == Init /\ [][Next]_vars

\* API tasks and workers that run make progress, and BullMQ's stalled check
\* keeps running.  Nothing is assumed of clients, crashes or retention.
Fairness ==
  /\ \A r \in Requests : WF_vars(ApiProgress(r) /\ UNCHANGED indexerVars)
  /\ \A w \in Workers : WF_vars(Work(w) /\ UNCHANGED apiVars)
  /\ \A r \in Requests : WF_vars((\E w \in Workers : TakeJob(w, r)) /\ UNCHANGED apiVars)
  /\ \A r \in Requests : WF_vars(Stall(r) /\ HolderGone(r) /\ UNCHANGED apiVars)

FairSpec == Spec /\ Fairness

TypeOK == IngestTypeOK /\ IndexerTypeOK

-----------------------------------------------------------------------------
\* The pipeline implements AuditLog.  An entry is a traces row.
PhaseOf(r) ==
  CASE row[r] = "none" -> "absent"
    [] row[r] = "deleted" -> "expired"
    [] row[r] = "live" /\ sealedAt[r] # 0 -> "sealed"
    [] row[r] = "live" /\ sealedAt[r] = 0 /\ indexedAt[r] # 0 -> "indexed"
    [] row[r] = "live" /\ sealedAt[r] = 0 /\ indexedAt[r] = 0 -> "recorded"

NoDigest == <<"no digest">>

EnvelopeTrace(e) == e.trace
EnvelopeDigest(e) == SealTrace(ContentHashes(e))

Log == INSTANCE AuditLog WITH
  Entries   <- Requests,
  Contents  <- Envelopes,
  NoContent <- NoEnvelope,
  TraceOf   <- EnvelopeTrace,
  DigestOf  <- EnvelopeDigest,
  OutcomeOf <- SettledStatus,
  phase     <- [r \in Requests |-> PhaseOf(r)],
  content   <- [r \in Requests |-> IF row[r] = "none" THEN NoEnvelope ELSE body[r]],
  digest    <- [r \in Requests |-> IF row[r] = "none" THEN NoDigest ELSE chainHash[r]],
  outcome   <- [r \in Requests |-> IF sealedAt[r] = 0 THEN "open" ELSE status[r]],
  announced <- {ack[r].receivedAt : r \in {x \in Requests : ack[x] # NoAck}}

\* Racing deliveries, lost answers, crashes, redelivered and overlapping index
\* passes and retention together show nothing but the append-only log.
ImplementsAuditLog == Log!Spec

=============================================================================
