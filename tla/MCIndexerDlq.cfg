\* One job, one worker: any failure contradicts the runbook.
SPECIFICATION IndexerSpec
CONSTANTS
  Requests = {r1}
  Workers = {w1}
  NoWorker = NoWorker
  NoJob = NoJob
  TraceIds = {t1}
  EventIds = {e1, e2, e3}
  Payloads = {small}
  LargePayloads = {}
  Keys = {k1}
  NoKey = NoKey
  NoAck = NoAck
  NoEnvelope = NoEnvelope
  NoObject = NoObject
  Envelopes <- MCEnvelopes
  t1 = t1
  e1 = e1
  e2 = e2
  e3 = e3
  small = small
CHECK_DEADLOCK FALSE
INVARIANTS
  FailedJobsReachDlq
