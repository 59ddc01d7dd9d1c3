\* Two jobs and two workers: a job can be in two hands while the other waits.
SPECIFICATION IndexerSpec
CONSTANTS
  Requests = {r1, r2}
  Workers = {w1, w2}
  NoWorker = NoWorker
  NoJob = NoJob
  TraceIds = {t1}
  EventIds = {e1, e2, e3}
  Payloads = {small}
  LargePayloads = {}
  Keys = {k1}
  NoKey = NoKey
  NoAck = NoAck
  NoEnvelope = NoEnvelope
  NoObject = NoObject
  Envelopes <- MCEnvelopes
  t1 = t1
  e1 = e1
  e2 = e2
  e3 = e3
  small = small
SYMMETRY Symmetry
CHECK_DEADLOCK FALSE
INVARIANTS
  SealBindsContent
  SealColumnsAgree
  NoFalseMismatch
  CompletedJobDidItsWork
  MissingOnlyWhenDeleted
PROPERTIES
  SealIsFinal
