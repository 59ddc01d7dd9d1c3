\* Two deliveries of one trace, one worker: its jobs are redelivered by stalls.
SPECIFICATION OutcomesSpec
CONSTANTS
  MaxExports = 2
  ListLimit = 1
  NoData = NoData
  Requests = {r1, r2}
  Workers = {w1}
  NoWorker = NoWorker
  NoJob = NoJob
  TraceIds = {t1}
  EventIds = {e1, e2}
  Payloads = {small, big}
  LargePayloads = {big}
  Keys = {k1}
  NoKey = NoKey
  NoAck = NoAck
  NoEnvelope = NoEnvelope
  NoObject = NoObject
  Envelopes <- MCEnvelopes
  Posts <- MCPosts
  t1 = t1
  e1 = e1
  e2 = e2
  small = small
  big = big
  k1 = k1
CHECK_DEADLOCK FALSE
INVARIANTS
  PollingIsKept
PROPERTIES
  ShownCatchesUp
  ImplementsAuditLog
  RequestsEnd
  JobsSettle
