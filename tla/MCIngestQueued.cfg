\* One delivery is enough: its publish fails, or its API task goes away.
SPECIFICATION IngestSpec
CONSTANTS
  Requests = {r1, r2}
  TraceIds = {t1, t2}
  EventIds = {e1, e2}
  Payloads = {small, big1, big2}
  LargePayloads = {big1, big2}
  Keys = {k1}
  NoKey = NoKey
  NoAck = NoAck
  NoEnvelope = NoEnvelope
  NoObject = NoObject
  Envelopes <- MCEnvelopes
  Posts <- MCPosts
  t1 = t1
  t2 = t2
  e1 = e1
  e2 = e2
  small = small
  big1 = big1
  big2 = big2
  k1 = k1
CHECK_DEADLOCK FALSE
INVARIANTS
  AckedTraceIsQueued
