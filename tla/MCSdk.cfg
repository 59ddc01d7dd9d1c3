\* With everything recorded, sent or given up, a client rests.
SPECIFICATION FairSdkSpec
CONSTANTS
  Traces = {t1, t2}
  Callers = {c1, c2}
  Background = Background
  NoCall = NoCall
  NoEnvelope = NoEnvelope
  t1 = t1
  t2 = t2
  MaxRevs <- MCMaxRevs
  MaxSpans = 1
  MaxAttempts = 2
  MaxBufferSize = 2
CHECK_DEADLOCK FALSE
INVARIANTS
  NothingLostQuietly
  FlushDelivers
  SendsInOrder
PROPERTIES
  BufferDrains
