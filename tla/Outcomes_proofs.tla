---------------------------- MODULE Outcomes_proofs ----------------------------
(***************************************************************************)
(* The pipeline implements AuditLog: every step of the API, of a worker,   *)
(* of BullMQ and of retention is a step of the log or changes nothing that *)
(* the log shows.  And the page of exports polls until what it lists is    *)
(* final.                                                                  *)
(***************************************************************************)
EXTENDS Outcomes, Indexer_proofs

\* What the log shows of a row.
ContentOf(r) == IF row[r] = "none" THEN NoEnvelope ELSE body[r]
DigestShown(r) == IF row[r] = "none" THEN NoDigest ELSE chainHash[r]
OutcomeShown(r) == IF sealedAt[r] = 0 THEN "open" ELSE status[r]
Announced == {ack[r].receivedAt : r \in {x \in Requests : ack[x] # NoAck}}

\* The log is empty at first.
LEMMA LogInit == Init => Log!Init
<1> SUFFICES ASSUME Init PROVE Log!Init
  OBVIOUS
<1>1. \A r \in Requests : row[r] = "none" /\ sealedAt[r] = 0 /\ ack[r] = NoAck
  BY DEF Init, IngestInit, StoreInit, ApiInit
<1>2. \A r \in Requests : PhaseOf(r) = "absent"
  BY <1>1 DEF PhaseOf
<1> QED
  BY <1>1, <1>2 DEF Log!Init

\* The log shows the same of a row before and after a step.
SameShown(q) ==
  /\ PhaseOf(q)' = PhaseOf(q)
  /\ ContentOf(q)' = ContentOf(q)
  /\ DigestShown(q)' = DigestShown(q)
  /\ OutcomeShown(q)' = OutcomeShown(q)

\* A step that shows the same of every row is a stutter of the log.
LEMMA LogStutter ==
  ASSUME \A q \in Requests : SameShown(q), Announced' = Announced
  PROVE  UNCHANGED Log!vars
BY DEF Log!vars, SameShown, ContentOf, DigestShown, OutcomeShown, Announced

\* The hash and the status of a row follow from its envelope and its seal, so
\* the log sees the same when these are the same.
LEMMA SameRowSameShown ==
  ASSUME IndexInv, IndexInv', NEW q \in Requests,
         row'[q] = row[q],
         row[q] # "none" => body'[q] = body[q],
         sealedAt'[q] = 0 <=> sealedAt[q] = 0,
         indexedAt'[q] = 0 <=> indexedAt[q] = 0
  PROVE  SameShown(q)
<1>1. row[q] # "none" => chainHash'[q] = chainHash[q]
  BY DEF IndexInv, RowsIntact
<1>2. sealedAt[q] # 0 => row[q] # "none" /\ status'[q] = status[q]
  BY SealedWasCommitted DEF IndexInv, SealsSettled
<1>3. PhaseOf(q)' = PhaseOf(q)
  BY DEF PhaseOf
<1>4. ContentOf(q)' = ContentOf(q)
  BY DEF ContentOf
<1>5. DigestShown(q)' = DigestShown(q)
  BY <1>1 DEF DigestShown, NoDigest
<1>6. OutcomeShown(q)' = OutcomeShown(q)
  BY <1>2 DEF OutcomeShown
<1> QED
  BY <1>3, <1>4, <1>5, <1>6 DEF SameShown

-----------------------------------------------------------------------------
\* An answer that hands out an acknowledgement changes nothing in the store.
LEMMA AnswersOnlyAnnounce ==
  ASSUME IndexInv, NEW r \in Requests, ApiStep(r), ack'[r] # ack[r]
  PROVE  ack[r] = NoAck /\ UNCHANGED storeVars
<1>1. TypeInv /\ StagesAgree
  BY DEF IndexInv, IngestInv
<1>2. ReplayCached(r) \/ AnswerDuplicate(r) \/ Respond(r)
  <2> USE <1>1, ApiShapes
  <2>1. pc[r] # "done" => ack[r] = NoAck
    BY DEF StagesAgree
  <2>2. RejectInvalid(r) \/ CommitFails(r) \/ StoreKeyFails(r) \/ LookupFails(r)
        => pc[r] # "done" /\ ack'[r] = NoAck
    BY DEF RejectInvalid, CommitFails, OffloadDone, StoreKeyFails, LookupFails, Answer
  <2>3. (\E i \in puts[r] : PutFails(r, i)) => ack'[r] = ack[r]
    BY <2>1 DEF PutFails, Answer
  <2> QED
    BY <2>1, <2>2, <2>3
    DEF ApiStep, Receive, StartOffload, PutLands, CommitTrace, CommitRefused, StoreKey,
        PublishLands, PublishFails, Crash
<1> QED
  BY <1>1, <1>2 DEF ReplayCached, AnswerDuplicate, Respond, StagesAgree

\* A step of acceptTrace is Record, Announce or a stutter.
LEMMA ApiRefines ==
  ASSUME IndexInv, IndexInv', NEW r \in Requests, ApiStep(r)
  PROVE  [Log!Next]_(Log!vars)
<1>0. IngestInv /\ IngestInv' /\ RowsIntact /\ TypeInv /\ TypeInv'
  BY DEF IndexInv, IngestInv
<1>1. CASE ack'[r] # ack[r]
  <2>1. ack[r] = NoAck /\ UNCHANGED storeVars
    BY <1>1, AnswersOnlyAnnounce
  <2>2. \A q \in Requests : SameShown(q)
    BY <2>1, SameRowSameShown DEF storeVars, tableVars
  <2>3. ack'[r] # NoAck /\ \A q \in Requests \ {r} : ack'[q] = ack[q]
    BY <1>0, <1>1, <2>1, ApiFrame
  <2>4. PICK x \in Requests : x = ack'[r].receivedAt /\ row'[x] # "none"
    BY <1>0, <2>3 DEF IngestInv, AcksCommitted, CommitAck, Committed
  <2>5. Announced' = Announced \cup {x}
    BY <2>1, <2>3, <2>4 DEF Announced
  <2>6. PhaseOf(x) # "absent"
    <3>1. row[x] # "none" /\ row[x] \in {"live", "deleted"}
      BY <1>0, <2>1, <2>4, IndexShapes DEF storeVars, tableVars
    <3> QED
      BY <3>1 DEF PhaseOf
  <2>7. Log!Announce(x)
    BY <2>2, <2>5, <2>6
    DEF Log!Announce, SameShown, ContentOf, DigestShown, OutcomeShown, Announced
  <2> QED
    BY <2>7 DEF Log!Next
<1>2. CASE ack'[r] = ack[r]
  <2>1. Announced' = Announced
    <3>1. \A q \in Requests : ack'[q] = ack[q]
      BY <1>0, <1>2, ApiFrame
    <3> QED
      BY <3>1 DEF Announced
  <2>2. ASSUME NEW q \in Requests, row'[q] = row[q]
        PROVE  SameShown(q)
    BY <1>0, <2>2, ApiTables, SameRowSameShown
  <2>3. \A q \in Requests \ {r} : row'[q] = row[q]
    BY <1>0, ApiFrame
  <2>4. CASE row'[r] = row[r]
    BY <2>1, <2>2, <2>3, <2>4, LogStutter
  <2>5. CASE row'[r] # row[r]
    <3>1. /\ row[r] = "none" /\ row'[r] = "live"
          /\ chainHash'[r] = SealTrace(ContentHashes(body'[r]))
          /\ indexedAt'[r] = 0 /\ sealedAt'[r] = 0 /\ sealedAt[r] = 0
      BY <1>0, <2>5, ApiTables DEF RowsIntact
    <3>2. PICK c \in Envelopes : c = body'[r]
      BY <1>0, <3>1 DEF TypeInv, BodyReceived
    <3>3. /\ PhaseOf(r) = "absent" /\ PhaseOf(r)' = "recorded"
          /\ ContentOf(r)' = c
          /\ DigestShown(r)' = EnvelopeDigest(c)
          /\ OutcomeShown(r)' = OutcomeShown(r)
      BY <3>1, <3>2 DEF PhaseOf, ContentOf, DigestShown, OutcomeShown, EnvelopeDigest
    <3>4. \A q \in Requests \ {r} : SameShown(q)
      BY <2>2, <2>3
    <3>5. ASSUME NEW j \in Requests, PhaseOf(j) \in {"recorded", "indexed", "sealed"}
          PROVE  EnvelopeTrace(ContentOf(j)) # EnvelopeTrace(c)
      <4>1. row[j] \in {"none", "live", "deleted"}
        BY <1>0, IndexShapes
      <4>2. row[j] = "live"
        BY <3>5, <4>1 DEF PhaseOf
      <4>3. j # r /\ row'[j] = "live" /\ body'[j] = body[j]
        BY <1>0, <3>1, <4>2, CommittedStays
      <4>4. body'[j].trace # body'[r].trace
        BY <1>0, <3>1, <4>3 DEF IngestInv, LiveTracesDiffer
      <4> QED
        BY <3>2, <4>2, <4>3, <4>4 DEF ContentOf, EnvelopeTrace
    <3>6. Log!Record(r, c)
      BY <2>1, <3>3, <3>4, <3>5
      DEF Log!Record, Log!Live, SameShown, ContentOf, DigestShown, OutcomeShown, Announced
    <3> QED
      BY <3>6 DEF Log!Next
  <2> QED
    BY <2>4, <2>5
<1> QED
  BY <1>1, <1>2

-----------------------------------------------------------------------------
\* Of the steps of a pass the log sees two: the first projection of a row, and
\* its first seal.
LEMMA ProjectRefines ==
  ASSUME IndexInv, IndexInv', NEW w \in Workers, Project(w), UNCHANGED apiVars
  PROVE  [Log!Next]_(Log!vars)
<1>1. /\ TypeInv /\ wpass[w] # 0 /\ RowsIntact /\ SealsSettled
      /\ Announced' = Announced
  BY DEF IndexInv, IngestInv, PassesAgree, PassAgrees, Project, Announced, apiVars
<1>2. PICK r \in Requests : r = wjob[w]
  BY JobHasRow DEF IndexInv, Project
<1>3. CASE row[r] # "live"
  <2>1. \A q \in Requests : SameShown(q)
    BY <1>2, <1>3, SameRowSameShown DEF Project, Throw, tableVars
  <2> QED
    BY <1>1, <2>1, LogStutter
<1>4. CASE row[r] = "live"
  <2>1. /\ UNCHANGED <<body, row, sealedAt>>
        /\ indexedAt'[r] # 0
        /\ \A q \in Requests \ {r} : indexedAt'[q] = indexedAt[q]
    BY <1>1, <1>2, <1>4, IndexShapes DEF Project
  <2>2. \A q \in Requests \ {r} : SameShown(q)
    BY <2>1, SameRowSameShown
  <2>3. CASE indexedAt[r] # 0
    <3>1. SameShown(r)
      BY <2>1, <2>3, SameRowSameShown
    <3> QED
      BY <1>1, <2>2, <3>1, LogStutter
  <2>4. CASE indexedAt[r] = 0
    <3>1. sealedAt[r] = 0 /\ chainHash'[r] = chainHash[r]
      BY <1>1, <1>2, <1>4, <2>4 DEF SealsSettled, Project
    <3>2. /\ PhaseOf(r) = "recorded" /\ PhaseOf(r)' = "indexed"
          /\ ContentOf(r)' = ContentOf(r)
          /\ DigestShown(r)' = DigestShown(r)
          /\ OutcomeShown(r)' = OutcomeShown(r)
      BY <1>4, <2>1, <2>4, <3>1 DEF PhaseOf, ContentOf, DigestShown, OutcomeShown, NoDigest
    <3>3. Log!Index(r)
      BY <1>1, <2>2, <3>2
      DEF Log!Index, SameShown, ContentOf, DigestShown, OutcomeShown, Announced
    <3> QED
      BY <3>3 DEF Log!Next
  <2> QED
    BY <2>3, <2>4
<1> QED
  BY <1>3, <1>4

\* The first seal of a row is Seal, a later one a stutter.
LEMMA SealRefines ==
  ASSUME IndexInv, IndexInv', NEW w \in Workers, SealIfTerminal(w), UNCHANGED apiVars
  PROVE  [Log!Next]_(Log!vars)
<1>1. /\ TypeInv /\ wpass[w] # 0 /\ SealsSettled /\ SealsSettled'
      /\ Announced' = Announced
  BY DEF IndexInv, IngestInv, PassesAgree, PassAgrees, SealIfTerminal, Announced, apiVars
<1>2. PICK r \in Requests : r = wjob[w] /\ indexedAt[r] # 0
  BY JobHasRow DEF IndexInv, SealIfTerminal, PassesAgree, PassAgrees
<1>3. CASE row[r] # "live" \/ ResolvedStatus(w) = "in_progress"
  <2>1. UNCHANGED <<body, row, sealedAt, indexedAt>>
    BY <1>2, <1>3 DEF SealIfTerminal, Throw, storeVars, tableVars
  <2>2. \A q \in Requests : SameShown(q)
    BY <2>1, SameRowSameShown
  <2> QED
    BY <1>1, <2>2, LogStutter
<1>4. CASE row[r] = "live" /\ ResolvedStatus(w) # "in_progress"
  <2>1. /\ UNCHANGED <<body, row, indexedAt>>
        /\ sealedAt'[r] # 0
        /\ \A q \in Requests \ {r} : sealedAt'[q] = sealedAt[q]
    BY <1>1, <1>2, <1>4, IndexShapes DEF SealIfTerminal
  <2>2. \A q \in Requests \ {r} : SameShown(q)
    BY <2>1, SameRowSameShown
  <2>3. CASE sealedAt[r] # 0
    <3>1. SameShown(r)
      BY <2>1, <2>3, SameRowSameShown
    <3> QED
      BY <1>1, <2>2, <3>1, LogStutter
  <2>4. CASE sealedAt[r] = 0
    <3>1. status'[r] = SettledStatus(body[r]) /\ status'[r] # "in_progress"
      BY <1>1, <2>1 DEF SealsSettled
    <3>2. chainHash'[r] = chainHash[r]
      BY <1>4, <2>1 DEF IndexInv, RowsIntact
    <3>3. /\ PhaseOf(r) = "indexed" /\ PhaseOf(r)' = "sealed"
          /\ ContentOf(r)' = ContentOf(r) /\ ContentOf(r) = body[r]
          /\ DigestShown(r)' = DigestShown(r)
          /\ OutcomeShown(r)' = SettledStatus(body[r])
      BY <1>2, <1>4, <2>1, <2>4, <3>1, <3>2
      DEF PhaseOf, ContentOf, DigestShown, OutcomeShown, NoDigest
    <3>4. Log!Seal(r)
      BY <1>1, <2>2, <3>1, <3>3
      DEF Log!Seal, SameShown, ContentOf, DigestShown, OutcomeShown, Announced
    <3> QED
      BY <3>4 DEF Log!Next
  <2> QED
    BY <2>3, <2>4
<1> QED
  BY <1>3, <1>4

\* A step of the worker or its queue is Index, Seal or a stutter.
LEMMA IndexerRefines ==
  ASSUME IndexInv, IndexInv', IndexerNext, UNCHANGED apiVars
  PROVE  [Log!Next]_(Log!vars)
<1>1. Announced' = Announced
  BY DEF Announced, apiVars
<1>2. ASSUME NEW w \in Workers, Project(w) \/ SealIfTerminal(w)
      PROVE  [Log!Next]_(Log!vars)
  BY <1>2, ProjectRefines, SealRefines
<1>3. ASSUME \A w \in Workers : ~ (Project(w) \/ SealIfTerminal(w))
      PROVE  [Log!Next]_(Log!vars)
  <2>1. UNCHANGED <<body, row, sealedAt, indexedAt>>
    BY <1>3 DEF IndexerNext, Work, TakeJob, ReadTrace, TraceMissing, ReadEvents,
       DatabaseFails, Finish, WorkerCrash, Stall, Throw, storeVars, tableVars
  <2>2. \A q \in Requests : SameShown(q)
    BY <2>1, SameRowSameShown
  <2> QED
    BY <1>1, <2>2, LogStutter
<1> QED
  BY <1>2, <1>3

\* Retention is Expire.
LEMMA ExpireRefines ==
  ASSUME IndexInv, IndexInv', Expire
  PROVE  [Log!Next]_(Log!vars)
<1>1. PICK S \in SUBSET {r \in Requests : row[r] = "live" /\ pc[r] \notin Running} :
        DeleteTraces(S) /\ UNCHANGED apiVars
  BY DEF Expire
<1>2. /\ UNCHANGED <<body, status, chainHash, indexedAt, sealedAt, ack>>
      /\ Announced' = Announced
  BY <1>1 DEF DeleteTraces, apiVars, Announced
<1>3. \A q \in S : q \in Requests /\ row[q] = "live" /\ row'[q] = "deleted"
  BY <1>1 DEF DeleteTraces
<1>4. \A q \in Requests \ S : row'[q] = row[q]
  BY <1>1 DEF DeleteTraces
<1>5. \A q \in S : PhaseOf(q) \in {"recorded", "indexed", "sealed"} /\ PhaseOf(q)' = "expired"
  BY <1>3 DEF PhaseOf
<1>6. \A q \in Requests \ S : PhaseOf(q)' = PhaseOf(q)
  BY <1>2, <1>4 DEF PhaseOf
<1>7. \A q \in Requests : /\ ContentOf(q)' = ContentOf(q)
                          /\ DigestShown(q)' = DigestShown(q)
                          /\ OutcomeShown(q)' = OutcomeShown(q)
  BY <1>2, <1>3, <1>4 DEF ContentOf, DigestShown, OutcomeShown, NoDigest
<1>8. Log!Expire(S)
  BY <1>1, <1>2, <1>5, <1>6, <1>7
  DEF Log!Expire, Log!Live, ContentOf, DigestShown, OutcomeShown, Announced
<1> QED
  BY <1>8 DEF Log!Next

\* Every step of the pipeline is a step of the log or a stutter.
LEMMA StepRefines == IndexInv /\ IndexInv' /\ [Next]_vars => [Log!Next]_(Log!vars)
<1> SUFFICES ASSUME IndexInv, IndexInv', [Next]_vars
             PROVE  [Log!Next]_(Log!vars)
  OBVIOUS
<1>1. CASE ApiNext /\ UNCHANGED indexerVars
  BY <1>1, ApiNextIsStep, ApiRefines
<1>2. CASE IndexerNext /\ UNCHANGED apiVars
  BY <1>2, IndexerRefines
<1>3. CASE Expire /\ UNCHANGED indexerVars
  BY <1>3, ExpireRefines
<1>4. CASE UNCHANGED vars
  <2>1. /\ \A q \in Requests : SameShown(q)
        /\ Announced' = Announced
    BY <1>4, SameRowSameShown DEF vars, storeVars, tableVars, apiVars, Announced
  <2> QED
    BY <2>1, LogStutter
<1> QED
  BY <1>1, <1>2, <1>3, <1>4 DEF Next

\* Whatever deliveries race, fail or are lost, whatever passes overlap or die and
\* whatever retention deletes, the pipeline shows nothing but the append-only log.
THEOREM PipelineImplementsAuditLog == Spec => ImplementsAuditLog
BY LogInit, StepRefines, IndexInvariance, PTL DEF Spec, ImplementsAuditLog, Log!Spec

-----------------------------------------------------------------------------
\* The page of exports.

\* An answer lists e, or is full of newer exports.
Covers(d, e) ==
  e \in DOMAIN d \/ (Cardinality(DOMAIN d) = ListLimit /\ \A x \in DOMAIN d : x > e)

\* The rows are those up to the newest.
RowsUpTo(k) == \A e \in Exports : exportStatus[e] # "none" <=> e <= k

ConsoleTypeOK ==
  /\ exportStatus \in [Exports -> {"none", "pending", "processing", "completed", "failed"}]
  /\ page \in {"exports", "detail"} /\ stale \in BOOLEAN /\ fetchFailed \in BOOLEAN
  /\ missed \in BOOLEAN
  /\ data \in Listings \cup {NoData}
  /\ fetch \in [pc : {"none", "sent", "read"}, answer : Listings \cup {NoData},
                retried : BOOLEAN, overtaken : BOOLEAN]
  /\ fetch.pc = "read" => fetch.answer \in Listings

\* A request that was answered had made its row.
RowsOK ==
  /\ \E k \in 0..MaxExports : RowsUpTo(k)
  /\ \A e \in posts \cup told : e \in Exports /\ exportStatus[e] # "none"

\* What has been read covers what the user was told of, unless the read was overtaken; so
\* do the data, or else they are marked, and fetched again on the open page.
CoverageOK ==
  /\ polling = (page = "exports" /\ RefetchInterval(data))
  /\ fetch.pc = "read" /\ ~fetch.overtaken => \A e \in told : Covers(fetch.answer, e)
  /\ data # NoData /\ ~missed /\ ~fetchFailed =>
       \/ \A e \in told : Covers(data, e)
       \/ stale /\ (page = "exports" => fetch.pc # "none")

ConsoleInv == ConsoleTypeOK /\ RowsOK /\ CoverageOK

\* The rows are made in order, so an answer has the newest up to its limit.
LEMMA NewestCovers ==
  ASSUME ConsoleTypeOK, RowsOK, NEW a, a = [x \in Newest |-> exportStatus[x]]
  PROVE  a \in Listings /\ \A e \in told : Covers(a, e)
<1> DEFINE Made == {x \in Exports : exportStatus[x] # "none"}
<1>1. PICK k \in 0..MaxExports : RowsUpTo(k)
  BY DEF RowsOK
<1>2. MaxExports \in Nat /\ ListLimit \in Nat \ {0} /\ k \in Nat /\ k <= MaxExports
  BY ConsoleExportsAssumption
<1>3. Made = 1..k
  BY <1>1, <1>2 DEF RowsUpTo, Exports
<1>4. ASSUME NEW x \in 1..k PROVE Cardinality({f \in Made : f > x}) = k - x
  <2>1. {f \in Made : f > x} = (x + 1)..k
    BY <1>2, <1>3
  <2>2. x + 1 \in Int /\ k \in Int /\ k - (x + 1) + 1 = k - x /\ (x + 1 > k => k - x = 0)
    BY <1>2
  <2>3. Cardinality((x + 1)..k) = IF x + 1 > k THEN 0 ELSE k - (x + 1) + 1
    BY <2>2, FS_Interval
  <2> QED
    BY <2>1, <2>2, <2>3
<1>5. Newest = {x \in 1..k : k - x < ListLimit}
  <2>1. Newest = {x \in Made : Cardinality({f \in Made : f > x}) < ListLimit}
    BY DEF Newest
  <2> QED
    BY <1>3, <1>4, <2>1
<1>6. Newest \subseteq Exports /\ \A x \in Newest : exportStatus[x] # "none"
  BY DEF Newest
<1>7. a \in Listings
  <2>1. a \in [Newest -> {"pending", "processing", "completed", "failed"}]
    BY <1>6 DEF ConsoleTypeOK
  <2> QED
    BY <1>6, <2>1 DEF Listings
<1>8. ASSUME NEW e \in told PROVE Covers(a, e)
  <2>1. e \in 1..k
    BY <1>3 DEF RowsOK
  <2>2. CASE k - e < ListLimit
    BY <1>5, <2>1, <2>2 DEF Covers
  <2>3. CASE ~(k - e < ListLimit)
    <3>1. Newest = (k - ListLimit + 1)..k
      BY <1>2, <1>5, <2>1, <2>3
    <3>2. /\ k - ListLimit + 1 \in Int /\ k \in Int /\ ~(k - ListLimit + 1 > k)
          /\ k - (k - ListLimit + 1) + 1 = ListLimit
      BY <1>2
    <3>3. Cardinality(Newest) = ListLimit
      BY <3>1, <3>2, FS_Interval
    <3>4. \A x \in Newest : x > e
      BY <1>2, <2>1, <2>3, <3>1
    <3> QED
      BY <3>3, <3>4 DEF Covers
  <2> QED
    BY <2>2, <2>3
<1> QED
  BY <1>7, <1>8

\* The rows of a request, of another client and of the worker are made in order.
LEMMA RowsMade ==
  ASSUME ConsoleTypeOK, RowsOK, NEW e \in Exports,
         \/ NextRow(e) /\ Rows!Requested(e)
         \/ Rows!Claimed(e)
         \/ Rows!Settled(e)
  PROVE  /\ exportStatus' \in
              [Exports -> {"none", "pending", "processing", "completed", "failed"}]
         /\ \E k \in 0..MaxExports : RowsUpTo(k)'
         /\ exportStatus'[e] # "none"
         /\ \A x \in Exports : exportStatus[x] # "none" => exportStatus'[x] # "none"
<1>1. PICK k \in 0..MaxExports : RowsUpTo(k)
  BY DEF RowsOK
<1>2. MaxExports \in Nat /\ e \in Nat /\ e <= MaxExports
  BY ConsoleExportsAssumption DEF Exports
<1>3. PICK s \in {"pending", "processing", "completed", "failed"} :
        exportStatus' = [exportStatus EXCEPT ![e] = s]
  BY DEF Rows!Requested, Rows!Claimed, Rows!Settled
<1>4. exportStatus \in [Exports -> {"none", "pending", "processing", "completed", "failed"}]
  BY DEF ConsoleTypeOK
<1>5. /\ exportStatus'[e] # "none"
      /\ \A x \in Exports : x # e => exportStatus'[x] = exportStatus[x]
      /\ exportStatus' \in [Exports -> {"none", "pending", "processing", "completed", "failed"}]
  BY <1>3, <1>4
<1>6. CASE exportStatus[e] = "none"
  <2>1. \A f \in Exports : exportStatus[f] = "none" <=> f >= e
    BY <1>6 DEF NextRow, Rows!Requested, Rows!Claimed, Rows!Settled
  <2>2. \A f \in Exports : exportStatus'[f] # "none" <=> f <= e
    BY <1>2, <1>5, <2>1 DEF Exports
  <2> QED
    BY <1>2, <1>5, <2>2 DEF RowsUpTo
<1>7. CASE exportStatus[e] # "none"
  <2>1. \A f \in Exports : exportStatus'[f] # "none" <=> f <= k
    BY <1>1, <1>5, <1>7 DEF RowsUpTo
  <2> QED
    BY <1>5, <2>1 DEF RowsUpTo
<1> QED
  BY <1>6, <1>7

\* Every step of the page and of the rows keeps the invariant.
LEMMA ConsoleStep ==
  ASSUME ConsoleInv, [ConsoleExportsNext]_consoleExportVars
  PROVE  ConsoleInv'
<1>1. ConsoleTypeOK /\ RowsOK /\ CoverageOK
  BY DEF ConsoleInv
<1>2. NoData \notin Listings /\ NoFetch.pc = "none" /\ NewFetch.pc = "sent"
      /\ NoFetch \in [pc : {"none", "sent", "read"}, answer : Listings \cup {NoData},
                      retried : BOOLEAN, overtaken : BOOLEAN]
      /\ NewFetch \in [pc : {"none", "sent", "read"}, answer : Listings \cup {NoData},
                       retried : BOOLEAN, overtaken : BOOLEAN]
  BY ConsoleExportsAssumption DEF NewFetch, NoFetch
<1>3. ASSUME UNCHANGED <<exportStatus, posts, told>> PROVE RowsOK'
  BY <1>1, <1>3 DEF RowsOK, RowsUpTo
<1>4. CASE UNCHANGED consoleExportVars
  BY <1>1, <1>4 DEF ConsoleInv, ConsoleTypeOK, RowsOK, RowsUpTo, CoverageOK, Covers,
       RefetchInterval, consoleExportVars, fetchVars, postVars
<1>5. CASE OpenExports
  <2>1. ConsoleTypeOK'
    BY <1>1, <1>2, <1>5 DEF OpenExports, ConsoleTypeOK
  <2>2. CoverageOK'
    BY <1>1, <1>2, <1>5 DEF OpenExports, CoverageOK, Covers, RefetchInterval
  <2> QED
    BY <1>3, <1>5, <2>1, <2>2 DEF OpenExports, ConsoleInv
<1>6. CASE OpenDetail
  <2>1. ConsoleTypeOK'
    BY <1>1, <1>6 DEF OpenDetail, ConsoleTypeOK
  <2>2. CoverageOK'
    BY <1>1, <1>6 DEF OpenDetail, CoverageOK, Covers
  <2> QED
    BY <1>3, <1>6, <2>1, <2>2 DEF OpenDetail, ConsoleInv
<1>7. CASE GrowStale
  <2>1. ConsoleTypeOK'
    BY <1>1, <1>7 DEF GrowStale, ConsoleTypeOK
  <2>2. CoverageOK'
    BY <1>1, <1>7 DEF GrowStale, CoverageOK, Covers, RefetchInterval, postVars
  <2> QED
    BY <1>3, <1>7, <2>1, <2>2 DEF GrowStale, ConsoleInv, postVars
<1>8. CASE Collected
  <2>1. ConsoleTypeOK'
    BY <1>1, <1>8 DEF Collected, ConsoleTypeOK
  <2>2. CoverageOK'
    BY <1>1, <1>8 DEF Collected, CoverageOK, Covers, RefetchInterval, postVars
  <2> QED
    BY <1>3, <1>8, <2>1, <2>2 DEF Collected, ConsoleInv, postVars
<1>9. CASE Poll
  <2>1. ConsoleTypeOK'
    BY <1>1, <1>2, <1>9 DEF Poll, ConsoleTypeOK
  <2>2. CoverageOK'
    BY <1>1, <1>2, <1>9 DEF Poll, CoverageOK, Covers, RefetchInterval, postVars
  <2> QED
    BY <1>3, <1>9, <2>1, <2>2 DEF Poll, ConsoleInv, postVars
<1>10. CASE ListRows
  <2>1. PICK a : a = [x \in Newest |-> exportStatus[x]]
    OBVIOUS
  <2>2. a \in Listings /\ \A e \in told : Covers(a, e)
    BY <1>1, <2>1, NewestCovers
  <2>3. /\ fetch.pc = "sent" /\ fetch' = [fetch EXCEPT !.pc = "read", !.answer = a]
        /\ UNCHANGED <<exportStatus, page, data, stale, fetchFailed, polling, posts, told,
                       missed>>
    BY <1>10, <2>1 DEF ListRows, postVars
  <2>4. fetch'.pc = "read" /\ fetch'.answer = a
        /\ fetch' \in [pc : {"none", "sent", "read"}, answer : Listings \cup {NoData},
                       retried : BOOLEAN, overtaken : BOOLEAN]
    BY <1>1, <2>2, <2>3 DEF ConsoleTypeOK
  <2>5. ConsoleTypeOK'
    BY <1>1, <2>2, <2>3, <2>4 DEF ConsoleTypeOK
  <2>6. CoverageOK'
    <3>1. \A e \in told' : Covers(fetch'.answer, e)
      BY <2>2, <2>3, <2>4
    <3>2. (\A e \in told : Covers(data, e)) => \A e \in told' : Covers(data', e)
      BY <2>3
    <3>3. fetch.pc # "none" /\ fetch'.pc # "none"
      BY <2>3, <2>4
    <3> QED
      BY <1>1, <2>3, <3>1, <3>2, <3>3 DEF CoverageOK, RefetchInterval, Covers
  <2> QED
    BY <1>3, <2>3, <2>5, <2>6 DEF ConsoleInv
<1>11. CASE FetchSucceeds
  <2>1. ConsoleTypeOK'
    BY <1>1, <1>2, <1>11 DEF FetchSucceeds, ConsoleTypeOK
  <2>2. CoverageOK'
    BY <1>1, <1>2, <1>11 DEF FetchSucceeds, CoverageOK, Covers, RefetchInterval, postVars
  <2> QED
    BY <1>3, <1>11, <2>1, <2>2 DEF FetchSucceeds, ConsoleInv, postVars
<1>12. CASE FetchFails
  <2>1. /\ fetch.pc # "none"
        /\ \/ fetch' = [NewFetch EXCEPT !.retried = TRUE] /\ fetchFailed' = fetchFailed
           \/ fetch' = NoFetch /\ fetchFailed'
        /\ fetchFailed' \in BOOLEAN
        /\ UNCHANGED <<exportStatus, page, data, stale, polling, posts, told, missed>>
    BY <1>1, <1>12 DEF FetchFails, postVars, ConsoleTypeOK
  <2>2. fetch'.pc # "read" /\ (fetch'.pc = "none" => fetchFailed')
        /\ (~fetchFailed' => ~fetchFailed /\ fetch'.pc = "sent")
        /\ fetch' \in [pc : {"none", "sent", "read"}, answer : Listings \cup {NoData},
                       retried : BOOLEAN, overtaken : BOOLEAN]
    <3>1. PICK r : r = [NewFetch EXCEPT !.retried = TRUE]
      OBVIOUS
    <3>2. r.pc = "sent" /\ r \in [pc : {"none", "sent", "read"},
                                 answer : Listings \cup {NoData},
                                 retried : BOOLEAN, overtaken : BOOLEAN]
      BY <1>2, <3>1
    <3>3. CASE fetch' = r /\ fetchFailed' = fetchFailed
      BY <3>2, <3>3
    <3>4. CASE fetch' = NoFetch /\ fetchFailed'
      BY <1>2, <3>4
    <3> QED
      BY <2>1, <3>1, <3>3, <3>4
  <2>3. ConsoleTypeOK'
    BY <1>1, <2>1, <2>2 DEF ConsoleTypeOK
  <2>4. CoverageOK'
    BY <1>1, <2>1, <2>2 DEF CoverageOK, Covers, RefetchInterval
  <2> QED
    BY <1>3, <2>1, <2>3, <2>4 DEF ConsoleInv
<1>13. ASSUME NEW e \in Exports, CreateExport(e) PROVE ConsoleInv'
  <2>1. /\ NextRow(e) /\ Rows!Requested(e) /\ posts' = posts \cup {e}
        /\ UNCHANGED <<page, data, stale, fetchFailed, fetch, polling, told, missed>>
    BY <1>13 DEF CreateExport, fetchVars
  <2>2. /\ exportStatus' \in
             [Exports -> {"none", "pending", "processing", "completed", "failed"}]
        /\ \E k \in 0..MaxExports : RowsUpTo(k)'
        /\ exportStatus'[e] # "none"
        /\ \A x \in Exports : exportStatus[x] # "none" => exportStatus'[x] # "none"
    BY <1>1, <2>1, RowsMade
  <2>3. ConsoleTypeOK' /\ RowsOK'
    BY <1>1, <2>1, <2>2 DEF ConsoleTypeOK, RowsOK
  <2>4. CoverageOK'
    BY <1>1, <2>1 DEF CoverageOK, Covers, RefetchInterval
  <2> QED
    BY <2>3, <2>4 DEF ConsoleInv
<1>14. ASSUME NEW e \in Exports, CreateAnswered(e) PROVE ConsoleInv'
  <2>1. /\ e \in posts /\ posts' = posts \ {e} /\ told' = told \cup {e} /\ stale' = TRUE
        /\ fetch' = IF page = "exports" /\ (fetch.pc = "none" \/ data # NoData)
                      THEN NewFetch
                    ELSE [fetch EXCEPT !.overtaken = @ \/ fetch.pc = "read"]
        /\ UNCHANGED <<exportStatus, page, data, fetchFailed, polling, missed>>
    BY <1>14 DEF CreateAnswered, Answered, Invalidate
  <2>2. /\ fetch' \in [pc : {"none", "sent", "read"}, answer : Listings \cup {NoData},
                       retried : BOOLEAN, overtaken : BOOLEAN]
        /\ fetch'.pc = "read" => fetch'.overtaken /\ fetch'.answer \in Listings
        /\ page = "exports" /\ data # NoData => fetch'.pc # "none"
    BY <1>1, <1>2, <2>1 DEF ConsoleTypeOK
  <2>3. ConsoleTypeOK'
    BY <1>1, <2>1, <2>2 DEF ConsoleTypeOK
  <2>4. RowsOK'
    BY <1>1, <2>1 DEF RowsOK, RowsUpTo
  <2>5. CoverageOK'
    BY <1>1, <2>1, <2>2 DEF CoverageOK, Covers, RefetchInterval
  <2> QED
    BY <2>3, <2>4, <2>5 DEF ConsoleInv
<1>15. ASSUME NEW e \in Exports, CreateFails(e) PROVE ConsoleInv'
  <2>1. /\ posts' \subseteq posts
        /\ UNCHANGED <<exportStatus, page, data, stale, fetchFailed, fetch, polling, told,
                       missed>>
    BY <1>15 DEF CreateFails, Answered, fetchVars
  <2>2. ConsoleTypeOK' /\ RowsOK'
    BY <1>1, <2>1 DEF ConsoleTypeOK, RowsOK, RowsUpTo
  <2>3. CoverageOK'
    BY <1>1, <2>1 DEF CoverageOK, Covers, RefetchInterval
  <2> QED
    BY <2>2, <2>3 DEF ConsoleInv
<1>16. CASE RowsMove
  <2>1. PICK e \in Exports :
          (NextRow(e) /\ Rows!Requested(e)) \/ Rows!Claimed(e) \/ Rows!Settled(e)
    BY <1>16 DEF RowsMove
  <2>2. UNCHANGED <<page, data, stale, fetchFailed, fetch, polling, posts, told, missed>>
    BY <1>16 DEF RowsMove, fetchVars, postVars
  <2>3. /\ exportStatus' \in
             [Exports -> {"none", "pending", "processing", "completed", "failed"}]
        /\ \E k \in 0..MaxExports : RowsUpTo(k)'
        /\ \A x \in Exports : exportStatus[x] # "none" => exportStatus'[x] # "none"
    BY <1>1, <2>1, RowsMade
  <2>4. ConsoleTypeOK' /\ RowsOK'
    BY <1>1, <2>2, <2>3 DEF ConsoleTypeOK, RowsOK
  <2>5. CoverageOK'
    BY <1>1, <2>2 DEF CoverageOK, Covers, RefetchInterval
  <2> QED
    BY <2>4, <2>5 DEF ConsoleInv
<1> QED
  BY <1>4, <1>5, <1>6, <1>7, <1>8, <1>9, <1>10, <1>11, <1>12, <1>13, <1>14, <1>15, <1>16
     DEF ConsoleExportsNext

\* Of a behaviour of both, the console's part takes the console's steps.
THEOREM ConsoleInvariant == OutcomesSpec => []ConsoleInv
<1>1. OutcomesInit => ConsoleInv
  <2> SUFFICES ASSUME OutcomesInit PROVE ConsoleInv
    OBVIOUS
  <2>1. /\ exportStatus = [e \in Exports |-> "none"] /\ page = "detail" /\ data = NoData
        /\ stale = FALSE /\ fetchFailed = FALSE /\ fetch = NoFetch /\ polling = FALSE
        /\ posts = {} /\ told = {} /\ missed = FALSE
    BY DEF OutcomesInit, ConsoleExportsInit, Rows!RowsInit
  <2>2. ConsoleTypeOK /\ CoverageOK
    BY <2>1 DEF ConsoleTypeOK, CoverageOK, NoFetch
  <2>3. 0 \in 0..MaxExports /\ RowsUpTo(0)
    BY <2>1, ConsoleExportsAssumption DEF RowsUpTo, Exports
  <2> QED
    BY <2>1, <2>2, <2>3 DEF ConsoleInv, RowsOK
<1>2. ConsoleInv /\ [OutcomesNext]_outcomeVars => ConsoleInv'
  BY ConsoleStep DEF OutcomesNext, outcomeVars
<1> QED
  BY <1>1, <1>2, PTL DEF OutcomesSpec

\* When the page shows its list and fetches no more, every export the user was told of is
\* listed with the status it ended with or pushed off by newer ones (refetchInterval and
\* invalidateQueries of apps/web's exports).
THEOREM PollingGoesOn == OutcomesSpec => []PollingIsKept
<1>1. ConsoleInv => PollingIsKept
  <2> SUFFICES ASSUME ConsoleInv, page = "exports", data # NoData, ~fetchFailed,
                      fetch.pc = "none", ~polling, ~missed, NEW e \in told
               PROVE  \/ e \in DOMAIN data /\ data[e] \in Final
                      \/ Cardinality(DOMAIN data) = ListLimit /\ \A d \in DOMAIN data : d > e
    BY DEF PollingIsKept
  <2>1. Covers(data, e) /\ ~RefetchInterval(data)
    BY DEF ConsoleInv, CoverageOK
  <2>2. data \in Listings
    BY DEF ConsoleInv, ConsoleTypeOK
  <2>3. \A d \in DOMAIN data : data[d] \in {"pending", "processing", "completed", "failed"}
    BY <2>2 DEF Listings
  <2> QED
    BY <2>1, <2>3 DEF Covers, RefetchInterval, Final
<1> QED
  BY <1>1, ConsoleInvariant, PTL

-----------------------------------------------------------------------------
\* Outcomes: a behaviour of the whole is one of the pipeline.
THEOREM OutcomesParts == OutcomesSpec => Spec
<1>1. OutcomesInit => Init
  BY DEF OutcomesInit
<1>2. [OutcomesNext]_outcomeVars => [Next]_vars
  BY DEF OutcomesNext, outcomeVars
<1> QED
  BY <1>1, <1>2, PTL DEF OutcomesSpec, Spec

=============================================================================
