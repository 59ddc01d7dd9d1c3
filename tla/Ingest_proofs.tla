----------------------------- MODULE Ingest_proofs -----------------------------
(***************************************************************************)
(* The safety properties of the ingest path, for any number of requests    *)
(* that race, fail and crash, with the indexer and retention running.      *)
(***************************************************************************)
EXTENDS TracePipeline_proofs

\* How the stage of a request, its row and its answer go together.
StagesAgree ==
  \A r \in Requests :
    /\ pc[r] = "idle" => body[r] = NoEnvelope
    /\ pc[r] \in {"idle", "lookup", "offload"} => row[r] = "none"
    /\ pc[r] \in {"store", "respond"} => row[r] = "live"
    /\ pc[r] = "duplicate" => row[r] # "deleted"
    /\ pc[r] = "store" => key[r] # NoKey
    /\ pc[r] # "done" => code[r] = 0 /\ ack[r] = NoAck
    /\ code[r] = 202 <=> ack[r] # NoAck
    /\ code[r] \in {400, 409} => row[r] = "none"

\* The row of x was committed.  It keeps its envelope from then on.
Committed(x) == x \in Requests /\ row[x] # "none"

\* An acknowledgement, handed out or kept for a key, is that of a commit.
CommitAck(a) == Committed(a.receivedAt) /\ a = AckOf(a.receivedAt)

AcksCommitted ==
  /\ \A r \in Requests : ack[r] # NoAck => CommitAck(ack[r])
  /\ \A k \in Keys : idempotency[k] # NoAck => CommitAck(idempotency[k])

LiveTracesDiffer ==
  \A r, s \in Requests :
    row[r] = "live" /\ row[s] = "live" /\ body[r].trace = body[s].trace => r = s

\* What is published, queued or in a worker's hands was answered by its request.
Queued(r) == job[r] # "none" \/ r \in publishing \/ \E w \in Workers : wjob[w] = r

QueuedWasAnswered ==
  \A r \in Requests : Queued(r) => row[r] # "none" /\ pc[r] = "done" /\ ack[r] = AckOf(r)

KeysNameTraces ==
  /\ \A k \in Keys : idempotency[k] # NoAck => KeysWithTrace(k, idempotency[k].trace)
  /\ AckAnswersPost

\* The put of event i has landed: its object holds the payload, or that of a
\* request that replaced it.
Stored(r, i) ==
  \/ objects[ObjectKey(body[r], body[r].events[i])] = body[r].events[i].payload
  \/ ReplacedBy(body[r], i)

PayloadsStored ==
  \A r \in Requests :
    body[r] # NoEnvelope =>
      \A i \in DOMAIN body[r].events :
        /\ Offloaded(body[r].events[i])
        /\ row[r] # "none" \/ (pc[r] = "offload" /\ i \notin puts[r])
        => Stored(r, i)

IngestInv ==
  /\ TypeInv
  /\ StagesAgree
  /\ AcksCommitted
  /\ LiveTracesDiffer
  /\ QueuedWasAnswered
  /\ KeysNameTraces
  /\ PayloadsStored

\* Nothing was sent, committed or answered at first.
LEMMA IngestInvInit == Init => IngestInv
<1> SUFFICES ASSUME Init PROVE IngestInv
  OBVIOUS
<1>1. TypeInv
  BY TypeInit
<1>2. StagesAgree /\ AcksCommitted /\ LiveTracesDiffer /\ QueuedWasAnswered
  BY WorkersAssumption
  DEF Init, IngestInit, IndexerInit, StoreInit, ApiInit, StagesAgree, AcksCommitted,
      LiveTracesDiffer, QueuedWasAnswered, Queued
<1>3. KeysNameTraces /\ PayloadsStored
  BY DEF Init, IngestInit, StoreInit, ApiInit, KeysNameTraces, AckAnswersPost, PayloadsStored
<1> QED
  BY <1>1, <1>2, <1>3 DEF IngestInv

-----------------------------------------------------------------------------
\* The types a step of the API reads and writes.
LEMMA ApiShapes ==
  ASSUME TypeInv
  PROVE  /\ pc \in [Requests -> Running \cup {"idle", "done", "crashed"}]
         /\ key \in [Requests -> Keys \cup {NoKey}]
         /\ code \in [Requests -> {0, 202, 400, 409, 500}]
         /\ ack \in [Requests -> Ack \cup {NoAck}]
         /\ body \in [Requests -> Envelopes \cup {NoEnvelope}]
         /\ row \in [Requests -> {"none", "live", "deleted"}]
         /\ idempotency \in [Keys -> Ack \cup {NoAck}]
         /\ objects \in [ObjectKeys -> Payloads \cup {NoObject}]
         /\ job \in [Requests -> {"none", "waiting", "active", "completed", "failed"}]
         /\ puts \in [Requests -> SUBSET Nat]
         /\ publishing \subseteq Requests
BY DEF TypeInv, TypeOK, IngestTypeOK, StoreTypeOK

\* What a step of the API leaves alone: the other requests, and the envelope of
\* a request that has one.
LEMMA ApiFrame ==
  ASSUME IngestInv, NEW r \in Requests, ApiStep(r)
  PROVE  /\ \A q \in Requests :
              q # r => /\ pc'[q] = pc[q] /\ key'[q] = key[q] /\ code'[q] = code[q]
                       /\ ack'[q] = ack[q] /\ body'[q] = body[q] /\ row'[q] = row[q]
                       /\ puts'[q] = puts[q]
         /\ pc[r] # "idle" => body'[r] = body[r] /\ key'[r] = key[r]
         /\ row[r] # "none" => row'[r] = row[r]
<1>t. TypeInv /\ (pc[r] = "offload" => row[r] = "none")
  BY DEF IngestInv, StagesAgree
<1> USE <1>t, ApiShapes DEF storeVars, tableVars
<1>1. CASE \E post \in Posts : Receive(r, post)
  BY <1>1 DEF Receive, Goto
<1>2. CASE ReplayCached(r) \/ RejectInvalid(r) \/ StartOffload(r)
  BY <1>2 DEF ReplayCached, RejectInvalid, StartOffload, Answer, Goto
<1>3. CASE \E i \in puts[r] : PutLands(r, i) \/ PutFails(r, i)
  BY <1>3 DEF PutLands, PutFails, Answer, Goto
<1>4. CASE CommitTrace(r) \/ CommitRefused(r)
  BY <1>4 DEF CommitTrace, CommitRefused, OffloadDone, CreateFromIngest, Goto
<1>5. CASE CommitFails(r)
  BY <1>5 DEF CommitFails, OffloadDone, CreateFromIngest, Answer, Goto
<1>6. CASE StoreKey(r) \/ StoreKeyFails(r)
  BY <1>6 DEF StoreKey, StoreKeyFails, Answer, Goto
<1>7. CASE AnswerDuplicate(r) \/ LookupFails(r) \/ Respond(r)
  BY <1>7 DEF AnswerDuplicate, LookupFails, Respond, Answer, Goto
<1>8. CASE PublishLands(r) \/ PublishFails(r) \/ Crash(r)
  BY <1>8 DEF PublishLands, PublishFails, Crash
<1> QED
  BY <1>1, <1>2, <1>3, <1>4, <1>5, <1>6, <1>7, <1>8 DEF ApiStep

\* A duplicate whose own row is live finds it, so it is not refused.
LEMMA ApiStages ==
  ASSUME IngestInv, NEW r \in Requests, ApiStep(r)
  PROVE  StagesAgree'
<1> DEFINE Agree(q) ==
      /\ pc[q] = "idle" => body[q] = NoEnvelope
      /\ pc[q] \in {"idle", "lookup", "offload"} => row[q] = "none"
      /\ pc[q] \in {"store", "respond"} => row[q] = "live"
      /\ pc[q] = "duplicate" => row[q] # "deleted"
      /\ pc[q] = "store" => key[q] # NoKey
      /\ pc[q] # "done" => code[q] = 0 /\ ack[q] = NoAck
      /\ code[q] = 202 <=> ack[q] # NoAck
      /\ code[q] \in {400, 409} => row[q] = "none"
<1>0. TypeInv /\ (\A q \in Requests : Agree(q))
  BY DEF IngestInv, StagesAgree
<1>1. \A q \in Requests : q # r => Agree(q)'
  BY <1>0, ApiFrame
<1>2. Agree(r)'
  <2> USE <1>0, ApiShapes DEF storeVars, tableVars
  <2>1. CASE \E post \in Posts : Receive(r, post)
    BY <2>1 DEF Receive, Goto
  <2>2. CASE ReplayCached(r) \/ RejectInvalid(r) \/ StartOffload(r)
    BY <2>2 DEF ReplayCached, RejectInvalid, StartOffload, Answer, Goto
  <2>3. CASE \E i \in puts[r] : PutLands(r, i) \/ PutFails(r, i)
    BY <2>3 DEF PutLands, PutFails, Answer, Goto
  <2>4. CASE CommitTrace(r) \/ CommitRefused(r)
    BY <2>4 DEF CommitTrace, CommitRefused, OffloadDone, CreateFromIngest, AfterCommit, Goto
  <2>5. CASE CommitFails(r)
    BY <2>5 DEF CommitFails, OffloadDone, CreateFromIngest, Answer, Goto
  <2>6. CASE StoreKey(r) \/ StoreKeyFails(r)
    BY <2>6 DEF StoreKey, StoreKeyFails, Answer, Goto
  <2>7. CASE AnswerDuplicate(r)
    <3>1. \A x \in Existing(r) : AckOf(x) # NoAck
      BY AckOfType DEF Existing, TypeInv, BodyReceived
    <3>2. row[r] = "live" => r \in Existing(r)
      BY DEF Existing
    <3> QED
      BY <2>7, <3>1, <3>2 DEF AnswerDuplicate, Answer, Goto
  <2>8. CASE LookupFails(r)
    BY <2>8 DEF LookupFails, Answer, Goto
  <2>9. CASE Respond(r)
    <3>1. AckOf(r) # NoAck
      BY <2>9, AckOfType DEF Respond, TypeInv, BodyReceived
    <3> QED
      BY <2>9, <3>1 DEF Respond, Answer, Goto
  <2>10. CASE PublishLands(r) \/ PublishFails(r) \/ Crash(r)
    BY <2>10 DEF PublishLands, PublishFails, Crash, Running
  <2> QED
    BY <2>1, <2>2, <2>3, <2>4, <2>5, <2>6, <2>7, <2>8, <2>9, <2>10 DEF ApiStep
<1> QED
  BY <1>1, <1>2 DEF StagesAgree

\* A commit keeps its row and envelope through every step of the API.
LEMMA CommittedStays ==
  ASSUME IngestInv, NEW r \in Requests, ApiStep(r), NEW x \in Requests, row[x] # "none"
  PROVE  row'[x] = row[x] /\ body'[x] = body[x] /\ AckOf(x)' = AckOf(x)
<1>1. pc[x] # "idle"
  BY DEF IngestInv, TypeInv, BodyReceived
<1>2. row'[x] = row[x] /\ body'[x] = body[x]
  BY <1>1, ApiFrame
<1> QED
  BY <1>2 DEF AckOf

\* A step of acceptTrace announces only what is committed.
LEMMA ApiAcks ==
  ASSUME IngestInv, NEW r \in Requests, ApiStep(r)
  PROVE  AcksCommitted'
<1>0. /\ TypeInv /\ StagesAgree
      /\ \A q \in Requests : ack[q] # NoAck => CommitAck(ack[q])
      /\ \A k \in Keys : idempotency[k] # NoAck => CommitAck(idempotency[k])
  BY DEF IngestInv, AcksCommitted
\* What was an acknowledgement of a commit still is.
<1>1. ASSUME NEW a, CommitAck(a)
      PROVE  CommitAck(a)'
  BY <1>1, CommittedStays DEF CommitAck, Committed
<1>2. ASSUME NEW x \in Requests, row[x] # "none"
      PROVE  CommitAck(AckOf(x))
  BY <1>2 DEF CommitAck, Committed, AckOf
<1>3. /\ \A q \in Requests : ack'[q] = ack[q] \/ ack'[q] = NoAck \/ CommitAck(ack'[q])
      /\ \A k \in Keys : idempotency'[k] = idempotency[k] \/ CommitAck(idempotency'[k])
  <2> USE <1>0, ApiShapes DEF storeVars, tableVars
  <2>1. CASE \E post \in Posts : Receive(r, post)
    BY <2>1 DEF Receive
  <2>2. CASE ReplayCached(r)
    BY <2>2 DEF ReplayCached, Answer, Cached
  <2>3. CASE RejectInvalid(r) \/ StartOffload(r) \/ LookupFails(r)
    BY <2>3 DEF RejectInvalid, StartOffload, LookupFails, Answer
  <2>4. CASE \E i \in puts[r] : PutLands(r, i) \/ PutFails(r, i)
    BY <2>4 DEF PutLands, PutFails, Answer
  <2>5. CASE CommitTrace(r) \/ CommitRefused(r) \/ CommitFails(r)
    BY <2>5 DEF CommitTrace, CommitRefused, CommitFails, Answer
  <2>6. CASE StoreKey(r) \/ StoreKeyFails(r)
    <3>1. CommitAck(AckOf(r))
      BY <2>6, <1>2 DEF StoreKey, StoreKeyFails, StagesAgree
    <3> QED
      BY <2>6, <3>1 DEF StoreKey, StoreKeyFails, Answer
  <2>7. CASE AnswerDuplicate(r)
    <3>1. \A x \in Existing(r) : CommitAck(AckOf(x))
      BY <1>2 DEF Existing
    <3> QED
      BY <2>7, <3>1 DEF AnswerDuplicate, Answer
  <2>8. CASE Respond(r)
    <3>1. CommitAck(AckOf(r))
      BY <2>8, <1>2 DEF Respond, StagesAgree
    <3> QED
      BY <2>8, <3>1 DEF Respond, Answer
  <2>9. CASE PublishLands(r) \/ PublishFails(r) \/ Crash(r)
    BY <2>9 DEF PublishLands, PublishFails, Crash
  <2> QED
    BY <2>1, <2>2, <2>3, <2>4, <2>5, <2>6, <2>7, <2>8, <2>9 DEF ApiStep
<1>4. \A q \in Requests : ack'[q] # NoAck => CommitAck(ack'[q])
  BY <1>0, <1>3
<1>5. \A k \in Keys : idempotency'[k] # NoAck => CommitAck(idempotency'[k])
  BY <1>0, <1>3
<1>6. \A a : CommitAck(a) => Committed(a.receivedAt)' /\ a = AckOf(a.receivedAt)'
  BY CommittedStays DEF CommitAck, Committed
<1> QED
  BY <1>4, <1>5, <1>6 DEF AcksCommitted, CommitAck

\* The transaction refuses a trace that another live row has.
LEMMA ApiLiveTraces ==
  ASSUME IngestInv, NEW r \in Requests, ApiStep(r)
  PROVE  LiveTracesDiffer'
<1>0. TypeInv /\ LiveTracesDiffer /\ StagesAgree
  BY DEF IngestInv
<1>1. ASSUME NEW q \in Requests, row'[q] = "live", row[q] # "live"
      PROVE  q = r /\ ~ ViolatesUnique(body[r]) /\ body' = body
  <2>1. q = r
    BY <1>1, ApiFrame
  <2> USE <1>0, ApiShapes DEF storeVars, tableVars
  <2>2. CASE CommitTrace(r) \/ CommitFails(r)
    BY <2>1, <2>2, <1>1 DEF CommitTrace, CommitFails
  <2>3. CASE ~ (CommitTrace(r) \/ CommitFails(r))
    <3>1. UNCHANGED row
      BY <2>3 DEF ApiStep, Receive, ReplayCached, RejectInvalid, StartOffload, PutLands, PutFails,
         CommitRefused, StoreKey, StoreKeyFails, AnswerDuplicate, LookupFails, Respond,
         PublishLands, PublishFails, Crash
    <3> QED
      BY <3>1, <1>1
  <2> QED
    BY <2>1, <2>2, <2>3
<1>2. ASSUME NEW q \in Requests, row[q] = "live"
      PROVE  body'[q] = body[q]
  BY <1>2, CommittedStays
<1> SUFFICES ASSUME NEW q \in Requests, NEW s \in Requests,
                    row'[q] = "live", row'[s] = "live", body'[q].trace = body'[s].trace
             PROVE  q = s
  BY DEF LiveTracesDiffer
<1>3. CASE row[q] = "live" /\ row[s] = "live"
  BY <1>0, <1>2, <1>3 DEF LiveTracesDiffer
<1>4. CASE row[q] # "live" /\ row[s] # "live"
  BY <1>1, <1>4
<1>5. CASE row[q] # "live" /\ row[s] = "live"
  BY <1>1, <1>5 DEF ViolatesUnique
<1>6. CASE row[q] = "live" /\ row[s] # "live"
  BY <1>1, <1>6 DEF ViolatesUnique
<1> QED
  BY <1>3, <1>4, <1>5, <1>6

\* Only the request that was answered publishes.
LEMMA ApiQueued ==
  ASSUME IngestInv, NEW r \in Requests, ApiStep(r), UNCHANGED indexerVars
  PROVE  QueuedWasAnswered'
<1>0. TypeInv /\ StagesAgree /\ QueuedWasAnswered
  BY DEF IngestInv
<1>s. UNCHANGED wjob
  BY DEF indexerVars, workerVars
<1>1. ASSUME NEW q \in Requests, row[q] # "none", pc[q] = "done", ack[q] = AckOf(q)
      PROVE  row'[q] # "none" /\ pc'[q] = "done" /\ ack'[q] = AckOf(q)'
  <2>1. row'[q] # "none" /\ AckOf(q)' = AckOf(q)
    BY <1>1, CommittedStays
  <2>2. pc'[q] = "done" /\ ack'[q] = ack[q]
    <3>1. CASE q # r
      BY <1>1, <3>1, ApiFrame
    <3>2. CASE q = r
      BY <1>0, <1>1, <3>2, ApiShapes
      DEF ApiStep, Receive, ReplayCached, RejectInvalid, StartOffload, PutLands, PutFails,
          CommitTrace, CommitRefused, CommitFails, OffloadDone, StoreKey, StoreKeyFails,
          AnswerDuplicate, LookupFails, Respond, PublishLands, PublishFails, Crash, Running
    <3> QED
      BY <3>1, <3>2
  <2> QED
    BY <1>1, <2>1, <2>2
<1>2. ASSUME NEW q \in Requests, Queued(q)', ~ Queued(q)
      PROVE  q = r /\ Respond(r)
  BY <1>0, <1>2, <1>s, ApiShapes
  DEF Queued, storeVars, ApiStep, Receive, ReplayCached, RejectInvalid, StartOffload, PutLands,
      PutFails, CommitTrace, CommitRefused, CommitFails, StoreKey, StoreKeyFails,
      AnswerDuplicate, LookupFails, Respond, PublishLands, AddJob, PublishFails, Crash
<1>3. Respond(r) => row'[r] # "none" /\ pc'[r] = "done" /\ ack'[r] = AckOf(r)'
  BY <1>0, ApiShapes DEF Respond, Answer, Goto, StagesAgree, storeVars, tableVars, AckOf
<1> QED
  BY <1>0, <1>1, <1>2, <1>3 DEF QueuedWasAnswered

\* A request that has been received keeps its body and key.
LEMMA ReceivedStays ==
  ASSUME IngestInv, NEW r \in Requests, ApiStep(r), NEW x \in Requests, body[x] # NoEnvelope
  PROVE  body'[x] = body[x] /\ key'[x] = key[x]
<1>1. pc[x] # "idle"
  BY DEF IngestInv, StagesAgree
<1> QED
  BY <1>1, ApiFrame

\* A step of acceptTrace stores a response under a key that was sent with it.
LEMMA ApiKeys ==
  ASSUME IngestInv, NEW r \in Requests, ApiStep(r)
  PROVE  KeysNameTraces'
<1>0. /\ TypeInv /\ StagesAgree /\ AcksCommitted
      /\ \A k \in Keys : idempotency[k] # NoAck => KeysWithTrace(k, idempotency[k].trace)
      /\ \A q \in Requests :
           ack[q] # NoAck =>
             \/ ack[q].trace = body[q].trace
             \/ key[q] # NoKey /\ KeysWithTrace(key[q], ack[q].trace)
  BY DEF IngestInv, KeysNameTraces, AckAnswersPost
<1> DEFINE Named(k, t) ==
      \E s \in Requests : key'[s] = k /\ body'[s] # NoEnvelope /\ body'[s].trace = t
\* A key that was sent with a trace has been sent with it ever since.
<1>1. \A k, t : KeysWithTrace(k, t) => Named(k, t)
  BY ReceivedStays DEF KeysWithTrace
<1>2. \A k \in Keys :
        idempotency'[k] # idempotency[k] =>
          /\ k = key[r]
          /\ body[r] # NoEnvelope
          /\ idempotency'[k] = AckOf(r)
  <2> USE <1>0, ApiShapes
  <2>1. CASE StoreKey(r) \/ StoreKeyFails(r)
    <3>1. body[r] # NoEnvelope
      BY <2>1, NoEnvelopeIsNone DEF StoreKey, StoreKeyFails, TypeInv, BodyReceived
    <3> QED
      BY <2>1, <3>1 DEF StoreKey, StoreKeyFails
  <2>2. CASE ~ (StoreKey(r) \/ StoreKeyFails(r))
    BY <2>2 DEF storeVars, ApiStep, Receive, ReplayCached, RejectInvalid, StartOffload, PutLands,
       PutFails, CommitTrace, CommitRefused, CommitFails, AnswerDuplicate, LookupFails, Respond,
       PublishLands, PublishFails, Crash
  <2> QED
    BY <2>1, <2>2
<1>3. ASSUME NEW k \in Keys, idempotency'[k] # NoAck
      PROVE  Named(k, idempotency'[k].trace)
  <2>1. CASE idempotency'[k] = idempotency[k]
    BY <1>0, <1>1, <1>3, <2>1
  <2>2. CASE idempotency'[k] # idempotency[k]
    <3>1. key[r] = k /\ body[r] # NoEnvelope /\ idempotency'[k].trace = body[r].trace
      BY <1>2, <2>2 DEF AckOf
    <3>2. KeysWithTrace(k, idempotency'[k].trace)
      BY <3>1 DEF KeysWithTrace
    <3> HIDE DEF Named
    <3> QED
      BY <1>1, <3>2
  <2> QED
    BY <2>1, <2>2
<1>4. ASSUME NEW q \in Requests, ack'[q] # NoAck, ack'[q] # ack[q]
      PROVE  /\ q = r /\ body[r] # NoEnvelope
             /\ \/ ack'[r].trace = body[r].trace
                \/ key[r] # NoKey /\ KeysWithTrace(key[r], ack'[r].trace)
  <2>1. q = r
    BY <1>4, ApiFrame
  <2> USE <1>0, ApiShapes DEF storeVars
  <2>2. CASE ReplayCached(r)
    <3>1. key[r] \in Keys /\ ack'[r] = idempotency[key[r]]
      BY <2>2 DEF ReplayCached, Answer, Cached
    <3>2. body[r] # NoEnvelope
      BY <2>2, NoEnvelopeIsNone DEF ReplayCached, TypeInv, BodyReceived
    <3> QED
      BY <1>4, <2>1, <3>1, <3>2, NoValuesAssumption
  <2>3. CASE AnswerDuplicate(r)
    <3>1. body[r] # NoEnvelope
      BY <2>3, NoEnvelopeIsNone DEF AnswerDuplicate, TypeInv, BodyReceived
    <3>2. PICK x \in Existing(r) : ack'[r] = AckOf(x)
      BY <1>4, <2>1, <2>3 DEF AnswerDuplicate, Answer
    <3> QED
      BY <2>1, <3>1, <3>2 DEF Existing, AckOf
  <2>4. CASE Respond(r)
    <3>1. body[r] # NoEnvelope
      BY <2>4, NoEnvelopeIsNone DEF Respond, TypeInv, BodyReceived
    <3> QED
      BY <2>1, <2>4, <3>1 DEF Respond, Answer, AckOf
  <2>5. CASE ~ (ReplayCached(r) \/ AnswerDuplicate(r) \/ Respond(r))
    <3>1. \A x \in Requests : ack'[x] = ack[x] \/ ack'[x] = NoAck
      BY <2>5 DEF ApiStep, Receive, RejectInvalid, StartOffload, PutLands, PutFails, CommitTrace,
         CommitRefused, CommitFails, StoreKey, StoreKeyFails, LookupFails, PublishLands,
         PublishFails, Crash, Answer
    <3> QED
      BY <1>4, <3>1
  <2> QED
    BY <2>2, <2>3, <2>4, <2>5
<1>5. ASSUME NEW q \in Requests, ack'[q] # NoAck
      PROVE  \/ ack'[q].trace = body'[q].trace
             \/ key'[q] # NoKey /\ Named(key'[q], ack'[q].trace)
  <2>1. CASE ack'[q] = ack[q]
    <3>1. body[q] # NoEnvelope
      BY <1>0, <1>5, <2>1, NoEnvelopeIsNone DEF StagesAgree, TypeInv, BodyReceived
    <3>2. body'[q] = body[q] /\ key'[q] = key[q]
      BY <3>1, ReceivedStays
    <3> QED
      BY <1>0, <1>1, <1>5, <2>1, <3>2
  <2>2. CASE ack'[q] # ack[q]
    <3>1. body'[q] = body[q] /\ key'[q] = key[q]
      BY <1>4, <1>5, <2>2, ReceivedStays
    <3> QED
      BY <1>1, <1>4, <1>5, <2>2, <3>1
  <2> QED
    BY <2>1, <2>2
<1> QED
  BY <1>3, <1>5 DEF KeysNameTraces, AckAnswersPost, KeysWithTrace

\* A put that takes effect writes the payload of its event; whoever finds another one
\* in its place finds it from a request for the same object.
LEMMA ApiPayloads ==
  ASSUME IngestInv, NEW r \in Requests, ApiStep(r)
  PROVE  PayloadsStored'
<1>0. TypeInv /\ StagesAgree /\ PayloadsStored
  BY DEF IngestInv
<1> SUFFICES ASSUME NEW q \in Requests, body'[q] # NoEnvelope,
                    NEW i \in DOMAIN body'[q].events,
                    Offloaded(body'[q].events[i]),
                    row'[q] # "none" \/ (pc'[q] = "offload" /\ i \notin puts'[q])
             PROVE  Stored(q, i)'
  BY DEF PayloadsStored, Offloaded
<1> DEFINE o == ObjectKey(body[q], body[q].events[i])
           p == body[q].events[i].payload
\* A step that is not a put on this object keeps what is stored in it.
<1>1. ASSUME Stored(q, i), body[q] # NoEnvelope, objects'[o] = objects[o]
      PROVE  Stored(q, i)'
  <2>1. body'[q] = body[q]
    BY <1>1, ReceivedStays
  <2>2. ASSUME NEW s \in Requests, body[s] # NoEnvelope
        PROVE  body'[s] = body[s]
    BY <2>2, ReceivedStays
  <2>3. CASE objects[o] = p
    BY <1>1, <2>1, <2>3 DEF Stored, ObjectKey
  <2>4. CASE ReplacedBy(body[q], i)
    BY <1>1, <2>1, <2>2, <2>4 DEF Stored, ReplacedBy, ObjectKey
  <2> QED
    BY <1>1, <2>3, <2>4 DEF Stored
<1>2. CASE \E j \in puts[r] : (PutLands(r, j) \/ PutFails(r, j)) /\ objects' = ObjectPut(r, j)
  <2>1. PICK j \in puts[r] : (PutLands(r, j) \/ PutFails(r, j)) /\ objects' = ObjectPut(r, j)
    BY <1>2
  <2>2. /\ body' = body /\ row' = row
        /\ puts' = [puts EXCEPT ![r] = @ \ {j}]
    BY <2>1 DEF PutLands, PutFails, tableVars
  <2>3. pc'[q] = "offload" => pc[q] = "offload"
    BY <2>1, <1>0, ApiShapes DEF PutLands, PutFails, Answer, Goto
  <2>4. body[r] \in Envelopes /\ j \in DOMAIN body[r].events /\ body[q] \in Envelopes
    BY <1>0, <2>2, ApiShapes DEF TypeInv, BodyReceived
  <2>5. o \in ObjectKeys
    <3>1. i \in DOMAIN body[q].events
      BY <2>2
    <3> QED
      BY <2>4, <3>1, EnvelopeFields DEF ObjectKey, ObjectKeys, Event
  <2>6. CASE ObjectKey(body[r], body[r].events[j]) = o
    <3>1. objects'[o] = body[r].events[j].payload
      BY <2>1, <2>5, <2>6, <1>0, ApiShapes DEF ObjectPut
    <3>2. CASE body[r].events[j].payload = p
      BY <2>2, <3>1, <3>2 DEF Stored, ObjectKey
    <3>3. CASE body[r].events[j].payload # p
      <4>1. body[r] # NoEnvelope
        BY <2>4, NoEnvelopeIsNone
      <4> QED
        BY <2>2, <2>4, <2>6, <3>1, <3>3, <4>1 DEF Stored, ReplacedBy, ObjectKey
    <3> QED
      BY <3>2, <3>3
  <2>7. CASE ObjectKey(body[r], body[r].events[j]) # o
    <3>1. objects'[o] = objects[o]
      BY <2>1, <2>5, <2>7, <1>0, ApiShapes DEF ObjectPut
    <3>2. row[q] # "none" \/ (pc[q] = "offload" /\ i \notin puts[q])
      <4>1. CASE q = r /\ i = j
        BY <2>6, <2>7, <4>1
      <4>2. CASE ~ (q = r /\ i = j)
        BY <2>2, <2>3, <4>2, <1>0, ApiShapes
      <4> QED
        BY <4>1, <4>2
    <3>3. Stored(q, i)
      BY <1>0, <2>2, <3>2 DEF PayloadsStored
    <3> QED
      BY <1>1, <2>2, <3>1, <3>3
  <2> QED
    BY <2>6, <2>7
<1>3. CASE ~ \E j \in puts[r] : (PutLands(r, j) \/ PutFails(r, j)) /\ objects' = ObjectPut(r, j)
  <2>1. ~ \E j \in puts[r] : PutLands(r, j)
    BY <1>3 DEF PutLands
  <2>2. UNCHANGED objects
    BY <1>3, <2>1 DEF storeVars, ApiStep, Receive, ReplayCached, RejectInvalid,
       StartOffload, PutFails, CommitTrace, CommitRefused, CommitFails, StoreKey, StoreKeyFails, AnswerDuplicate,
       LookupFails, Respond, PublishLands, PublishFails, Crash
  <2>3. body[q] = body'[q] /\ (row[q] # "none" \/ (pc[q] = "offload" /\ i \notin puts[q]))
    <3>1. CASE q # r
      BY <3>1, ApiFrame
    <3>2. CASE q = r
      <4> USE <1>0, <3>2, ApiShapes DEF storeVars, tableVars
      <4>1. CASE \E post \in Posts : Receive(r, post)
        BY <4>1 DEF Receive, Goto, StagesAgree
      <4>2. CASE StartOffload(r)
        BY <4>2 DEF StartOffload, Goto, StagesAgree
      <4>3. CASE CommitTrace(r) \/ CommitFails(r)
        BY <4>3 DEF CommitTrace, CommitFails, OffloadDone, Answer, Goto
      <4>4. CASE (\E j \in puts[r] : PutFails(r, j)) \/ Crash(r)
        <5>1. body'[q] = body[q] /\ row'[q] = row[q]
          BY <4>4 DEF PutFails, Crash
        <5>2. pc'[q] # "offload"
          BY <4>4 DEF PutFails, Crash, Answer, Goto, Running
        <5>3. row'[q] # "none"
          BY <5>2
        <5> QED
          BY <5>1, <5>3
      <4>5. CASE ~ (\/ \E post \in Posts : Receive(r, post)
                    \/ StartOffload(r) \/ CommitTrace(r) \/ CommitFails(r)
                    \/ \E j \in puts[r] : PutFails(r, j)
                    \/ Crash(r))
        BY <2>1, <4>5 DEF ApiStep, ReplayCached, RejectInvalid, CommitRefused, StoreKey,
           StoreKeyFails, AnswerDuplicate, LookupFails, Respond, PublishLands, PublishFails,
           Answer, Goto
      <4> QED
        BY <4>1, <4>2, <4>3, <4>4, <4>5
    <3> QED
      BY <3>1, <3>2
  <2>4. Stored(q, i)
    BY <1>0, <2>3 DEF PayloadsStored
  <2> QED
    BY <1>1, <2>2, <2>3, <2>4
<1> QED
  BY <1>2, <1>3

-----------------------------------------------------------------------------
\* The worker and BullMQ leave alone what ingest wrote, and queue nothing new.
LEMMA IndexerFrame ==
  ASSUME TypeInv, IndexerNext, UNCHANGED apiVars
  PROVE  /\ UNCHANGED <<body, row, idempotency, objects>>
         /\ \A q \in Requests : Queued(q)' => Queued(q)
<1>1. UNCHANGED <<body, row, idempotency, objects>>
  BY DEF IndexerNext, Work, TakeJob, ReadTrace, TraceMissing, ReadEvents, Project,
     SealIfTerminal, DatabaseFails, Finish, WorkerCrash, Stall, Throw, storeVars, tableVars
<1>t. /\ job \in [Requests -> {"none", "waiting", "active", "completed", "failed"}]
      /\ wjob \in [Workers -> Requests \cup {NoJob}]
      /\ \A w \in Workers : wpc[w] # "idle" => wjob[w] \in Requests
      /\ NoJob \notin Requests
      /\ UNCHANGED publishing
  BY WorkersAssumption DEF TypeInv, TypeOK, IndexerTypeOK, StoreTypeOK, HasJob, apiVars
<1> DEFINE JobsKept == \A q \in Requests : job'[q] # "none" => Queued(q)
           HandsKept == \A w \in Workers, q \in Requests : wjob'[w] = q => Queued(q)
<1>2. ASSUME NEW w \in Workers, NEW reason, wpc[w] # "idle", Throw(w, reason)
      PROVE  JobsKept /\ HandsKept
  BY <1>t, <1>2 DEF Throw, Idle, Queued
<1>3. ASSUME NEW w \in Workers, NEW r \in Requests, TakeJob(w, r)
      PROVE  JobsKept /\ HandsKept
  BY <1>t, <1>3 DEF TakeJob, Queued
<1>4. ASSUME UNCHANGED <<wjob, job>>
      PROVE  JobsKept /\ HandsKept
  BY <1>4 DEF Queued
<1>5. ASSUME NEW w \in Workers, Finish(w) \/ WorkerCrash(w)
      PROVE  JobsKept /\ HandsKept
  BY <1>t, <1>5 DEF Finish, WorkerCrash, Idle, Queued, storeVars
<1>6. ASSUME NEW r \in Requests, Stall(r)
      PROVE  JobsKept /\ HandsKept
  BY <1>t, <1>6 DEF Stall, Queued, workerVars
<1>7. ASSUME NEW w \in Workers, Work(w) \/ DatabaseFails(w)
      PROVE  JobsKept /\ HandsKept
  <2>1. CASE TraceMissing(w) \/ DatabaseFails(w)
    <3>1. wpc[w] # "idle" /\ \E reason : Throw(w, reason)
      BY <2>1 DEF TraceMissing, DatabaseFails
    <3> HIDE DEF JobsKept, HandsKept
    <3> QED
      BY <3>1, <1>2
  <2>2. CASE ReadTrace(w)
    BY <2>2, <1>4 DEF ReadTrace, storeVars
  <2>3. CASE ReadEvents(w) \/ Project(w) \/ SealIfTerminal(w)
    <3>1. UNCHANGED <<wjob, job>> \/ (wpc[w] # "idle" /\ \E reason : Throw(w, reason))
      BY <2>3 DEF ReadEvents, Project, SealIfTerminal, storeVars
    <3> HIDE DEF JobsKept, HandsKept
    <3> QED
      BY <3>1, <1>2, <1>4
  <2>4. CASE Finish(w)
    BY <2>4, <1>5
  <2> HIDE DEF JobsKept, HandsKept
  <2> QED
    BY <1>7, <2>1, <2>2, <2>3, <2>4 DEF Work
<1>8. JobsKept /\ HandsKept
  <2> HIDE DEF JobsKept, HandsKept
  <2> QED
    BY <1>3, <1>5, <1>6, <1>7 DEF IndexerNext
<1> QED
  BY <1>1, <1>8, <1>t DEF Queued

\* What IngestInv says of a state hangs on the variables of the API, and on
\* these of the store.
LEMMA IngestInvKept ==
  ASSUME IngestInv, TypeInv', UNCHANGED <<apiVars, body, row, idempotency, objects>>,
         \A q \in Requests : Queued(q)' => Queued(q)
  PROVE  IngestInv'
<1> USE DEF apiVars
<1>1. StagesAgree' /\ LiveTracesDiffer' /\ KeysNameTraces'
  BY DEF IngestInv, StagesAgree, LiveTracesDiffer, KeysNameTraces, KeysWithTrace, AckAnswersPost
<1>2. AcksCommitted'
  BY DEF IngestInv, AcksCommitted, CommitAck, Committed, AckOf
<1>3. QueuedWasAnswered'
  BY DEF IngestInv, QueuedWasAnswered, AckOf
<1>4. PayloadsStored'
  BY DEF IngestInv, PayloadsStored, Stored, ReplacedBy, ObjectKey, Offloaded
<1> QED
  BY <1>1, <1>2, <1>3, <1>4 DEF IngestInv

\* Retention only deletes rows of requests that are over.
LEMMA ExpireIngestInv ==
  ASSUME IngestInv, TypeInv', Expire, UNCHANGED indexerVars
  PROVE  IngestInv'
<1>1. PICK S \in SUBSET {r \in Requests : row[r] = "live" /\ pc[r] \notin Running} :
        DeleteTraces(S) /\ UNCHANGED apiVars
  BY DEF Expire
<1>2. /\ UNCHANGED <<pc, key, code, ack, puts, publishing, body, idempotency, objects, job, wjob>>
      /\ row' = [q \in Requests |-> IF q \in S THEN "deleted" ELSE row[q]]
      /\ row \in [Requests -> {"none", "live", "deleted"}]
  BY <1>1 DEF DeleteTraces, apiVars, indexerVars, workerVars, IngestInv, TypeInv, TypeOK,
     IngestTypeOK, StoreTypeOK
<1>3. \A q \in Requests : /\ row'[q] = row[q] \/ (row[q] = "live" /\ row'[q] = "deleted"
                                                   /\ pc[q] \notin Running)
                          /\ row'[q] # "none" <=> row[q] # "none"
  BY <1>2
<1>4. StagesAgree'
  BY <1>2, <1>3 DEF IngestInv, StagesAgree, Running
<1>5. AcksCommitted'
  BY <1>2, <1>3 DEF IngestInv, AcksCommitted, CommitAck, Committed, AckOf
<1>6. LiveTracesDiffer'
  BY <1>2, <1>3 DEF IngestInv, LiveTracesDiffer
<1>7. QueuedWasAnswered'
  BY <1>2, <1>3 DEF IngestInv, QueuedWasAnswered, Queued, AckOf
<1>8. KeysNameTraces'
  BY <1>2 DEF IngestInv, KeysNameTraces, KeysWithTrace, AckAnswersPost
<1>9. PayloadsStored'
  BY <1>2, <1>3 DEF IngestInv, PayloadsStored, Stored, ReplacedBy, ObjectKey, Offloaded
<1> QED
  BY <1>4, <1>5, <1>6, <1>7, <1>8, <1>9 DEF IngestInv

\* Every step of the pipeline keeps the invariant of ingest.
LEMMA IngestInvStep == IngestInv /\ [Next]_vars => IngestInv'
<1> SUFFICES ASSUME IngestInv, [Next]_vars
             PROVE  IngestInv'
  OBVIOUS
<1>1. TypeInv /\ TypeInv'
  BY TypeStep DEF IngestInv
<1>2. CASE ApiNext /\ UNCHANGED indexerVars
  <2>1. PICK r \in Requests : ApiStep(r)
    BY <1>2, ApiNextIsStep
  <2> QED
    BY <1>1, <1>2, <2>1, ApiStages, ApiAcks, ApiLiveTraces, ApiQueued, ApiKeys, ApiPayloads
    DEF IngestInv
<1>3. CASE IndexerNext /\ UNCHANGED apiVars
  BY <1>1, <1>3, IndexerFrame, IngestInvKept
<1>4. CASE Expire /\ UNCHANGED indexerVars
  BY <1>1, <1>4, ExpireIngestInv
<1>5. CASE UNCHANGED vars
  <2>1. UNCHANGED <<apiVars, body, row, idempotency, objects, job, wjob, publishing>>
    BY <1>5 DEF vars, storeVars, tableVars, apiVars, indexerVars, workerVars
  <2>2. \A q \in Requests : Queued(q)' => Queued(q)
    BY <2>1 DEF Queued
  <2> QED
    BY <1>1, <2>1, <2>2, IngestInvKept
<1> QED
  BY <1>2, <1>3, <1>4, <1>5 DEF Next

\* The inductive invariant of the ingest path holds in the whole pipeline.
THEOREM IngestInvariance == Spec => []IngestInv
BY IngestInvInit, IngestInvStep, PTL DEF Spec

-----------------------------------------------------------------------------
\* A 202 names a trace that was committed, whichever of the commit, the
\* idempotency table and the P2002 handler produced it.
THEOREM AcksAreOfCommits == Spec => []AckNamesCommittedTrace
<1>1. IngestInv => AckNamesCommittedTrace
  <2> SUFFICES ASSUME IngestInv, NEW r \in Requests
               PROVE  /\ (code[r] = 202) <=> (ack[r] # NoAck)
                      /\ ack[r] # NoAck => /\ row[ack[r].receivedAt] # "none"
                                          /\ body[ack[r].receivedAt].trace = ack[r].trace
    BY DEF AckNamesCommittedTrace
  <2>1. (code[r] = 202) <=> (ack[r] # NoAck)
    BY DEF IngestInv, StagesAgree
  <2>2. ack[r] # NoAck => /\ row[ack[r].receivedAt] # "none"
                          /\ ack[r].trace = AckOf(ack[r].receivedAt).trace
    BY DEF IngestInv, AcksCommitted, CommitAck, Committed
  <2>3. \A x : AckOf(x).trace = body[x].trace
    BY DEF AckOf
  <2> QED
    BY <2>1, <2>2, <2>3
<1> QED
  BY <1>1, IngestInvariance, PTL

\* Any two clients told that a trace was accepted got the same ACK, unless
\* retention deleted one of the rows behind the two.
THEOREM ReplaysAgree == Spec => []OneAckPerTrace
<1>1. IngestInv => OneAckPerTrace
  <2> SUFFICES ASSUME IngestInv, NEW r \in Requests, NEW s \in Requests,
                      ack[r] # NoAck, ack[s] # NoAck, ack[r].trace = ack[s].trace,
                      row[ack[r].receivedAt] # "deleted", row[ack[s].receivedAt] # "deleted"
               PROVE  ack[r] = ack[s]
    BY DEF OneAckPerTrace
  <2> DEFINE x == ack[r].receivedAt
             y == ack[s].receivedAt
  <2>1. CommitAck(ack[r]) /\ CommitAck(ack[s])
    BY DEF IngestInv, AcksCommitted
  <2>2. /\ x \in Requests /\ row[x] = "live" /\ ack[r] = AckOf(x)
        /\ y \in Requests /\ row[y] = "live" /\ ack[s] = AckOf(y)
    BY <2>1, ApiShapes DEF CommitAck, Committed, IngestInv
  <2>3. body[x].trace = body[y].trace
    <3> HIDE DEF x, y
    <3> QED
      BY <2>2 DEF AckOf
  <2>4. x = y
    BY <2>2, <2>3 DEF IngestInv, LiveTracesDiffer
  <2> QED
    BY <2>2, <2>4
<1> QED
  BY <1>1, IngestInvariance, PTL

\* An ACK for another trace than the one posted takes an Idempotency-Key that
\* was also sent with that other trace.
THEOREM AcksAnswerPosts == Spec => []AckAnswersPost
<1>1. IngestInv => AckAnswersPost
  BY DEF IngestInv, KeysNameTraces
<1> QED
  BY <1>1, IngestInvariance, PTL

\* Nobody who was told 400 or 409 left a traces row behind.
THEOREM ClientErrorsLeaveNoRow == Spec => []ClientErrorLeavesNoRow
<1>1. IngestInv => ClientErrorLeavesNoRow
  BY DEF IngestInv, StagesAgree, ClientErrorLeavesNoRow
<1> QED
  BY <1>1, IngestInvariance, PTL

\* The index queue only ever holds rows that were committed and acknowledged.
THEOREM JobsAreOfAcceptedRows == Spec => []JobOnlyForAcceptedRow
<1>1. IngestInv => JobOnlyForAcceptedRow
  BY DEF IngestInv, QueuedWasAnswered, Queued, JobOnlyForAcceptedRow
<1> QED
  BY <1>1, IngestInvariance, PTL

\* Every payload_ref of a live row resolves to the payload that its content hash
\* was computed from, unless another request replaced the object.
THEOREM PayloadRefsAlwaysResolve == Spec => []PayloadRefsResolve
<1>1. IngestInv => PayloadRefsResolve
  <2> SUFFICES ASSUME IngestInv, NEW r \in Requests, row[r] = "live",
                      NEW i \in DOMAIN body[r].events, EventRow(body[r], i).payloadRef # NoRef
               PROVE  Stored(r, i)
    BY DEF PayloadRefsResolve, RefResolves, Stored, EventRow
  <2>1. Offloaded(body[r].events[i])
    BY DEF EventRow
  <2>2. body[r] # NoEnvelope
    BY NoEnvelopeIsNone DEF IngestInv, TypeInv, BodyReceived
  <2> QED
    BY <2>1, <2>2 DEF IngestInv, PayloadsStored
<1> QED
  BY <1>1, IngestInvariance, PTL

=============================================================================
