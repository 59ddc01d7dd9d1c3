------------------------- MODULE TracePipeline_proofs -------------------------
(***************************************************************************)
(* What the hash chain commits to, for events of any number and content,   *)
(* lemmas about what the store holds, and the type invariant of the        *)
(* pipeline, for any requests, envelopes, keys and workers.                *)
(*                                                                         *)
(* The chain is computed by recursion over the events; induction along the *)
(* interval 1 .. n is obtained from the pigeonhole argument of             *)
(* IntervalInduction, whose parameter is a set and not a predicate.        *)
(***************************************************************************)
EXTENDS TracePipeline, Integers, FiniteSetTheorems, FunctionTheorems,
        SequenceTheorems, TLAPS

\* A subset G of 1 .. n that holds 1 and, with k < n, k + 1 is all of 1 .. n:
\* otherwise k |-> k + 1 maps G and 0, one element more, into G.
LEMMA IntervalInduction ==
  ASSUME NEW n \in Nat, NEW G \in SUBSET (1 .. n),
         n >= 1 => 1 \in G,
         \A k \in G : k < n => k + 1 \in G
  PROVE  G = 1 .. n
<1>1. SUFFICES ASSUME NEW m \in 1 .. n, m \notin G
               PROVE  FALSE
  OBVIOUS
<1> DEFINE Below == G \cap (1 .. m)
           From  == Below \cup {0}
           f     == [k \in From |-> k + 1]
<1>2. IsFiniteSet(Below)
  <2>1. Below \in SUBSET (1 .. m)
    OBVIOUS
  <2>2. IsFiniteSet(1 .. m)
    BY FS_Interval
  <2> QED
    BY <2>1, <2>2, FS_Subset
<1>3. f \in Injection(From, Below)
  <2>1. \A k \in From : k + 1 \in Below
    <3> TAKE k \in From
    <3>1. CASE k = 0
      BY <3>1, <1>1
    <3>2. CASE k \in Below
      BY <3>2, <1>1
    <3> QED
      BY <3>1, <3>2
  <2>2. \A j, k \in From : j + 1 = k + 1 => j = k
    OBVIOUS
  <2> QED
    BY <2>1, <2>2, Fun_IsInj DEF Injection, IsInjective
<1>4. Cardinality(From) = Cardinality(Below) + 1
  <2>1. 0 \notin Below
    OBVIOUS
  <2> QED
    BY <2>1, <1>2, FS_AddElement
<1>5. Cardinality(From) <= Cardinality(Below)
  <2> HIDE DEF f, From, Below
  <2> QED
    BY <1>2, <1>3, FS_Injection
<1>6. Cardinality(Below) \in Nat
  BY <1>2, FS_CardinalityType
<1> QED
  BY <1>4, <1>5, <1>6

-----------------------------------------------------------------------------
\* A prefix is the one before it with one more element.
LEMMA PrefixStep ==
  ASSUME NEW S, NEW contents \in Seq(S), NEW i \in 1 .. Len(contents)
  PROVE  /\ SubSeq(contents, 1, i) = Append(SubSeq(contents, 1, i - 1), contents[i])
         /\ i = 1 => SubSeq(contents, 1, i - 1) = <<>>
<1>1. SubSeq(contents, 1, i) = SubSeq(contents, 1, i - 1) \o <<contents[i]>>
  <2>1. 1 \in 1 .. Len(contents) /\ i \in 1 .. Len(contents)
    OBVIOUS
  <2> QED
    BY <2>1, SubSeqRecursiveSecond
<1>2. SubSeq(contents, 1, i - 1) \in Seq(S) /\ contents[i] \in S
  BY SubSeqProperties
<1>3. i = 1 => SubSeq(contents, 1, i - 1) = <<>>
  BY SubSeqEmpty
<1> QED
  BY <1>1, <1>2, <1>3

\* The step of the recursion in computeEventChain.
ChainStep(contents, chain, i) ==
  ChainHash(IF i = 1 THEN GENESIS_HASH ELSE chain[i - 1], contents[i])

\* The function computeEventChain builds satisfies its recursion equation: the
\* prefixes of the contents are a solution of it.
LEMMA ChainEquation ==
  ASSUME NEW S, NEW contents \in Seq(S)
  PROVE  ComputeEventChain(contents) =
           [i \in 1 .. Len(contents) |-> ChainStep(contents, ComputeEventChain(contents), i)]
<1> DEFINE prefixes == [i \in 1 .. Len(contents) |-> SubSeq(contents, 1, i)]
           Equation(g) == g = [i \in 1 .. Len(contents) |->
             ChainHash(IF i = 1 THEN GENESIS_HASH ELSE g[i - 1], contents[i])]
<1>1. Equation(prefixes)
  <2>1. \A i \in 1 .. Len(contents) :
          prefixes[i] = ChainHash(IF i = 1 THEN GENESIS_HASH ELSE prefixes[i - 1], contents[i])
    <3> TAKE i \in 1 .. Len(contents)
    <3>1. CASE i = 1
      BY <3>1, PrefixStep DEF ChainHash, GENESIS_HASH
    <3>2. CASE i # 1
      BY <3>2, PrefixStep DEF ChainHash
    <3> QED
      BY <3>1, <3>2
  <2> QED
    BY <2>1
<1>2. ComputeEventChain(contents) = CHOOSE g : Equation(g)
  BY DEF ComputeEventChain
<1>3. Equation(CHOOSE g : Equation(g))
  <2> HIDE DEF Equation, prefixes
  <2> QED
    BY <1>1
<1> QED
  BY <1>2, <1>3 DEF ChainStep

\* The chain hash after event i commits to the content hashes of the first i
\* events, in their order.
THEOREM ChainCommitsToPrefix ==
  ASSUME NEW S, NEW contents \in Seq(S)
  PROVE  ComputeEventChain(contents) = [i \in 1 .. Len(contents) |-> SubSeq(contents, 1, i)]
<1> DEFINE chain == ComputeEventChain(contents)
           Good  == {i \in 1 .. Len(contents) : chain[i] = SubSeq(contents, 1, i)}
<1>1. chain = [i \in 1 .. Len(contents) |-> ChainStep(contents, chain, i)]
  BY ChainEquation
<1> HIDE DEF chain
<1>2. Len(contents) >= 1 => 1 \in Good
  <2> SUFFICES ASSUME Len(contents) >= 1
               PROVE  1 \in Good
    OBVIOUS
  <2>1. 1 \in 1 .. Len(contents)
    OBVIOUS
  <2>2. SubSeq(contents, 1, 1) = Append(<<>>, contents[1])
    BY <2>1, PrefixStep
  <2>3. chain[1] = Append(<<>>, contents[1])
    BY <1>1, <2>1 DEF ChainStep, ChainHash, GENESIS_HASH
  <2> QED
    BY <2>1, <2>2, <2>3
<1>3. \A k \in Good : k < Len(contents) => k + 1 \in Good
  <2> SUFFICES ASSUME NEW k \in Good, k < Len(contents)
               PROVE  k + 1 \in Good
    OBVIOUS
  <2>1. k + 1 \in 1 .. Len(contents) /\ k + 1 # 1 /\ (k + 1) - 1 = k
    OBVIOUS
  <2>2. SubSeq(contents, 1, k + 1) = Append(SubSeq(contents, 1, k), contents[k + 1])
    BY <2>1, PrefixStep
  <2>3. chain[k + 1] = Append(chain[k], contents[k + 1])
    BY <1>1, <2>1 DEF ChainStep, ChainHash
  <2> QED
    BY <2>1, <2>2, <2>3
<1>4. Good = 1 .. Len(contents)
  <2>1. Good \in SUBSET (1 .. Len(contents)) /\ Len(contents) \in Nat
    OBVIOUS
  <2> HIDE DEF Good
  <2> QED
    BY <2>1, <1>2, <1>3, IntervalInduction
<1>5. \A i \in 1 .. Len(contents) : chain[i] = SubSeq(contents, 1, i)
  BY <1>4
<1> QED
  BY <1>1, <1>5 DEF chain

\* sealTrace commits to the whole sequence of content hashes.
LEMMA SealIsContents ==
  ASSUME NEW S, NEW contents \in Seq(S)
  PROVE  SealTrace(contents) = contents
<1>1. CASE contents = <<>>
  BY <1>1 DEF SealTrace, GENESIS_HASH
<1>2. CASE contents # <<>>
  <2>1. Len(contents) \in 1 .. Len(contents)
    BY <1>2
  <2> QED
    BY <1>2, <2>1, ChainCommitsToPrefix, SubSeqFull DEF SealTrace
<1> QED
  BY <1>1, <1>2

\* Two traces with one seal hold the same events: no event was changed, added,
\* dropped or moved.
THEOREM SealIsTamperEvident ==
  ASSUME NEW S, NEW c \in Seq(S), NEW d \in Seq(S), SealTrace(c) = SealTrace(d)
  PROVE  c = d
BY SealIsContents

\* HashChainProcessor.verifyChain accepts only rows whose last chain hash is the
\* seal of their content hashes.
THEOREM VerifyChainIsSound ==
  ASSUME NEW S, NEW rows \in Seq([contentHash : S, chainHash : Seq(S)]),
         ChainVerifies(rows)
  PROVE  VerifiedHash(rows) = SealTrace([i \in DOMAIN rows |-> rows[i].contentHash])
<1> DEFINE contents == [i \in DOMAIN rows |-> rows[i].contentHash]
           Good == {i \in 1 .. Len(rows) : rows[i].chainHash = SubSeq(contents, 1, i)}
<1>0. /\ Len(rows) \in Nat /\ DOMAIN rows = 1 .. Len(rows)
      /\ \A i \in 1 .. Len(rows) : rows[i] \in [contentHash : S, chainHash : Seq(S)]
  BY LenProperties, ElementOfSeq
<1>1. contents \in Seq(S) /\ Len(contents) = Len(rows)
  <2>1. contents \in [1 .. Len(rows) -> S]
    BY <1>0
  <2> QED
    BY <1>0, <2>1
<1>2. Len(rows) >= 1 => 1 \in Good
  <2> SUFFICES ASSUME Len(rows) >= 1
               PROVE  1 \in Good
    OBVIOUS
  <2>1. 1 \in 1 .. Len(rows)
    BY <1>0
  <2>2. SubSeq(contents, 1, 1) = Append(<<>>, contents[1])
    BY <1>1, <2>1, PrefixStep
  <2>3. rows[1].chainHash = Append(<<>>, contents[1])
    BY <1>0, <2>1 DEF ChainVerifies, PreviousHash, ChainHash, GENESIS_HASH
  <2> QED
    BY <2>1, <2>2, <2>3
<1>3. \A k \in Good : k < Len(rows) => k + 1 \in Good
  <2> SUFFICES ASSUME NEW k \in Good, k < Len(rows)
               PROVE  k + 1 \in Good
    OBVIOUS
  <2>1. k + 1 \in 1 .. Len(rows) /\ k + 1 # 1 /\ (k + 1) - 1 = k
    BY <1>0
  <2>2. SubSeq(contents, 1, k + 1) = Append(SubSeq(contents, 1, k), contents[k + 1])
    BY <1>1, <2>1, PrefixStep
  <2>3. rows[k + 1].chainHash = Append(rows[k].chainHash, contents[k + 1])
    BY <1>0, <2>1 DEF ChainVerifies, PreviousHash, ChainHash
  <2> QED
    BY <2>1, <2>2, <2>3
<1>4. Good = 1 .. Len(rows)
  <2>1. Good \in SUBSET (1 .. Len(rows)) /\ Len(rows) \in Nat
    OBVIOUS
  <2> HIDE DEF Good
  <2> QED
    BY <2>1, <1>2, <1>3, IntervalInduction
<1>5. CASE rows = <<>>
  BY <1>5 DEF VerifiedHash, SealTrace
<1>6. CASE rows # <<>>
  <2>1. Len(rows) \in 1 .. Len(rows)
    BY <1>0, <1>6, EmptySeq
  <2>2. SubSeq(contents, 1, Len(contents)) = contents
    BY <1>1, SubSeqFull
  <2>3. SealTrace(contents) = contents
    BY <1>1, SealIsContents
  <2> QED
    BY <1>1, <1>4, <1>6, <2>1, <2>2, <2>3 DEF VerifiedHash
<1> QED
  BY <1>5, <1>6

-----------------------------------------------------------------------------

\* The fields of an envelope.
LEMMA EnvelopeFields ==
  ASSUME NEW e \in Envelopes
  PROVE  /\ e \in Envelope
         /\ e.trace \in TraceIds
         /\ e.status \in Statuses \cup {"unset"}
         /\ e.events \in Seq(Event)
         /\ Len(e.events) \in Nat
         /\ DOMAIN e.events = 1 .. Len(e.events)
         /\ \A i \in DOMAIN e.events : e.events[i] \in Event
         /\ e.valid \in BOOLEAN
<1>1. e \in Envelope
  BY EnvelopesAssumption
<1>2. /\ e.trace \in TraceIds
      /\ e.status \in Statuses \cup {"unset"}
      /\ e.events \in Seq(Event)
      /\ e.valid \in BOOLEAN
  BY <1>1 DEF Envelope
<1> HIDE DEF Event
<1> QED
  BY <1>1, <1>2, LenProperties, ElementOfSeq

\* The absent envelope is none that is sent.
LEMMA NoEnvelopeIsNone == NoEnvelope \notin Envelopes
BY NoValuesAssumption

\* The content hashes of an envelope, one for each event.
LEMMA ContentHashesSeq ==
  ASSUME NEW e \in Envelopes
  PROVE  /\ ContentHashes(e) \in Seq({ContentHash(x) : x \in Event})
         /\ Len(ContentHashes(e)) = Len(e.events)
         /\ DOMAIN ContentHashes(e) = 1 .. Len(e.events)
<1> DEFINE n == Len(e.events)
           H == {ContentHash(x) : x \in Event}
<1>1. n \in Nat /\ DOMAIN e.events = 1 .. n /\ \A i \in 1 .. n : e.events[i] \in Event
  BY EnvelopeFields
<1> HIDE DEF n
<1>2. ContentHashes(e) \in [1 .. n -> H]
  BY <1>1 DEF ContentHashes
<1> HIDE DEF H
<1> QED
  BY <1>1, <1>2 DEF n, H

\* The rows of an envelope, sorted by sequence_index, are the events in the
\* order of the envelope, whatever order the database returns them in.
LEMMA RowsInOrder ==
  ASSUME NEW e \in Envelopes
  PROVE  BySequenceIndex(EventRows(e)) = [i \in 1 .. Len(e.events) |-> EventRow(e, i)]
<1> DEFINE n == Len(e.events)
           rows == EventRows(e)
<1>1. n \in Nat /\ rows = {EventRow(e, i) : i \in 1 .. n}
  BY EnvelopeFields DEF EventRows
<1>2. \A i \in 1 .. n : EventRow(e, i).sequenceIndex + 1 = i
  BY <1>1 DEF EventRow
<1>3. {x.sequenceIndex + 1 : x \in rows} = 1 .. n
  BY <1>1, <1>2
<1>4. \A i \in 1 .. n : (CHOOSE x \in rows : x.sequenceIndex + 1 = i) = EventRow(e, i)
  <2> HIDE DEF n, rows
  <2> TAKE i \in 1 .. n
  <2>1. EventRow(e, i) \in rows /\ EventRow(e, i).sequenceIndex + 1 = i
    BY <1>1, <1>2
  <2>2. \A x \in rows : x.sequenceIndex + 1 = i => x = EventRow(e, i)
    BY <1>1, <1>2
  <2> QED
    BY <2>1, <2>2
<1> HIDE DEF n, rows
<1> QED
  BY <1>3, <1>4 DEF BySequenceIndex, n, rows

\* The rows ingest stores pass verifyChain, which returns the seal of what was
\* posted.
LEMMA IngestedRowsVerify ==
  ASSUME NEW e \in Envelopes
  PROVE  /\ ChainVerifies(BySequenceIndex(EventRows(e)))
         /\ VerifiedHash(BySequenceIndex(EventRows(e))) = SealTrace(ContentHashes(e))
<1> DEFINE n == Len(e.events)
           c == ContentHashes(e)
           rows == BySequenceIndex(EventRows(e))
           H == {ContentHash(x) : x \in Event}
<1>1. c \in Seq(H) /\ Len(c) = n /\ DOMAIN c = 1 .. n /\ n \in Nat
  BY ContentHashesSeq, EnvelopeFields
<1>2. rows = [i \in 1 .. n |-> EventRow(e, i)]
  BY RowsInOrder
<1>3. \A i \in 1 .. n : /\ rows[i].contentHash = c[i]
                        /\ rows[i].chainHash = ComputeEventChain(c)[i]
  BY <1>2 DEF EventRow, ChainHashes
<1>4. ComputeEventChain(c) = [i \in 1 .. n |-> ChainStep(c, ComputeEventChain(c), i)]
  <2> HIDE DEF c, n, H
  <2> QED
    BY <1>1, ChainEquation
<1>5. DOMAIN rows = 1 .. n
  BY <1>2
<1> HIDE DEF c, n, H, rows
<1>6. ASSUME NEW i \in 1 .. n
      PROVE  rows[i].chainHash = ChainHash(PreviousHash(rows, i), rows[i].contentHash)
  <2>1. rows[i].chainHash = ChainStep(c, ComputeEventChain(c), i)
    BY <1>3, <1>4
  <2>2. CASE i = 1
    BY <1>3, <2>1, <2>2 DEF ChainStep, PreviousHash
  <2>3. CASE i # 1
    <3>1. i - 1 \in 1 .. n
      BY <1>1, <2>3
    <3> QED
      BY <1>3, <2>1, <2>3, <3>1 DEF ChainStep, PreviousHash
  <2> QED
    BY <2>2, <2>3
<1>7. ChainVerifies(rows)
  BY <1>5, <1>6 DEF ChainVerifies
<1>8. VerifiedHash(rows) = SealTrace(c)
  <2>1. CASE n = 0
    <3>1. rows = <<>> /\ c = <<>>
      BY <1>1, <1>2, <2>1
    <3> QED
      BY <3>1 DEF VerifiedHash, SealTrace
  <2>2. CASE n # 0
    <3>1. n \in 1 .. n /\ c # <<>>
      BY <1>1, <2>2
    <3>2. rows # <<>> /\ Len(rows) = n
      BY <1>1, <1>2, <3>1
    <3> QED
      BY <1>1, <1>3, <3>1, <3>2 DEF VerifiedHash, SealTrace
  <2> QED
    BY <2>1, <2>2
<1> QED
  BY <1>7, <1>8 DEF rows, c

\* A trace whose rows are gone verifies trivially.
LEMMA NoRowsVerify ==
  /\ ChainVerifies(BySequenceIndex({}))
  /\ VerifiedHash(BySequenceIndex({})) = GENESIS_HASH
<1>1. BySequenceIndex({}) = <<>>
  BY DEF BySequenceIndex
<1> QED
  BY <1>1 DEF ChainVerifies, VerifiedHash

-----------------------------------------------------------------------------
\* An acknowledgement of a received request is a well-formed response.
LEMMA AckOfType ==
  ASSUME NEW r \in Requests, body[r] \in Envelopes
  PROVE  AckOf(r) \in Ack /\ AckOf(r) # NoAck
<1>1. AckOf(r) \in Ack
  BY EnvelopeFields DEF AckOf, Ack
<1> QED
  BY <1>1, NoValuesAssumption DEF Ack

\* A seal that a pass computes from the rows it read can be stored.
LEMMA FinalChainHashType ==
  ASSUME NEW w \in Workers, wevents[w] \in {{}} \cup {EventRows(e) : e \in Envelopes}
  PROVE  FinalChainHash(w) \in Hashes
<1>1. CASE wevents[w] = {}
  BY <1>1, NoRowsVerify DEF FinalChainHash, Hashes
<1>2. CASE wevents[w] \in {EventRows(e) : e \in Envelopes}
  <2>1. PICK e \in Envelopes : wevents[w] = EventRows(e)
    BY <1>2
  <2> QED
    BY <2>1, IngestedRowsVerify DEF FinalChainHash, Hashes
<1> QED
  BY <1>1, <1>2

\* What resolveStatus returns is a status.
LEMMA ResolveType ==
  ASSUME NEW s \in Statuses, NEW types
  PROVE  Resolve(s, types) \in Statuses
BY DEF Resolve, Statuses

\* What a request that is past "idle" has, and only it can have.  With it the
\* types are inductive.
BodyReceived ==
  \A r \in Requests :
    /\ pc[r] # "idle" => body[r] \in Envelopes
    /\ row[r] # "none" => pc[r] # "idle"
    /\ \A i \in puts[r] : pc[r] # "idle" /\ i \in DOMAIN body[r].events

\* A worker that left "idle" has a job.
HasJob == \A w \in Workers : wpc[w] # "idle" => wjob[w] \in Requests

TypeInv == TypeOK /\ BodyReceived /\ HasJob

\* The types hold initially.
LEMMA TypeInit == Init => TypeInv
<1> SUFFICES ASSUME Init PROVE TypeInv
  OBVIOUS
<1> USE DEF Init, IngestInit, IndexerInit, StoreInit, ApiInit
<1>1. StoreTypeOK
  BY DEF StoreTypeOK, Hashes, Statuses
<1>2. IngestTypeOK
  BY <1>1 DEF IngestTypeOK, Running
<1>3. IndexerTypeOK
  BY <1>1 DEF IndexerTypeOK, Statuses, Reasons
<1>4. BodyReceived /\ HasJob
  BY DEF BodyReceived, HasJob
<1> QED
  BY <1>2, <1>3, <1>4 DEF TypeInv, TypeOK

\* The transaction of createFromIngest keeps the types of the tables.
LEMMA CommitTypes ==
  ASSUME StoreTypeOK, NEW r \in Requests, body[r] \in Envelopes,
         CreateFromIngest(r), UNCHANGED <<body, idempotency, objects, job>>
  PROVE  StoreTypeOK'
<1>1. InitialStatus(body[r]) \in Statuses
  BY EnvelopeFields DEF InitialStatus, Statuses
<1>2. SealTrace(ContentHashes(body[r])) \in Hashes
  BY DEF Hashes
<1>3. EventRows(body[r]) \in {EventRows(e) : e \in Envelopes}
  OBVIOUS
<1> QED
  BY <1>1, <1>2, <1>3 DEF StoreTypeOK, CreateFromIngest

\* A put writes a payload in the place of an object.
LEMMA ObjectPutTypes ==
  ASSUME StoreTypeOK, NEW r \in Requests, body[r] \in Envelopes,
         NEW i \in DOMAIN body[r].events
  PROVE  ObjectPut(r, i) \in [ObjectKeys -> Payloads \cup {NoObject}]
<1>1. body[r].events[i].payload \in Payloads
  BY EnvelopeFields DEF Event
<1> QED
  BY <1>1 DEF ObjectPut, StoreTypeOK

\* One step of the API, by the request that takes it.
ApiStep(r) ==
  \/ \E post \in Posts : Receive(r, post)
  \/ ReplayCached(r) \/ RejectInvalid(r) \/ StartOffload(r)
  \/ \E i \in puts[r] : PutLands(r, i) \/ PutFails(r, i)
  \/ CommitTrace(r) \/ CommitRefused(r) \/ CommitFails(r)
  \/ StoreKey(r) \/ StoreKeyFails(r)
  \/ AnswerDuplicate(r) \/ LookupFails(r) \/ Respond(r)
  \/ PublishLands(r) \/ PublishFails(r) \/ Crash(r)

\* A step of the API is one of a request.
LEMMA ApiNextIsStep == ApiNext => \E r \in Requests : ApiStep(r)
BY DEF ApiNext, ApiStep, ApiProgress, ApiFailure

\* The steps of the API keep the types.
LEMMA ApiTypes ==
  ASSUME TypeInv, NEW r \in Requests, ApiStep(r)
  PROVE  IngestTypeOK'
<1> USE DEF TypeInv, TypeOK, IngestTypeOK, BodyReceived, storeVars
<1>0. UNCHANGED storeVars => StoreTypeOK'
  BY DEF StoreTypeOK, tableVars
<1>1. CASE \E post \in Posts : Receive(r, post)
  <2>1. StoreTypeOK'
    BY <1>1, PostsAssumption DEF Receive, StoreTypeOK, tableVars
  <2> QED
    BY <1>1, <2>1, PostsAssumption DEF Receive, Goto, Running
<1>2. CASE ReplayCached(r)
  <2>1. Cached(r) \in Ack \cup {NoAck}
    BY DEF Cached, StoreTypeOK
  <2> QED
    BY <1>0, <1>2, <2>1 DEF ReplayCached, Answer, Goto
<1>3. CASE RejectInvalid(r)
  BY <1>0, <1>3 DEF RejectInvalid, Answer, Goto
<1>4. CASE StartOffload(r)
  <2>1. body[r] \in Envelopes
    BY <1>4 DEF StartOffload
  <2>2. DOMAIN body[r].events = 1 .. Len(body[r].events)
    BY <2>1, EnvelopeFields
  <2>3. {i \in DOMAIN body[r].events : Offloaded(body[r].events[i])} \in SUBSET Nat
    BY <2>2
  <2> QED
    BY <1>0, <1>4, <2>3 DEF StartOffload, Goto, Running
<1>5. CASE \E i \in puts[r] : PutLands(r, i)
  <2>1. PICK i \in puts[r] : PutLands(r, i)
    BY <1>5
  <2>2. body[r] \in Envelopes /\ i \in DOMAIN body[r].events
    BY <2>1
  <2>3. ObjectPut(r, i) \in [ObjectKeys -> Payloads \cup {NoObject}]
    BY <2>2, ObjectPutTypes
  <2>4. StoreTypeOK'
    BY <2>1, <2>3 DEF PutLands, StoreTypeOK, tableVars
  <2>5. puts' \in [Requests -> SUBSET Nat]
    BY <2>1 DEF PutLands
  <2> QED
    BY <2>1, <2>4, <2>5 DEF PutLands
<1>6. CASE \E i \in puts[r] : PutFails(r, i)
  <2>1. PICK i \in puts[r] : PutFails(r, i)
    BY <1>6
  <2>2. body[r] \in Envelopes /\ i \in DOMAIN body[r].events
    BY <2>1
  <2>3. ObjectPut(r, i) \in [ObjectKeys -> Payloads \cup {NoObject}]
    BY <2>2, ObjectPutTypes
  <2>4. StoreTypeOK'
    BY <2>1, <2>3 DEF PutFails, StoreTypeOK, tableVars
  <2> QED
    BY <2>1, <2>4 DEF PutFails, Answer, Goto
<1>7. CASE CommitTrace(r)
  <2>1. StoreTypeOK'
    BY <1>7, CommitTypes DEF CommitTrace, OffloadDone
  <2> QED
    BY <1>7, <2>1 DEF CommitTrace, AfterCommit, Goto, Running
<1>8. CASE CommitRefused(r)
  BY <1>0, <1>8 DEF CommitRefused, Goto, Running
<1>9. CASE CommitFails(r)
  <2>1. StoreTypeOK'
    <3>1. CASE UNCHANGED tableVars
      BY <1>0, <1>9, <3>1 DEF CommitFails
    <3>2. CASE CreateFromIngest(r)
      BY <1>9, <3>2, CommitTypes DEF CommitFails, OffloadDone
    <3> QED
      BY <1>9, <3>1, <3>2 DEF CommitFails
  <2> QED
    BY <1>9, <2>1 DEF CommitFails, Answer, Goto
<1>10. CASE StoreKey(r) \/ StoreKeyFails(r)
  <2>1. AckOf(r) \in Ack
    BY <1>10, AckOfType DEF StoreKey, StoreKeyFails
  <2>2. StoreTypeOK'
    BY <1>10, <2>1 DEF StoreKey, StoreKeyFails, StoreTypeOK, tableVars
  <2> QED
    BY <1>10, <2>2 DEF StoreKey, StoreKeyFails, Answer, Goto, Running
<1>11. CASE AnswerDuplicate(r) \/ LookupFails(r)
  <2>1. \A x \in Existing(r) : x \in Requests /\ AckOf(x) \in Ack
    BY AckOfType DEF Existing
  <2> QED
    BY <1>0, <1>11, <2>1 DEF AnswerDuplicate, LookupFails, Answer, Goto
<1>12. CASE Respond(r)
  <2>1. AckOf(r) \in Ack
    BY <1>12, AckOfType DEF Respond
  <2> QED
    BY <1>0, <1>12, <2>1 DEF Respond, Answer, Goto
<1>13. CASE PublishLands(r)
  <2>1. StoreTypeOK'
    BY <1>13 DEF PublishLands, AddJob, StoreTypeOK, tableVars
  <2> QED
    BY <1>13, <2>1 DEF PublishLands
<1>14. CASE PublishFails(r)
  BY <1>0, <1>14 DEF PublishFails
<1>15. CASE Crash(r)
  BY <1>0, <1>15 DEF Crash
<1> QED
  BY <1>1, <1>2, <1>3, <1>4, <1>5, <1>6, <1>7, <1>8, <1>9, <1>10, <1>11, <1>12,
     <1>13, <1>14, <1>15 DEF ApiStep

\* The steps of the API keep BodyReceived.
LEMMA ApiBodies ==
  ASSUME TypeInv, NEW r \in Requests, ApiStep(r)
  PROVE  BodyReceived'
<1> SUFFICES ASSUME NEW q \in Requests
             PROVE  /\ pc'[q] # "idle" => body'[q] \in Envelopes
                    /\ row'[q] # "none" => pc'[q] # "idle"
                    /\ \A i \in puts'[q] : pc'[q] # "idle" /\ i \in DOMAIN body'[q].events
  BY DEF BodyReceived
<1>0. /\ pc[q] # "idle" => body[q] \in Envelopes
      /\ row[q] # "none" => pc[q] # "idle"
      /\ \A i \in puts[q] : pc[q] # "idle" /\ i \in DOMAIN body[q].events
  BY DEF TypeInv, BodyReceived
<1>t. /\ pc \in [Requests -> Running \cup {"idle", "done", "crashed"}]
      /\ body \in [Requests -> Envelopes \cup {NoEnvelope}]
      /\ row \in [Requests -> {"none", "live", "deleted"}]
      /\ puts \in [Requests -> SUBSET Nat]
  BY DEF TypeInv, TypeOK, IngestTypeOK, StoreTypeOK
<1> USE <1>0, <1>t DEF storeVars, tableVars
<1>1. CASE \E post \in Posts : Receive(r, post)
  BY <1>1, PostsAssumption DEF Receive, Goto
<1>2. CASE ReplayCached(r) \/ RejectInvalid(r)
  BY <1>2 DEF ReplayCached, RejectInvalid, Answer, Goto
<1>3. CASE StartOffload(r)
  BY <1>3 DEF StartOffload, Goto
<1>4. CASE \E i \in puts[r] : PutLands(r, i) \/ PutFails(r, i)
  BY <1>4 DEF PutLands, PutFails, Answer, Goto
<1>5. CASE CommitTrace(r) \/ CommitRefused(r)
  BY <1>5 DEF CommitTrace, CommitRefused, OffloadDone, CreateFromIngest, AfterCommit, Goto
<1>6. CASE CommitFails(r)
  BY <1>6 DEF CommitFails, OffloadDone, CreateFromIngest, Answer, Goto
<1>7. CASE StoreKey(r) \/ StoreKeyFails(r)
  BY <1>7 DEF StoreKey, StoreKeyFails, Answer, Goto
<1>8. CASE AnswerDuplicate(r) \/ LookupFails(r) \/ Respond(r)
  BY <1>8 DEF AnswerDuplicate, LookupFails, Respond, Answer, Goto
<1>9. CASE PublishLands(r) \/ PublishFails(r)
  BY <1>9 DEF PublishLands, PublishFails
<1>10. CASE Crash(r)
  BY <1>10 DEF Crash, Running
<1> QED
  BY <1>1, <1>2, <1>3, <1>4, <1>5, <1>6, <1>7, <1>8, <1>9, <1>10 DEF ApiStep

-----------------------------------------------------------------------------
\* One step of the worker or of BullMQ.
LEMMA ThrowTypes ==
  ASSUME TypeInv, NEW w \in Workers, wpc[w] # "idle", NEW reason \in Reasons,
         Throw(w, reason)
  PROVE  (IndexerTypeOK /\ HasJob)'
<1> USE DEF TypeInv, TypeOK, IndexerTypeOK, HasJob
<1>1. wjob[w] \in Requests
  OBVIOUS
<1>2. StoreTypeOK'
  BY <1>1 DEF Throw, StoreTypeOK, tableVars
<1>3. HasJob'
  BY DEF Throw, Idle, WorkerAt
<1>4. /\ wpc' \in [Workers -> {"idle", "read", "readEvents", "project", "seal", "finish"}]
      /\ wjob' \in [Workers -> Requests \cup {NoJob}]
      /\ wstatus' \in [Workers -> Statuses]
      /\ wevents' \in [Workers -> {{}} \cup {EventRows(e) : e \in Envelopes}]
      /\ wpass' \in [Workers -> Nat]
  BY DEF Throw, Idle, WorkerAt, Statuses
<1>5. /\ lockOwner' \in [Requests -> Workers \cup {NoWorker}]
      /\ passes' \in [Requests -> Nat]
      /\ stalls' \in [Requests -> Nat]
      /\ attemptsMade' \in [Requests -> Nat]
      /\ failedReason' \in [Requests -> Reasons]
      /\ dlq' \subseteq Requests
  BY <1>1 DEF Throw
<1> QED
  BY <1>2, <1>3, <1>4, <1>5

\* The steps of the worker and of its queue keep the types.
LEMMA IndexerTypes ==
  ASSUME TypeInv, IndexerNext
  PROVE  (IndexerTypeOK /\ HasJob)'
<1> USE DEF TypeInv, TypeOK, IndexerTypeOK, HasJob, storeVars, queueVars, workerVars
<1>0. UNCHANGED storeVars => StoreTypeOK'
  BY DEF StoreTypeOK, tableVars
<1>1. CASE \E w \in Workers, r \in Requests : TakeJob(w, r)
  <2>1. StoreTypeOK'
    BY <1>1 DEF TakeJob, StoreTypeOK, tableVars
  <2> QED
    BY <1>1, <2>1 DEF TakeJob, WorkerAt
<1>2. ASSUME NEW w \in Workers, ReadTrace(w)
      PROVE  (IndexerTypeOK /\ HasJob)'
  <2>1. wjob[w] \in Requests /\ status[wjob[w]] \in Statuses
    BY <1>2 DEF ReadTrace, StoreTypeOK
  <2> QED
    BY <1>0, <1>2, <2>1 DEF ReadTrace, WorkerAt
<1>3. ASSUME NEW w \in Workers, TraceMissing(w) \/ DatabaseFails(w)
      PROVE  (IndexerTypeOK /\ HasJob)'
  <2>1. wpc[w] # "idle" /\ \E reason \in Reasons : Throw(w, reason)
    BY <1>3 DEF TraceMissing, DatabaseFails, Reasons
  <2> QED
    BY <2>1, ThrowTypes
<1>4. ASSUME NEW w \in Workers, ReadEvents(w)
      PROVE  (IndexerTypeOK /\ HasJob)'
  <2>1. CASE ChainVerifies(BySequenceIndex(events[wjob[w]]))
    <3>1. wjob[w] \in Requests
      BY <1>4 DEF ReadEvents
    <3>2. events[wjob[w]] \in {{}} \cup {EventRows(e) : e \in Envelopes}
      BY <3>1 DEF StoreTypeOK
    <3>3. /\ wevents' = [wevents EXCEPT ![w] = events[wjob[w]]]
          /\ wpc' = [wpc EXCEPT ![w] = "project"]
          /\ UNCHANGED <<wjob, wstatus, wpass, queueVars, storeVars>>
      BY <1>4, <2>1 DEF ReadEvents, WorkerAt
    <3>4. wevents' \in [Workers -> {{}} \cup {EventRows(e) : e \in Envelopes}]
      BY <3>2, <3>3
    <3>5. HasJob'
      BY <1>4, <3>3 DEF ReadEvents
    <3> QED
      BY <1>0, <3>3, <3>4, <3>5
  <2>2. CASE ~ ChainVerifies(BySequenceIndex(events[wjob[w]]))
    BY <1>4, <2>2, ThrowTypes DEF ReadEvents, Reasons
  <2> QED
    BY <2>1, <2>2
<1>5. ASSUME NEW w \in Workers, Project(w)
      PROVE  (IndexerTypeOK /\ HasJob)'
  <2>1. CASE row[wjob[w]] = "live"
    <3>1. StoreTypeOK'
      BY <1>5, <2>1 DEF Project, StoreTypeOK
    <3> QED
      BY <1>5, <2>1, <3>1 DEF Project, WorkerAt
  <2>2. CASE row[wjob[w]] # "live"
    BY <1>5, <2>2, ThrowTypes DEF Project, Reasons
  <2> QED
    BY <2>1, <2>2
<1>6. ASSUME NEW w \in Workers, SealIfTerminal(w)
      PROVE  (IndexerTypeOK /\ HasJob)'
  <2>1. CASE ResolvedStatus(w) = "in_progress"
    BY <1>0, <1>6, <2>1 DEF SealIfTerminal, WorkerAt
  <2>2. CASE ResolvedStatus(w) # "in_progress" /\ row[wjob[w]] = "live"
    <3>1. ResolvedStatus(w) \in Statuses /\ FinalChainHash(w) \in Hashes
      BY ResolveType, FinalChainHashType DEF ResolvedStatus
    <3>2. wjob[w] \in Requests
      BY <1>6 DEF SealIfTerminal
    <3>3. CompletedAt(w) \in Nat
      BY <3>2 DEF CompletedAt, StoreTypeOK
    <3>4. StoreTypeOK'
      BY <1>6, <2>2, <3>1, <3>3 DEF SealIfTerminal, StoreTypeOK
    <3> QED
      BY <1>6, <2>2, <3>4 DEF SealIfTerminal, WorkerAt
  <2>3. CASE ResolvedStatus(w) # "in_progress" /\ row[wjob[w]] # "live"
    BY <1>6, <2>3, ThrowTypes DEF SealIfTerminal, Reasons
  <2> QED
    BY <2>1, <2>2, <2>3
<1>7. ASSUME NEW w \in Workers, Finish(w) \/ WorkerCrash(w)
      PROVE  (IndexerTypeOK /\ HasJob)'
  <2>1. StoreTypeOK'
    BY <1>7 DEF Finish, WorkerCrash, StoreTypeOK, tableVars
  <2>2. /\ Idle(w) /\ UNCHANGED <<passes, stalls, attemptsMade, failedReason, dlq>>
        /\ lockOwner' \in [Requests -> Workers \cup {NoWorker}]
    BY <1>7 DEF Finish, WorkerCrash
  <2> QED
    BY <2>1, <2>2 DEF Idle, WorkerAt, Statuses
<1>8. ASSUME NEW r \in Requests, Stall(r)
      PROVE  (IndexerTypeOK /\ HasJob)'
  <2>1. StoreTypeOK'
    BY <1>8 DEF Stall, StoreTypeOK, tableVars
  <2> QED
    BY <1>8, <2>1 DEF Stall, Reasons
<1> QED
  BY <1>1, <1>2, <1>3, <1>4, <1>5, <1>6, <1>7, <1>8 DEF IndexerNext, Work

-----------------------------------------------------------------------------
\* Retention keeps the types.
LEMMA ExpireTypes ==
  ASSUME TypeInv, Expire, UNCHANGED indexerVars
  PROVE  TypeInv'
<1> USE DEF TypeInv, TypeOK, IngestTypeOK, IndexerTypeOK, BodyReceived, HasJob,
            apiVars, indexerVars, queueVars, workerVars
<1>1. PICK S \in SUBSET {r \in Requests : row[r] = "live" /\ pc[r] \notin Running} :
        DeleteTraces(S) /\ UNCHANGED apiVars
  BY DEF Expire
<1>2. StoreTypeOK'
  BY <1>1 DEF DeleteTraces, StoreTypeOK
<1>3. BodyReceived'
  BY <1>1 DEF DeleteTraces, StoreTypeOK
<1> QED
  BY <1>1, <1>2, <1>3

\* Every step of the pipeline keeps the types.
LEMMA TypeStep == TypeInv /\ [Next]_vars => TypeInv'
<1> SUFFICES ASSUME TypeInv, [Next]_vars
             PROVE  TypeInv'
  OBVIOUS
<1>1. CASE ApiNext /\ UNCHANGED indexerVars
  <2>1. IngestTypeOK' /\ BodyReceived'
    BY <1>1, ApiNextIsStep, ApiTypes, ApiBodies
  <2>2. (IndexerTypeOK /\ HasJob)'
    BY <1>1, <2>1
    DEF TypeInv, TypeOK, IngestTypeOK, IndexerTypeOK, HasJob, indexerVars, queueVars, workerVars
  <2> QED
    BY <2>1, <2>2 DEF TypeInv, TypeOK
<1>2. CASE IndexerNext /\ UNCHANGED apiVars
  <2>1. (IndexerTypeOK /\ HasJob)'
    BY <1>2, IndexerTypes
  <2>2. IngestTypeOK'
    BY <1>2, <2>1 DEF TypeInv, TypeOK, IngestTypeOK, IndexerTypeOK, apiVars
  <2>3. UNCHANGED body /\ UNCHANGED row
    BY <1>2 DEF IndexerNext, Work, TakeJob, ReadTrace, TraceMissing, ReadEvents, Project,
       SealIfTerminal, DatabaseFails, Finish, WorkerCrash, Stall, Throw, storeVars, tableVars
  <2>4. BodyReceived'
    BY <1>2, <2>3 DEF TypeInv, BodyReceived, apiVars
  <2> QED
    BY <2>1, <2>2, <2>4 DEF TypeInv, TypeOK
<1>3. CASE Expire /\ UNCHANGED indexerVars
  BY <1>3, ExpireTypes
<1>4. CASE UNCHANGED vars
  BY <1>4 DEF vars, storeVars, tableVars, apiVars, indexerVars, queueVars, workerVars, TypeInv,
     TypeOK, IngestTypeOK, IndexerTypeOK, StoreTypeOK, BodyReceived, HasJob
<1> QED
  BY <1>1, <1>2, <1>3, <1>4 DEF Next

\* Type correctness of the pipeline, with what makes it inductive.
THEOREM TypeInvariance == Spec => []TypeInv
BY TypeInit, TypeStep, PTL DEF Spec

\* Every variable of the API, the worker, the store and the queue keeps its type.
THEOREM TypeCorrect == Spec => []TypeOK
<1>1. TypeInv => TypeOK
  BY DEF TypeInv
<1> QED
  BY <1>1, TypeInvariance, PTL

=============================================================================
