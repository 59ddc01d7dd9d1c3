----------------------------- MODULE Sdk_proofs -----------------------------
(***************************************************************************)
(* Theorems about the two SDKs, for every number of traces and callers and *)
(* every bound: but for two races of Python's threads nothing is lost      *)
(* quietly, a flush that sends and ends well delivered, one that leaves    *)
(* the buffer to another flush loses nothing of it, and the Node transport *)
(* sends in order.                                                         *)
(***************************************************************************)
EXTENDS Sdk, FiniteSetTheorems, SequenceTheorems, TLAPS

\* The latest revision of a trace, 0 before its first.
Rev(t) == IF envelope[t] = NoEnvelope THEN 0 ELSE envelope[t].rev

\* The tasks of a thread that hands over a change, and all tasks.
Hands == {"changed", "held", "found"}

Tasks == {"idle", "full", "answered", "copied"} \cup Hands

Outcomes == {"running", "ok", "error", "skipped"}

SdkTypeOK ==
  /\ sdk \in {"node", "python"} /\ sink \in BOOLEAN /\ timer \in BOOLEAN
  /\ envelope \in [Traces -> Envelope \cup {NoEnvelope}]
  /\ task \in [Callers -> Tasks]
  /\ hand \in [Callers -> Entry \cup {NoEnvelope}] /\ slot \in [Callers -> Nat]
  /\ buffer \in Seq(Entry)
  /\ batch \in [Flushers -> Seq(Entry)]
  /\ body \in [Flushers -> Envelope \cup {NoEnvelope}]
  /\ outcome \in [Flushers -> Outcomes]
  /\ promised \in [Flushers -> SUBSET (Traces \X Revision)]
  /\ acked \in [Traces -> Nat] /\ failed \in [Traces -> Nat]
  /\ shared \subseteq Traces /\ torn \subseteq Traces

\* A flush has a body on the wire as long as it has entries, except one that has only
\* copied the pending list.  The timer's flush has ended before the timer starts one.
ShapeOK ==
  /\ \A f \in Flushers :
       /\ body[f] # NoEnvelope => batch[f] # <<>>
       /\ batch[f] # <<>> /\ body[f] = NoEnvelope => f \in Callers /\ task[f] = "copied"
  /\ \A c \in Callers :
       task[c] = "copied" => sdk = "python" /\ ~sink /\ body[c] = NoEnvelope
  /\ timer => sink
  /\ sdk = "python" /\ timer => batch[Background] = <<>>

\* What waits or was taken is of traces that have been recorded, in no later state.
Known(b) ==
  \A i \in DOMAIN b :
    envelope[b[i].trace] # NoEnvelope /\ b[i].envelope.rev <= Rev(b[i].trace)

\* A list of the Node transport has one entry of a trace at most.  (Two threads may
\* append a trace each to Python's pending list.)
Distinct(b) ==
  sdk = "node" /\ sink => \A i, j \in DOMAIN b : b[i].trace = b[j].trace => i = j

ListsOK ==
  /\ Known(buffer) /\ Distinct(buffer)
  /\ \A f \in Flushers :
       /\ Known(batch[f]) /\ Distinct(batch[f])
       /\ body[f] # NoEnvelope => body[f].rev <= Rev(batch[f][1].trace)
  /\ \A t \in Traces : acked[t] <= Rev(t) /\ failed[t] <= Rev(t)

\* A thread hands over a recorded trace of Python's, with nothing to send itself.  The
\* copy it holds is the latest unless another thread changed the trace meanwhile.
HandsOK ==
  \A c \in Callers :
    /\ hand[c] # NoEnvelope <=> task[c] \in Hands
    /\ task[c] \in Hands => /\ sdk = "python" /\ batch[c] = <<>>
                            /\ envelope[hand[c].trace] # NoEnvelope
                            /\ hand[c].envelope.rev <= Rev(hand[c].trace)
    /\ task[c] = "held" => /\ sink
                           /\ \/ hand[c].trace \in shared
                              \/ hand[c].envelope.rev = Rev(hand[c].trace)
    /\ task[c] = "found" => ~sink

\* A thread will put t into the buffer.  One that has found t in the pending list may
\* come too late for that: then t was taken from it.
Handing(t) == \E c \in Callers : HandingOver(c, t) /\ (task[c] = "found" => slot[c] = 0)

\* The races that may lose a state of t.
Raced(t) == sdk = "python" /\ (IF sink THEN t \in shared ELSE t \in torn)

\* The latest state of a trace is somewhere, or a race may have lost it.
Somewhere(t) ==
  \/ envelope[t].rev \in {acked[t], failed[t]}
  \/ Handing(t)
  \/ <<t, envelope[t].rev>> \in Revisions(buffer)
  \/ \E f \in Flushers : <<t, envelope[t].rev>> \in InFlight(f)
  \/ Raced(t)

LatestOK == \A t \in Traces : envelope[t] # NoEnvelope => Somewhere(t)

\* What a running flush has promised is answered, or still on its way in this state or
\* a later one.
PromiseOK ==
  \A f \in Flushers :
    /\ outcome[f] = "running" =>
         /\ body[f] # NoEnvelope
         /\ \A p \in promised[f] :
              acked[p[1]] >= p[2] \/ \E q \in InFlight(f) : q[1] = p[1] /\ q[2] >= p[2]
    /\ outcome[f] = "ok" => \A p \in promised[f] : acked[p[1]] >= p[2]
    /\ outcome[f] = "error" => promised[f] = {}

\* What waits or is under way.
Underway == Revisions(buffer) \cup UNION {InFlight(f) : f \in Flushers}

\* A flush that left the buffer to another one, which only the Node transport's does, has
\* lost nothing of it.
SkipOK ==
  \A f \in Flushers : outcome[f] = "skipped" =>
    /\ sdk = "node" /\ sink /\ batch[f] = <<>>
    /\ \A p \in promised[f] : KeptOf(p)

\* One flush of the Node transport at a time, and what waits is later than what it has
\* taken, which is no earlier than what it was answered.
OrderOK ==
  sdk = "node" /\ sink =>
    /\ \A f, g \in Flushers : batch[f] # <<>> /\ batch[g] # <<>> => f = g
    /\ \A i \in DOMAIN buffer :
         /\ buffer[i].envelope.rev >= acked[buffer[i].trace]
         /\ buffer[i].envelope.rev >= failed[buffer[i].trace]
         /\ \A f \in Flushers : \A r \in InFlight(f) :
              r[1] = buffer[i].trace => r[2] <= buffer[i].envelope.rev
    /\ SendsInOrder

SdkInv ==
  /\ SdkTypeOK /\ ShapeOK /\ ListsOK /\ HandsOK /\ LatestOK /\ PromiseOK /\ SkipOK
  /\ OrderOK

-----------------------------------------------------------------------------
\* A finite set of numbers has a largest: as many are smaller than it as there are others.
LEMMA HasMax ==
  ASSUME NEW S \in SUBSET Nat, IsFiniteSet(S), S # {}
  PROVE  \E x \in S : \A y \in S : x >= y
<1> DEFINE Below(x) == {y \in S : y < x}
           last == Cardinality(S) - 1
           f == [x \in S |-> Cardinality(Below(x))]
<1>1. Cardinality(S) \in Nat /\ Cardinality(S) # 0
  BY FS_CardinalityType, FS_EmptySet
<1>2. last \in Nat /\ last + 1 = Cardinality(S)
  BY <1>1
<1> HIDE DEF last
<1>3. IsFiniteSet(0..last) /\ Cardinality(0..last) = Cardinality(S)
  BY <1>2, FS_Interval
<1>4. ASSUME NEW x \in S PROVE IsFiniteSet(Below(x)) /\ Cardinality(Below(x)) \in 0..last
  <2>1. Below(x) \subseteq S /\ x \notin Below(x)
    OBVIOUS
  <2>2. IsFiniteSet(Below(x)) /\ Cardinality(Below(x)) <= Cardinality(S)
        /\ Cardinality(Below(x)) # Cardinality(S)
    BY <2>1, FS_Subset
  <2>3. Cardinality(Below(x)) \in Nat
    BY <2>2, FS_CardinalityType
  <2> HIDE DEF Below
  <2>4. Cardinality(Below(x)) <= last
    BY <1>2, <2>2, <2>3
  <2> QED
    BY <1>2, <2>2, <2>3, <2>4
<1>5. ASSUME NEW x \in S, NEW z \in S, x < z
      PROVE  Cardinality(Below(x)) < Cardinality(Below(z))
  <2>0. x \in Nat /\ z \in Nat /\ \A y \in S : y \in Nat /\ (y < x => y < z)
    BY <1>5
  <2>1. Below(x) \subseteq Below(z) /\ x \in Below(z) /\ x \notin Below(x)
    <3>1. \A y \in Below(x) : y \in Below(z)
      BY <2>0
    <3>2. x \in Below(z)
      BY <1>5
    <3>3. ~(x < x)
      BY <2>0
    <3> QED
      BY <3>1, <3>2, <3>3
  <2>2. /\ IsFiniteSet(Below(z)) /\ Cardinality(Below(x)) \in Nat
        /\ Cardinality(Below(z)) \in Nat
    BY <1>2, <1>4
  <2> HIDE DEF Below
  <2>3. Cardinality(Below(x)) <= Cardinality(Below(z))
        /\ Cardinality(Below(x)) # Cardinality(Below(z))
    BY <2>1, <2>2, FS_Subset
  <2> QED
    BY <2>2, <2>3
<1>6. ASSUME NEW x \in S, NEW z \in S, f[x] = f[z] PROVE x = z
  <2>1. Cardinality(Below(x)) = Cardinality(Below(z)) /\ Cardinality(Below(x)) \in Nat
    BY <1>2, <1>4, <1>6
  <2> HIDE DEF Below
  <2>2. ~(x < z) /\ ~(z < x)
    BY <1>5, <2>1
  <2> QED
    BY <2>2
<1>7. f \in Injection(S, 0..last)
  BY <1>4, <1>6 DEF Injection, IsInjective
<1>8. f \in Surjection(S, 0..last)
  BY <1>3, <1>7, FS_Injection
<1>9. PICK x \in S : Cardinality(Below(x)) = last
  <2>1. last \in 0..last
    BY <1>2
  <2>2. \A k \in 0..last : \E x \in S : f[x] = k
    BY <1>8 DEF Surjection
  <2> QED
    BY <2>1, <2>2
<1>10. ASSUME NEW y \in S, x < y PROVE FALSE
  <2>1. Cardinality(Below(x)) < Cardinality(Below(y)) /\ Cardinality(Below(y)) \in 0..last
    BY <1>4, <1>5, <1>10
  <2> HIDE DEF Below
  <2> QED
    BY <1>2, <1>9, <2>1
<1> QED
  BY <1>10

\* AtLeast counts up to the latest revision it is given.
LEMMA AtLeastBounds ==
  ASSUME NEW seen \in [Traces -> Nat], NEW bound \in [Traces -> Nat],
         NEW revisions \in SUBSET (Traces \X Nat), NEW w, w = AtLeast(seen, revisions),
         \A t \in Traces : seen[t] <= bound[t],
         \A r \in revisions : r[2] <= bound[r[1]]
  PROVE  /\ w \in [Traces -> Nat]
         /\ \A t \in Traces :
              /\ seen[t] <= w[t] /\ w[t] <= bound[t]
              /\ w[t] = seen[t] \/ <<t, w[t]>> \in revisions
         /\ \A r \in revisions : r[2] <= w[r[1]]
<1> DEFINE S(t) == {seen[t]} \cup {r[2] : r \in {q \in revisions : q[1] = t}}
<1>1. ASSUME NEW t \in Traces
      PROVE  /\ w[t] \in S(t) /\ \A y \in S(t) : w[t] >= y
             /\ S(t) \subseteq 0..bound[t]
  <2>1. S(t) \subseteq 0..bound[t]
    OBVIOUS
  <2>2. IsFiniteSet(0..bound[t])
    BY FS_Interval
  <2>3. S(t) \subseteq Nat /\ IsFiniteSet(S(t)) /\ S(t) # {}
    BY <2>1, <2>2, FS_Subset
  <2>4. w[t] = Max(S(t))
    BY DEF AtLeast
  <2> HIDE DEF S
  <2> QED
    BY <2>1, <2>3, <2>4, HasMax DEF Max
<1>2. w = [t \in Traces |-> w[t]]
  BY DEF AtLeast
<1>3. \A t \in Traces : w[t] \in Nat
  BY <1>1
<1>4. \A r \in revisions : r[1] \in Traces /\ r = <<r[1], r[2]>> /\ r[2] \in S(r[1])
  OBVIOUS
<1>5. \A t \in Traces : w[t] = seen[t] \/ <<t, w[t]>> \in revisions
  BY <1>1
<1> QED
  BY <1>1, <1>2, <1>3, <1>4, <1>5

-----------------------------------------------------------------------------
\* Entries and what they send.

\* An entry whose trace is recorded sends a revision of it, no later than the latest.
LEMMA EntrySends ==
  ASSUME SdkTypeOK, NEW x \in Entry, envelope[x.trace] # NoEnvelope,
         x.envelope.rev <= Rev(x.trace)
  PROVE  /\ x.trace \in Traces /\ x.envelope \in Envelope
         /\ Body(x) \in Envelope /\ Body(x) # NoEnvelope
         /\ Body(x).rev \in Revision /\ Body(x).rev <= Rev(x.trace)
         /\ RevisionOf(x) = <<x.trace, Body(x).rev>>
         /\ RevisionOf(x) \in Traces \X Revision
<1>1. x.trace \in Traces /\ x.envelope \in Envelope
  BY DEF Entry
<1>2. envelope[x.trace] \in Envelope
  BY <1>1 DEF SdkTypeOK
<1>3. Body(x) \in Envelope /\ Body(x).rev <= Rev(x.trace)
  <2>1. envelope[x.trace].rev \in Nat /\ x.envelope.rev \in Nat
    BY <1>1, <1>2 DEF Envelope, Revision
  <2> QED
    BY <1>1, <1>2, <2>1 DEF Body, Rev
<1>4. Body(x).rev \in Revision
  BY <1>3 DEF Envelope
<1> QED
  BY <1>1, <1>3, <1>4, EnvelopeAbsent DEF RevisionOf

\* The latest revision of a trace is a number.
LEMMA RevIsNat ==
  ASSUME SdkTypeOK, NEW t \in Traces
  PROVE  Rev(t) \in Nat /\ (envelope[t] # NoEnvelope => envelope[t].rev = Rev(t))
<1>1. envelope[t] # NoEnvelope => envelope[t] \in Envelope
  BY DEF SdkTypeOK
<1> QED
  BY <1>1 DEF Rev, Envelope, Revision

\* A list of recorded traces sends revisions of them.
LEMMA ListSends ==
  ASSUME SdkTypeOK, NEW b \in Seq(Entry), Known(b)
  PROVE  /\ Revisions(b) \subseteq Traces \X Revision
         /\ \A r \in Revisions(b) : r[2] <= Rev(r[1])
<1>1. ASSUME NEW i \in DOMAIN b
      PROVE  /\ RevisionOf(b[i]) \in Traces \X Revision
             /\ RevisionOf(b[i])[2] <= Rev(RevisionOf(b[i])[1])
  <2>1. b[i] \in Entry
    BY <1>1
  <2>2. envelope[b[i].trace] # NoEnvelope /\ b[i].envelope.rev <= Rev(b[i].trace)
    BY <1>1 DEF Known
  <2> QED
    BY <2>1, <2>2, EntrySends
<1> QED
  BY <1>1 DEF Revisions

\* A list sends its head and then the others, which are of other traces.
LEMMA HeadAndTail ==
  ASSUME NEW b \in Seq(Entry), b # <<>>
  PROVE  /\ b[1] \in Entry /\ Tail(b) \in Seq(Entry)
         /\ Revisions(b) = {RevisionOf(b[1])} \cup Revisions(Tail(b))
         /\ Known(b) => /\ Known(Tail(b)) /\ envelope[b[1].trace] # NoEnvelope
                        /\ b[1].envelope.rev <= Rev(b[1].trace)
         /\ Distinct(b) => /\ Distinct(Tail(b))
                           /\ sdk = "node" /\ sink =>
                                \A r \in Revisions(Tail(b)) : r[1] # b[1].trace
<1>1. /\ Len(b) \in Nat /\ Len(b) >= 1 /\ DOMAIN b = 1..Len(b)
      /\ DOMAIN Tail(b) = 1..Len(b) - 1
      /\ \A i \in DOMAIN Tail(b) : i + 1 \in DOMAIN b /\ i + 1 # 1 /\ Tail(b)[i] = b[i + 1]
  OBVIOUS
<1>2. 1 \in DOMAIN b /\ \A i \in DOMAIN b : i = 1 \/ \E j \in DOMAIN Tail(b) : i = j + 1
  <2>1. \A i \in DOMAIN b : i = 1 \/ (i - 1 \in DOMAIN Tail(b) /\ i = (i - 1) + 1)
    BY <1>1
  <2> QED
    BY <1>1, <2>1
<1>3. b[1] \in Entry /\ Tail(b) \in Seq(Entry)
  BY <1>2
<1>4. Revisions(b) = {RevisionOf(b[1])} \cup Revisions(Tail(b))
  <2>1. ASSUME NEW i \in DOMAIN b
        PROVE  RevisionOf(b[i]) \in {RevisionOf(b[1])} \cup Revisions(Tail(b))
    BY <1>1, <1>2, <2>1 DEF Revisions
  <2>2. ASSUME NEW j \in DOMAIN Tail(b) PROVE RevisionOf(Tail(b)[j]) \in Revisions(b)
    BY <1>1, <2>2 DEF Revisions
  <2>3. RevisionOf(b[1]) \in Revisions(b)
    BY <1>2 DEF Revisions
  <2> QED
    BY <2>1, <2>2, <2>3 DEF Revisions
<1>5. Known(b) => /\ Known(Tail(b)) /\ envelope[b[1].trace] # NoEnvelope
                  /\ b[1].envelope.rev <= Rev(b[1].trace)
  BY <1>1, <1>2 DEF Known
<1>6. ASSUME Distinct(b), sdk = "node", sink
      PROVE  Distinct(Tail(b)) /\ \A r \in Revisions(Tail(b)) : r[1] # b[1].trace
  <2>1. \A i \in DOMAIN Tail(b) : Tail(b)[i].trace # b[1].trace
    BY <1>1, <1>2, <1>6 DEF Distinct
  <2>2. Distinct(Tail(b))
    <3>1. ASSUME NEW i \in DOMAIN Tail(b), NEW j \in DOMAIN Tail(b),
                 Tail(b)[i].trace = Tail(b)[j].trace
          PROVE  i = j
      <4>1. b[i + 1].trace = b[j + 1].trace /\ i + 1 \in DOMAIN b /\ j + 1 \in DOMAIN b
        BY <1>1, <3>1
      <4>2. i + 1 = j + 1 /\ i \in Nat /\ j \in Nat
        BY <1>1, <1>6, <4>1 DEF Distinct
      <4> QED
        BY <4>2
    <3> QED
      BY <3>1 DEF Distinct
  <2> QED
    BY <2>1, <2>2 DEF Revisions, RevisionOf
<1>7. ~(sdk = "node" /\ sink) => Distinct(Tail(b))
  BY DEF Distinct
<1> QED
  BY <1>3, <1>4, <1>5, <1>6, <1>7

\* What is under way is of recorded traces; a flush that is over has nothing under way.
LEMMA FlightKnown ==
  ASSUME SdkTypeOK, ShapeOK, ListsOK, NEW f \in Flushers
  PROVE  /\ InFlight(f) \subseteq Traces \X Revision
         /\ \A r \in InFlight(f) : r[2] <= Rev(r[1])
         /\ batch[f] = <<>> => InFlight(f) = {}
         /\ body[f] = NoEnvelope => InFlight(f) = Revisions(batch[f])
<1>1. batch[f] \in Seq(Entry) /\ Known(batch[f])
  BY DEF SdkTypeOK, ListsOK
<1>2. CASE body[f] = NoEnvelope
  <2>1. InFlight(f) = Revisions(batch[f])
    BY <1>2 DEF InFlight
  <2>2. batch[f] = <<>> => Revisions(batch[f]) = {}
    BY DEF Revisions
  <2> QED
    BY <1>1, <2>1, <2>2, ListSends
<1>3. CASE body[f] # NoEnvelope
  <2>1. batch[f] # <<>> /\ body[f].rev <= Rev(batch[f][1].trace) /\ body[f].rev \in Revision
    BY <1>3 DEF ShapeOK, ListsOK, SdkTypeOK, Envelope
  <2>2. /\ batch[f][1] \in Entry /\ Tail(batch[f]) \in Seq(Entry) /\ Known(Tail(batch[f]))
    BY <1>1, <2>1, HeadAndTail
  <2>3. batch[f][1].trace \in Traces
    BY <2>2 DEF Entry
  <2>4. InFlight(f) = {<<batch[f][1].trace, body[f].rev>>} \cup Revisions(Tail(batch[f]))
    BY <1>3 DEF InFlight
  <2>5. /\ Revisions(Tail(batch[f])) \subseteq Traces \X Revision
        /\ \A r \in Revisions(Tail(batch[f])) : r[2] <= Rev(r[1])
    BY <2>2, ListSends
  <2>6. ASSUME NEW r \in InFlight(f) PROVE r \in Traces \X Revision /\ r[2] <= Rev(r[1])
    BY <2>1, <2>3, <2>4, <2>5
  <2> QED
    BY <1>3, <2>1, <2>6
<1> QED
  BY <1>2, <1>3

\* What a flush has under way changes with its own batch only.
LEMMA FlightKept ==
  ASSUME UNCHANGED <<sink, envelope>>, NEW g \in Flushers,
         batch'[g] = batch[g], body'[g] = body[g]
  PROVE  InFlight(g)' = InFlight(g)
BY DEF InFlight, Revisions, RevisionOf, Body

\* A flush that sends b, its head first, has all of b under way.
LEMMA FlightStarts ==
  ASSUME UNCHANGED <<sink, envelope>>, SdkTypeOK, NEW g \in Flushers,
         NEW b \in Seq(Entry), Known(b), batch'[g] = b,
         body'[g] = (IF b = <<>> THEN NoEnvelope ELSE Body(b[1]))
  PROVE  InFlight(g)' = Revisions(b) /\ (b # <<>> => body'[g] # NoEnvelope)
<1>1. CASE b = <<>>
  BY <1>1 DEF InFlight, Revisions
<1>2. CASE b # <<>>
  <2>1. /\ b[1] \in Entry /\ envelope[b[1].trace] # NoEnvelope
        /\ b[1].envelope.rev <= Rev(b[1].trace)
        /\ Revisions(b) = {RevisionOf(b[1])} \cup Revisions(Tail(b))
    BY <1>2, HeadAndTail
  <2>2. body'[g] = Body(b[1]) /\ body'[g] # NoEnvelope
        /\ RevisionOf(b[1]) = <<b[1].trace, Body(b[1]).rev>>
    BY <1>2, <2>1, EntrySends
  <2>3. Revisions(Tail(b))' = Revisions(Tail(b))
    BY DEF Revisions, RevisionOf, Body
  <2>4. InFlight(g)' = {<<b[1].trace, body'[g].rev>>} \cup Revisions(Tail(b))
    BY <2>2, <2>3 DEF InFlight
  <2> QED
    BY <2>1, <2>2, <2>4
<1> QED
  BY <1>1, <1>2

\* Upsert replaces the entry of a trace, or adds one.
LEMMA UpsertEntries ==
  ASSUME NEW b \in Seq(Entry), Distinct(b), NEW t \in Traces, NEW e \in Envelope,
         NEW u, u = Upsert(b, t, e)
  PROVE  /\ u \in Seq(Entry) /\ u # <<>> /\ Distinct(u)
         /\ \E i \in DOMAIN u : u[i] = [trace |-> t, envelope |-> e]
         /\ \A i \in DOMAIN u :
              \/ u[i] = [trace |-> t, envelope |-> e]
              \/ \E j \in DOMAIN b : u[i] = b[j] /\ b[j].trace # t
         /\ \A j \in DOMAIN b : b[j].trace # t => \E i \in DOMAIN u : u[i] = b[j]
<1> DEFINE entry == [trace |-> t, envelope |-> e]
           waiting == {i \in DOMAIN b : b[i].trace = t}
<1>1. entry \in Entry /\ entry.trace = t
  BY DEF Entry
<1>2. /\ Len(b) \in Nat /\ DOMAIN b = 1..Len(b)
      /\ \A i \in DOMAIN b : b[i] \in Entry
  OBVIOUS
<1>3. CASE waiting = {}
  <2>1. u = Append(b, entry)
    BY <1>3 DEF Upsert
  <2>2. /\ u \in Seq(Entry) /\ u # <<>> /\ DOMAIN u = 1..Len(b) + 1 /\ u[Len(b) + 1] = entry
        /\ \A i \in 1..Len(b) : u[i] = b[i]
    BY <1>1, <2>1
  <2>3. \A i \in DOMAIN u : i \in DOMAIN b \/ i = Len(b) + 1
    BY <1>2, <2>2
  <2>4. \A i \in DOMAIN b : b[i].trace # t /\ i \in DOMAIN u
    BY <1>2, <1>3, <2>2
  <2>5. Len(b) + 1 \in DOMAIN u
    BY <1>2, <2>2
  <2> HIDE DEF entry, waiting
  <2>6. Distinct(u)
    <3>1. ASSUME sdk = "node", sink, NEW i \in DOMAIN u, NEW j \in DOMAIN u,
                 u[i].trace = u[j].trace
          PROVE  i = j
      <4>1. CASE i \in DOMAIN b /\ j \in DOMAIN b
        BY <1>2, <2>2, <3>1, <4>1 DEF Distinct
      <4>2. CASE i \notin DOMAIN b \/ j \notin DOMAIN b
        BY <1>1, <1>2, <2>2, <2>3, <2>4, <3>1, <4>2
      <4> QED
        BY <4>1, <4>2
    <3> QED
      BY <3>1 DEF Distinct
  <2>7. /\ \E i \in DOMAIN u : u[i] = entry
        /\ \A i \in DOMAIN u :
             \/ u[i] = entry
             \/ \E j \in DOMAIN b : u[i] = b[j] /\ b[j].trace # t
        /\ \A j \in DOMAIN b : b[j].trace # t => \E i \in DOMAIN u : u[i] = b[j]
    BY <1>2, <2>2, <2>3, <2>4, <2>5
  <2> QED
    BY <2>2, <2>6, <2>7 DEF entry
<1>4. CASE waiting # {}
  <2>1. u = [i \in DOMAIN b |-> IF i \in waiting THEN entry ELSE b[i]]
    BY <1>4 DEF Upsert
  <2>2. PICK k \in DOMAIN b : b[k].trace = t
    BY <1>4
  <2>3. DOMAIN u = DOMAIN b /\ \A i \in DOMAIN b : u[i] = IF b[i].trace = t THEN entry ELSE b[i]
    BY <2>1
  <2> HIDE DEF entry, waiting
  <2>4. \A i \in DOMAIN b : u[i] \in Entry /\ u[i].trace = b[i].trace
    BY <1>1, <1>2, <2>3
  <2>5. u \in Seq(Entry)
    <3>1. u \in [1..Len(b) -> Entry]
      BY <1>2, <2>1, <2>3, <2>4
    <3> QED
      BY <1>2, <3>1
  <2>6. Distinct(u)
    BY <2>3, <2>4 DEF Distinct
  <2>7. u # <<>>
    BY <2>2, <2>3
  <2>8. /\ \E i \in DOMAIN u : u[i] = entry
        /\ \A i \in DOMAIN u :
             \/ u[i] = entry
             \/ \E j \in DOMAIN b : u[i] = b[j] /\ b[j].trace # t
        /\ \A j \in DOMAIN b : b[j].trace # t => \E i \in DOMAIN u : u[i] = b[j]
    BY <2>2, <2>3
  <2> QED
    BY <2>5, <2>6, <2>7, <2>8 DEF entry
<1> QED
  BY <1>3, <1>4

\* A change is one more than the revision before it.
LEMMA ChangesAreNew ==
  ASSUME SdkTypeOK, NEW t \in Traces, NEW e \in Changed(t) \cup CallChanges(t)
  PROVE  e \in Envelope /\ Rev(t) \in Nat /\ e.rev > Rev(t)
<1>1. CASE envelope[t] = NoEnvelope
  <2>1. e = NewEnvelope \/ e = BuiltEnvelope
    BY <1>1 DEF Changed, CallChanges
  <2>2. /\ NewEnvelope \in Envelope /\ NewEnvelope.rev = 1
        /\ BuiltEnvelope \in Envelope /\ BuiltEnvelope.rev = 1
    BY DEF NewEnvelope, BuiltEnvelope, Envelope, Revision
  <2>3. Rev(t) = 0
    BY <1>1 DEF Rev
  <2> QED
    BY <2>1, <2>2, <2>3
<1>2. CASE envelope[t] # NoEnvelope
  <2> DEFINE d == envelope[t]
  <2>1. d \in Envelope /\ Rev(t) = d.rev
    BY <1>2 DEF SdkTypeOK, Rev
  <2>2. /\ d.rev \in Nat \ {0} /\ d.spans \in Nat /\ d.bare \in Nat /\ d.active \in BOOLEAN
        /\ d = [rev |-> d.rev, spans |-> d.spans, bare |-> d.bare, active |-> d.active]
    BY <2>1 DEF Envelope, Revision
  <2>3. \/ e = [d EXCEPT !.rev = @ + 1]
        \/ e = [d EXCEPT !.rev = @ + 1, !.spans = @ + 1, !.bare = @ + 1]
        \/ d.bare > 0 /\ e = [d EXCEPT !.rev = @ + 1, !.bare = @ - 1]
    BY <1>2 DEF Changed, CallChanges, WithStatus, WithEvent, WithSpan
  <2> HIDE DEF d
  <2>4. /\ d.rev + 1 \in Nat \ {0} /\ d.spans + 1 \in Nat /\ d.bare + 1 \in Nat
        /\ d.bare > 0 => d.bare - 1 \in Nat
        /\ d.rev + 1 > d.rev
    BY <2>2
  <2>5. e \in Envelope /\ e.rev = d.rev + 1
    BY <2>1, <2>2, <2>3, <2>4 DEF Envelope, Revision
  <2> QED
    BY <2>1, <2>2, <2>4, <2>5
<1> QED
  BY <1>1, <1>2

-----------------------------------------------------------------------------
\* Hands that are not touched keep what they have, and no more is handed over.
LEMMA HandsKept ==
  ASSUME HandsOK, UNCHANGED <<sdk, sink, envelope, hand, slot, shared>>,
         \A c \in Callers : \/ task'[c] = task[c]
                            \/ task[c] \notin Hands /\ task'[c] \notin Hands,
         \A c \in Callers : task'[c] \in Hands /\ batch[c] = <<>> => batch'[c] = <<>>
  PROVE  HandsOK' /\ \A t : Handing(t)' <=> Handing(t)
<1>1. ASSUME NEW c \in Callers
      PROVE  /\ task'[c] \in Hands <=> task[c] \in Hands
             /\ task[c] \in Hands => task'[c] = task[c]
             /\ task'[c] = "held" <=> task[c] = "held"
             /\ task'[c] = "found" <=> task[c] = "found"
  BY DEF Hands
<1>2. HandsOK'
  BY <1>1 DEF HandsOK, Rev
<1>3. \A t : Handing(t)' <=> Handing(t)
  BY <1>1 DEF Handing, HandingOver
<1> QED
  BY <1>2, <1>3

\* Nothing is handed over in Node: a change goes to the buffer at once.
LEMMA NodeHandsNothing ==
  ASSUME HandsOK, sdk = "node"
  PROVE  /\ \A c \in Callers : task[c] \notin Hands /\ hand[c] = NoEnvelope
         /\ \A t : ~Handing(t) /\ ~Raced(t)
BY DEF HandsOK, Handing, HandingOver, Raced

\* ... and so after a step of it.
LEMMA NodeHands ==
  ASSUME HandsOK, sdk = "node", UNCHANGED <<sdk, hand>>,
         \A c \in Callers : task'[c] = task[c] \/ task'[c] \in {"idle", "answered"}
  PROVE  HandsOK'
<1>1. \A c \in Callers : task'[c] \notin Hands /\ hand'[c] = NoEnvelope
  BY NodeHandsNothing DEF Hands
<1> QED
  BY <1>1 DEF HandsOK, Hands

\* What a skipped flush left is kept, as long as each state that waits or is under way is
\* replaced by none but later ones.
LEMMA KeptStays ==
  ASSUME SdkTypeOK, ShapeOK, ListsOK, SkipOK, UNCHANGED <<sdk, sink>>,
         \A x \in Traces : acked'[x] \in Nat /\ failed'[x] \in Nat
                          /\ acked[x] <= acked'[x] /\ failed[x] <= failed'[x],
         \A q \in Underway : \/ acked'[q[1]] >= q[2] \/ failed'[q[1]] >= q[2]
                             \/ \E r \in Underway' :
                                  r[1] = q[1] /\ r[2] \in Nat /\ r[2] >= q[2],
         \A f \in Flushers : outcome'[f] = "skipped" =>
           /\ outcome[f] = "skipped" /\ promised'[f] = promised[f]
           /\ batch[f] = <<>> => batch'[f] = <<>>
  PROVE  SkipOK'
<1>1. ASSUME NEW f \in Flushers, outcome'[f] = "skipped", NEW p \in promised'[f]
      PROVE  KeptOf(p)'
  <2>1. KeptOf(p) /\ p \in Traces \X Revision
    BY <1>1 DEF SkipOK, SdkTypeOK
  <2>2. /\ p[1] \in Traces /\ p[2] \in Nat
        /\ acked[p[1]] \in Nat /\ failed[p[1]] \in Nat
    BY <2>1 DEF SdkTypeOK, Revision
  <2>3. CASE acked[p[1]] >= p[2] \/ failed[p[1]] >= p[2]
    <3>1. acked'[p[1]] >= p[2] \/ failed'[p[1]] >= p[2]
      BY <2>2, <2>3
    <3> QED
      BY <3>1 DEF KeptOf, AnsweredBy
  <2>4. CASE \E q \in Underway : q[1] = p[1] /\ q[2] >= p[2]
    <3>1. PICK q \in Underway : q[1] = p[1] /\ q[2] >= p[2]
      BY <2>4
    <3>2. q[2] \in Nat /\ acked'[p[1]] \in Nat /\ failed'[p[1]] \in Nat
      <4>1. buffer \in Seq(Entry) /\ Known(buffer)
        BY DEF SdkTypeOK, ListsOK
      <4>2. q \in Traces \X Revision
        BY <3>1, <4>1, FlightKnown, ListSends DEF Underway
      <4> QED
        BY <2>2, <4>2 DEF Revision
    <3>3. CASE acked'[q[1]] >= q[2] \/ failed'[q[1]] >= q[2]
      <4>1. acked'[p[1]] >= p[2] \/ failed'[p[1]] >= p[2]
        BY <2>2, <3>1, <3>2, <3>3
      <4> QED
        BY <4>1 DEF KeptOf, AnsweredBy
    <3>4. CASE \E r \in Underway' : r[1] = q[1] /\ r[2] \in Nat /\ r[2] >= q[2]
      <4>1. \E r \in Underway' : r[1] = p[1] /\ r[2] >= p[2]
        BY <2>2, <3>1, <3>2, <3>4
      <4> QED
        BY <4>1 DEF KeptOf, Underway
    <3> QED
      BY <3>1, <3>3, <3>4
  <2> QED
    BY <2>1, <2>3, <2>4 DEF KeptOf, AnsweredBy, Underway
<1> QED
  BY <1>1 DEF SkipOK

\* A step of the program: trace t changes.
Recorded(t, e) ==
  /\ e \in Envelope /\ e.rev > Rev(t)
  /\ envelope' = [envelope EXCEPT ![t] = e]
  /\ UNCHANGED <<sdk, sink, timer, answerVars>>

\* ... in Node, where it goes to the buffer or is sent, whatever its caller does next.
NodeRecorded(t, e) ==
  /\ Recorded(t, e) /\ sdk = "node"
  /\ UNCHANGED <<hand, slot, shared, torn>>
  /\ task' \in [Callers -> Tasks]
  /\ \A c \in Callers : task'[c] = task[c] \/ task'[c] \in {"idle", "answered"}

\* Recording makes no other trace newer, and t newer than anything of it.
LEMMA RecordedRevs ==
  ASSUME SdkTypeOK, NEW t \in Traces, NEW e, Recorded(t, e)
  PROVE  /\ envelope' \in [Traces -> Envelope \cup {NoEnvelope}]
         /\ \A x \in Traces :
              /\ Rev(x) \in Nat /\ Rev(x)' \in Nat /\ Rev(x) <= Rev(x)'
              /\ x # t => envelope'[x] = envelope[x] /\ Rev(x)' = Rev(x)
              /\ envelope[x] # NoEnvelope => envelope'[x] # NoEnvelope
              /\ envelope'[x] # NoEnvelope => envelope'[x].rev = Rev(x)'
         /\ envelope'[t] = e /\ e # NoEnvelope /\ Rev(t)' = e.rev /\ Rev(t) < e.rev
<1>1. /\ envelope \in [Traces -> Envelope \cup {NoEnvelope}] /\ e \in Envelope
      /\ e # NoEnvelope /\ e.rev > Rev(t) /\ envelope' = [envelope EXCEPT ![t] = e]
  BY EnvelopeAbsent DEF SdkTypeOK, Recorded
<1>2. /\ envelope'[t] = e /\ \A x \in Traces : x # t => envelope'[x] = envelope[x]
      /\ envelope' \in [Traces -> Envelope \cup {NoEnvelope}]
  BY <1>1
<1>3. \A x \in Traces : Rev(x) \in Nat /\ Rev(x)' \in Nat
  BY <1>1, <1>2 DEF Rev, Envelope, Revision
<1>4. Rev(t)' = e.rev /\ Rev(t) < e.rev /\ \A x \in Traces : x # t => Rev(x)' = Rev(x)
  BY <1>1, <1>2, <1>3 DEF Rev
<1>5. \A x \in Traces : envelope'[x] # NoEnvelope => envelope'[x].rev = Rev(x)'
  BY DEF Rev
<1> QED
  BY <1>1, <1>2, <1>3, <1>4, <1>5

\* What a list sends after the change: the same, but for t, and no earlier states.
LEMMA RecordedList ==
  ASSUME SdkTypeOK, NEW t \in Traces, NEW e, Recorded(t, e), NEW b \in Seq(Entry), Known(b)
  PROVE  /\ Known(b)'
         /\ sink => Revisions(b)' = Revisions(b)
         /\ \A r \in Revisions(b) : r[1] # t => r \in Revisions(b)'
         /\ \A r \in Revisions(b) :
              \E q \in Revisions(b)' : q[1] = r[1] /\ q[2] \in Nat /\ q[2] >= r[2]
<1>1. UNCHANGED sink
  BY DEF Recorded
<1>2. ASSUME NEW i \in DOMAIN b
      PROVE  /\ b[i].trace \in Traces /\ envelope[b[i].trace] # NoEnvelope
             /\ b[i].envelope.rev <= Rev(b[i].trace)
             /\ b[i].envelope.rev \in Nat
  <2>1. b[i] \in Entry
    BY <1>2
  <2> QED
    BY <1>2, <2>1 DEF Known, Entry, Envelope, Revision
<1>3. Known(b)'
  BY <1>2, RecordedRevs DEF Known
<1>4. sink => Revisions(b)' = Revisions(b)
  BY <1>1 DEF Revisions, RevisionOf, Body
<1>5. ASSUME NEW i \in DOMAIN b
      PROVE  /\ RevisionOf(b[i])[1] = b[i].trace /\ RevisionOf(b[i])'[1] = b[i].trace
             /\ b[i].trace # t => RevisionOf(b[i])' = RevisionOf(b[i])
             /\ RevisionOf(b[i])'[2] \in Nat
             /\ RevisionOf(b[i])'[2] >= RevisionOf(b[i])[2]
  <2>1. /\ envelope[b[i].trace].rev = Rev(b[i].trace)
        /\ envelope'[b[i].trace].rev = Rev(b[i].trace)'
        /\ Rev(b[i].trace) <= Rev(b[i].trace)' /\ Rev(b[i].trace) \in Nat
        /\ Rev(b[i].trace)' \in Nat
    BY <1>2, <1>5, RecordedRevs, RevIsNat
  <2>2. b[i].trace # t => envelope'[b[i].trace] = envelope[b[i].trace]
    BY <1>2, <1>5, RecordedRevs
  <2> QED
    BY <1>1, <1>2, <1>5, <2>1, <2>2 DEF RevisionOf, Body
<1>6. \A i \in DOMAIN b : RevisionOf(b[i]) \in Revisions(b) /\ RevisionOf(b[i])' \in Revisions(b)'
  BY DEF Revisions
<1>7. \A r \in Revisions(b) : \E i \in DOMAIN b : r = RevisionOf(b[i])
  BY DEF Revisions
<1> QED
  BY <1>3, <1>4, <1>5, <1>6, <1>7

\* ... and so for what a flush has under way.
LEMMA RecordedFlight ==
  ASSUME SdkTypeOK, ShapeOK, ListsOK, NEW t \in Traces, NEW e, Recorded(t, e),
         NEW f \in Flushers, batch'[f] = batch[f], body'[f] = body[f]
  PROVE  /\ sink => InFlight(f)' = InFlight(f)
         /\ \A r \in InFlight(f) : r[1] # t => r \in InFlight(f)'
         /\ \A r \in InFlight(f) :
              \E q \in InFlight(f)' : q[1] = r[1] /\ q[2] \in Nat /\ q[2] >= r[2]
<1>1. PICK b \in Seq(Entry) : b = batch[f] /\ Known(b)
  BY DEF SdkTypeOK, ListsOK
<1>2. CASE body[f] = NoEnvelope
  <2>1. InFlight(f) = Revisions(b) /\ InFlight(f)' = Revisions(b)'
    BY <1>1, <1>2 DEF InFlight
  <2> QED
    BY <1>1, <2>1, RecordedList
<1>3. CASE body[f] # NoEnvelope
  <2>1. b # <<>> /\ body[f].rev \in Nat
    BY <1>1, <1>3 DEF ShapeOK, SdkTypeOK, Envelope, Revision
  <2>2. PICK c \in Seq(Entry) : c = Tail(b) /\ Known(c)
    BY <1>1, <2>1, HeadAndTail
  <2> DEFINE head == <<b[1].trace, body[f].rev>>
  <2>3. InFlight(f) = {head} \cup Revisions(c) /\ InFlight(f)' = {head} \cup Revisions(c)'
    BY <1>1, <1>3, <2>2 DEF InFlight
  <2>4. head[2] \in Nat /\ head[2] >= head[2]
    BY <2>1
  <2> HIDE DEF head
  <2> QED
    BY <2>2, <2>3, <2>4, RecordedList
<1> QED
  BY <1>2, <1>3

\* The flushes, which the change leaves alone, still hold what is known.
LEMMA RecordedLists ==
  ASSUME SdkTypeOK, ShapeOK, ListsOK, NEW t \in Traces, NEW e, Recorded(t, e),
         UNCHANGED <<batch, body>>
  PROVE  /\ \A f \in Flushers :
              /\ Known(batch[f])' /\ Distinct(batch[f])'
              /\ body'[f] # NoEnvelope => body'[f].rev <= Rev(batch[f][1].trace)'
         /\ \A x \in Traces : acked'[x] <= Rev(x)' /\ failed'[x] <= Rev(x)'
<1>1. UNCHANGED <<sdk, sink, acked, failed>>
  BY DEF Recorded, answerVars
<1>2. \A x \in Traces : Rev(x) \in Nat /\ Rev(x)' \in Nat /\ Rev(x) <= Rev(x)'
  BY RecordedRevs
<1>3. ASSUME NEW f \in Flushers
      PROVE  /\ Known(batch[f])' /\ Distinct(batch[f])'
             /\ body'[f] # NoEnvelope => body'[f].rev <= Rev(batch[f][1].trace)'
  <2>1. PICK b \in Seq(Entry) : b = batch[f] /\ Known(b) /\ Distinct(b)
    BY DEF SdkTypeOK, ListsOK
  <2>2. Known(b)'
    BY <2>1, RecordedList
  <2>3. Known(batch[f])' /\ Distinct(batch[f])'
    BY <1>1, <2>1, <2>2 DEF Known, Distinct
  <2>4. ASSUME body[f] # NoEnvelope PROVE body[f].rev <= Rev(b[1].trace)'
    <3>1. b # <<>> /\ body[f].rev <= Rev(b[1].trace) /\ body[f].rev \in Nat
      BY <2>1, <2>4 DEF ShapeOK, ListsOK, SdkTypeOK, Envelope, Revision
    <3>2. b[1].trace \in Traces
      BY <2>1, <3>1, HeadAndTail DEF Entry
    <3> QED
      BY <1>2, <3>1, <3>2
  <2>5. Rev(batch[f][1].trace)' = Rev(b[1].trace)'
    BY <2>1 DEF Rev
  <2> QED
    BY <2>3, <2>4, <2>5
<1>4. \A x \in Traces : acked'[x] <= Rev(x)' /\ failed'[x] <= Rev(x)'
  BY <1>1, <1>2 DEF ListsOK, SdkTypeOK
<1> QED
  BY <1>3, <1>4

\* ... and what they have promised.
LEMMA RecordedPromises ==
  ASSUME SdkTypeOK, ShapeOK, ListsOK, PromiseOK, NEW t \in Traces, NEW e, Recorded(t, e),
         UNCHANGED <<batch, body, outcome, promised>>
  PROVE  PromiseOK'
<1>1. UNCHANGED <<acked, failed>>
  BY DEF Recorded, answerVars
<1>2. ASSUME NEW f \in Flushers, outcome[f] = "running", NEW p \in promised[f],
             NEW r \in InFlight(f), r[1] = p[1], r[2] >= p[2]
      PROVE  \E q \in InFlight(f)' : q[1] = p[1] /\ q[2] >= p[2]
  <2>1. PICK q \in InFlight(f)' : q[1] = r[1] /\ q[2] \in Nat /\ q[2] >= r[2]
    BY <1>2, RecordedFlight
  <2>2. p[2] \in Nat /\ r[2] \in Nat
    BY <1>2, FlightKnown DEF SdkTypeOK, Revision
  <2> QED
    BY <1>2, <2>1, <2>2
<1> QED
  BY <1>1, <1>2 DEF PromiseOK

\* The buffer with the change: all it held of other traces, and the latest of t.
LEMMA RecordedBuffer ==
  ASSUME SdkTypeOK, ListsOK, NEW t \in Traces, NEW e, Recorded(t, e),
         NEW u, u = Upsert(buffer, t, e)
  PROVE  /\ u \in Seq(Entry) /\ u # <<>> /\ Known(u)' /\ Distinct(u)
         /\ <<t, e.rev>> \in Revisions(u)'
         /\ \A r \in Revisions(buffer) : r[1] # t => r \in Revisions(u)'
         /\ \A i \in DOMAIN u :
              \/ u[i].trace = t /\ u[i].envelope = e
              \/ \E j \in DOMAIN buffer : u[i] = buffer[j] /\ buffer[j].trace # t
<1>1. PICK b \in Seq(Entry) : b = buffer /\ Known(b) /\ Distinct(b)
  BY DEF SdkTypeOK, ListsOK
<1>2. e \in Envelope
  BY DEF Recorded
<1>3. /\ u \in Seq(Entry) /\ u # <<>> /\ Distinct(u)
      /\ \E i \in DOMAIN u : u[i] = [trace |-> t, envelope |-> e]
      /\ \A i \in DOMAIN u :
           \/ u[i] = [trace |-> t, envelope |-> e]
           \/ \E j \in DOMAIN b : u[i] = b[j] /\ b[j].trace # t
      /\ \A j \in DOMAIN b : b[j].trace # t => \E i \in DOMAIN u : u[i] = b[j]
  BY <1>1, <1>2, UpsertEntries
<1>4. Known(b)'
  BY <1>1, RecordedList
<1>5. envelope'[t] = e /\ e # NoEnvelope /\ Rev(t)' = e.rev /\ e.rev \in Nat
  BY <1>2, RecordedRevs DEF Envelope, Revision
<1>6. Known(u)'
  <2>1. ASSUME NEW i \in DOMAIN u
        PROVE  envelope'[u[i].trace] # NoEnvelope /\ u[i].envelope.rev <= Rev(u[i].trace)'
    <3>1. CASE u[i] = [trace |-> t, envelope |-> e]
      <4>1. u[i].trace = t /\ u[i].envelope = e
        BY <3>1
      <4> QED
        BY <1>5, <4>1
    <3>2. CASE \E j \in DOMAIN b : u[i] = b[j]
      BY <1>4, <3>2 DEF Known
    <3> QED
      BY <1>3, <3>1, <3>2
  <2> QED
    BY <2>1 DEF Known
<1>7. <<t, e.rev>> \in Revisions(u)'
  <2>1. PICK i \in DOMAIN u : u[i] = [trace |-> t, envelope |-> e]
    BY <1>3
  <2>2. u[i].trace = t /\ u[i].envelope = e
    BY <2>1
  <2>3. RevisionOf(u[i])' = <<t, e.rev>>
    BY <1>5, <2>2 DEF RevisionOf, Body
  <2> QED
    BY <2>3 DEF Revisions
<1>8. ASSUME NEW r \in Revisions(b), r[1] # t PROVE r \in Revisions(u)'
  <2>1. r \in Revisions(b)'
    BY <1>1, <1>8, RecordedList
  <2>2. PICK j \in DOMAIN b : r = RevisionOf(b[j]) /\ b[j].trace # t
    BY <1>8 DEF Revisions, RevisionOf
  <2>3. PICK i \in DOMAIN u : u[i] = b[j]
    BY <1>3, <2>2
  <2>4. b[j].trace \in Traces
    <3>1. b[j] \in Entry
      BY <2>2
    <3> QED
      BY <3>1 DEF Entry
  <2>5. RevisionOf(u[i])' = RevisionOf(b[j])
    BY <2>2, <2>3, <2>4, RecordedRevs DEF RevisionOf, Body, Recorded
  <2> QED
    BY <2>2, <2>5 DEF Revisions
<1>9. \A i \in DOMAIN u :
        \/ u[i].trace = t /\ u[i].envelope = e
        \/ \E j \in DOMAIN buffer : u[i] = buffer[j] /\ buffer[j].trace # t
  BY <1>1, <1>3
<1> QED
  BY <1>1, <1>3, <1>6, <1>7, <1>8, <1>9

\* A change that only waits.
LEMMA RecordStep ==
  ASSUME SdkInv, NEW t \in Traces, NEW e, NodeRecorded(t, e),
         buffer' = Upsert(buffer, t, e), UNCHANGED flushVars
  PROVE  SdkInv'
<1>1. PICK u : u = Upsert(buffer, t, e)
  OBVIOUS
<1>2. /\ SdkTypeOK /\ ShapeOK /\ ListsOK /\ HandsOK /\ LatestOK /\ PromiseOK /\ SkipOK
      /\ OrderOK
      /\ UNCHANGED <<sdk, sink, timer, acked, failed, batch, body, outcome, promised>>
      /\ UNCHANGED <<hand, slot, shared, torn>>
      /\ \A c \in Callers : task'[c] = task[c] \/ task'[c] \in {"idle", "answered"}
      /\ task' \in [Callers -> Tasks]
      /\ sdk = "node" /\ Recorded(t, e)
  BY DEF SdkInv, NodeRecorded, Recorded, answerVars, flushVars
<1>3. /\ envelope' \in [Traces -> Envelope \cup {NoEnvelope}]
      /\ \A x \in Traces :
           /\ Rev(x) \in Nat /\ Rev(x)' \in Nat /\ Rev(x) <= Rev(x)'
           /\ x # t => envelope'[x] = envelope[x] /\ Rev(x)' = Rev(x)
           /\ envelope[x] # NoEnvelope => envelope'[x] # NoEnvelope
           /\ envelope'[x] # NoEnvelope => envelope'[x].rev = Rev(x)'
      /\ envelope'[t] = e /\ e # NoEnvelope /\ Rev(t)' = e.rev /\ Rev(t) < e.rev
  BY <1>2, RecordedRevs
<1>4. /\ u \in Seq(Entry) /\ u # <<>> /\ Known(u)' /\ Distinct(u)
      /\ <<t, e.rev>> \in Revisions(u)'
      /\ \A r \in Revisions(buffer) : r[1] # t => r \in Revisions(u)'
      /\ \A i \in DOMAIN u :
           \/ u[i].trace = t /\ u[i].envelope = e
           \/ \E j \in DOMAIN buffer : u[i] = buffer[j] /\ buffer[j].trace # t
  BY <1>1, <1>2, RecordedBuffer
<1>5. buffer' = u
  BY <1>1
<1>6. \A f \in Flushers :
        /\ sink => InFlight(f)' = InFlight(f)
        /\ \A r \in InFlight(f) : r[1] # t => r \in InFlight(f)'
        /\ \A r \in InFlight(f) :
             \E q \in InFlight(f)' : q[1] = r[1] /\ q[2] \in Nat /\ q[2] >= r[2]
  BY <1>2, RecordedFlight
<1>7. SdkTypeOK'
  BY <1>2, <1>3, <1>4, <1>5 DEF SdkTypeOK
<1>8. ShapeOK'
  BY <1>2 DEF ShapeOK, Flushers
<1>9. HandsOK' /\ \A x : ~Handing(x) /\ ~Raced(x)
  BY <1>2, NodeHands, NodeHandsNothing
<1>10. ListsOK'
  <2>1. Known(buffer)' /\ Distinct(buffer)'
    BY <1>2, <1>4, <1>5 DEF Known, Distinct
  <2> QED
    BY <1>2, <2>1, RecordedLists DEF ListsOK
<1>11. LatestOK'
  <2>1. ASSUME NEW x \in Traces, envelope'[x] # NoEnvelope PROVE Somewhere(x)'
    <3>1. CASE x = t
      BY <1>3, <1>4, <1>5, <3>1 DEF Somewhere, Revisions
    <3>2. CASE x # t
      <4> DEFINE r == <<x, envelope[x].rev>>
      <4>1. Somewhere(x) /\ envelope'[x] = envelope[x] /\ r[1] # t
        BY <1>2, <1>3, <2>1, <3>2 DEF LatestOK
      <4>2. CASE r \in Revisions(buffer)
        <5>1. r \in Revisions(u)'
          BY <1>4, <4>1, <4>2
        <5>2. r \in Revisions(buffer)'
          BY <1>5, <5>1 DEF Revisions
        <5> QED
          BY <4>1, <5>2 DEF Somewhere
      <4>3. CASE \E f \in Flushers : r \in InFlight(f)
        BY <1>6, <4>1, <4>3 DEF Somewhere
      <4>4. CASE envelope[x].rev \in {acked[x], failed[x]}
        BY <1>2, <4>1, <4>4 DEF Somewhere
      <4> QED
        BY <1>9, <4>1, <4>2, <4>3, <4>4 DEF Somewhere
    <3> QED
      BY <3>1, <3>2
  <2> QED
    BY <2>1 DEF LatestOK
<1>12. PromiseOK'
  BY <1>2, RecordedPromises
<1>13. OrderOK'
  <2>1. SUFFICES ASSUME sdk = "node", sink PROVE OrderOK'
    BY <1>2 DEF OrderOK
  <2>2. \A f \in Flushers : InFlight(f)' = InFlight(f)
    BY <1>6, <2>1
  <2>3. ASSUME NEW i \in DOMAIN u
        PROVE  /\ u[i].envelope.rev >= acked[u[i].trace]
               /\ u[i].envelope.rev >= failed[u[i].trace]
               /\ \A f \in Flushers : \A r \in InFlight(f) :
                    r[1] = u[i].trace => r[2] <= u[i].envelope.rev
    <3>1. CASE u[i].trace = t /\ u[i].envelope = e
      <4>1. e.rev \in Nat /\ acked[t] \in Nat /\ failed[t] \in Nat
            /\ acked[t] <= Rev(t) /\ failed[t] <= Rev(t)
        BY <1>2, <1>3 DEF SdkTypeOK, ListsOK
      <4>2. \A f \in Flushers : \A r \in InFlight(f) :
              r[1] = t => r[2] \in Nat /\ r[2] <= Rev(t)
        BY <1>2, FlightKnown DEF Revision
      <4> QED
        BY <1>3, <3>1, <4>1, <4>2
    <3>2. CASE \E j \in DOMAIN buffer : u[i] = buffer[j]
      BY <1>2, <2>1, <3>2 DEF OrderOK
    <3> QED
      BY <1>4, <3>1, <3>2
  <2> QED
    BY <1>2, <1>5, <2>1, <2>2, <2>3 DEF OrderOK, SendsInOrder
<1>14. SkipOK'
  <2>1. ASSUME NEW q \in Revisions(buffer)
        PROVE  \E r \in Revisions(u)' : r[1] = q[1] /\ r[2] \in Nat /\ r[2] >= q[2]
    <3>1. q[1] \in Traces /\ q[2] \in Nat /\ q[2] <= Rev(q[1])
      BY <1>2, ListSends DEF SdkTypeOK, ListsOK, Revision
    <3>2. CASE q[1] = t
      <4>1. <<t, e.rev>> \in Revisions(u)' /\ e.rev \in Nat /\ e.rev >= q[2]
        BY <1>3, <1>4, <3>1, <3>2
      <4> QED
        BY <3>2, <4>1
    <3>3. CASE q[1] # t
      <4>1. q \in Revisions(u)' /\ q[2] >= q[2]
        BY <1>4, <3>1, <3>3
      <4> QED
        BY <3>1, <4>1
    <3> QED
      BY <3>2, <3>3
  <2>2. Revisions(buffer)' = Revisions(u)'
    BY <1>5 DEF Revisions
  <2>3. \A q \in Underway :
          \E r \in Underway' : r[1] = q[1] /\ r[2] \in Nat /\ r[2] >= q[2]
    BY <1>6, <2>1, <2>2 DEF Underway
  <2>4. \A x \in Traces : acked[x] \in Nat /\ failed[x] \in Nat
    BY <1>2 DEF SdkTypeOK
  <2> QED
    BY <1>2, <2>3, <2>4, KeptStays
<1> QED
  BY <1>7, <1>8, <1>9, <1>10, <1>11, <1>12, <1>13, <1>14 DEF SdkInv

-----------------------------------------------------------------------------
\* A flush by f begins, its tasks apart from f's staying where they are.
Begun(f) ==
  /\ UNCHANGED <<sdk, sink, envelope, answerVars, hand, slot, shared>>
  /\ timer' \in BOOLEAN /\ (timer' => timer)
  /\ sdk = "python" /\ timer' => f # Background
  /\ task' \in [Callers -> Tasks]
  /\ \A c \in Callers : IF c = f THEN task[c] \notin Hands /\ task'[c] \notin Hands \cup {"copied"}
                        ELSE task'[c] = task[c]

\* A flush that sends b, what it promises and what it has under way.
LEMMA Starting ==
  ASSUME SdkTypeOK, ShapeOK, ListsOK, HandsOK, PromiseOK, NEW f \in Flushers, Begun(f),
         NEW b \in Seq(Entry), Known(b), Distinct(b), StartSending(f, b)
  PROVE  /\ InFlight(f)' = Revisions(b)
         /\ batch' = [batch EXCEPT ![f] = b]
         /\ outcome'[f] # "skipped"
         /\ \A g \in Flushers : g # f => outcome'[g] = outcome[g] /\ promised'[g] = promised[g]
         /\ HandsOK' /\ \A t : Handing(t)' <=> Handing(t)
         /\ \A g \in Flushers : g # f => InFlight(g)' = InFlight(g)
         /\ batch' \in [Flushers -> Seq(Entry)]
         /\ body' \in [Flushers -> Envelope \cup {NoEnvelope}]
         /\ outcome' \in [Flushers -> Outcomes]
         /\ promised' \in [Flushers -> SUBSET (Traces \X Revision)]
         /\ ShapeOK' /\ PromiseOK'
         /\ \A g \in Flushers :
              /\ Known(batch[g])' /\ Distinct(batch[g])'
              /\ body'[g] # NoEnvelope => body'[g].rev <= Rev(batch[g][1].trace)'
<1>1. /\ UNCHANGED <<sdk, sink, envelope, acked, failed, hand, slot, shared>>
      /\ timer' => timer /\ (sdk = "python" => f # Background)
      /\ \A c \in Callers : IF c = f THEN task[c] \notin Hands /\ task'[c] \notin Hands
                                          /\ task'[c] # "copied"
                            ELSE task'[c] = task[c]
  BY DEF Begun, answerVars
<1>2. /\ batch' = [batch EXCEPT ![f] = b]
      /\ promised' = [promised EXCEPT ![f] = Revisions(b)]
      /\ outcome' = [outcome EXCEPT ![f] = IF b = <<>> THEN "ok" ELSE "running"]
      /\ body' = [body EXCEPT ![f] = IF b = <<>> THEN NoEnvelope ELSE Body(b[1])]
  BY DEF StartSending
<1>3. /\ batch \in [Flushers -> Seq(Entry)]
      /\ body \in [Flushers -> Envelope \cup {NoEnvelope}]
      /\ outcome \in [Flushers -> Outcomes]
      /\ promised \in [Flushers -> SUBSET (Traces \X Revision)]
  BY DEF SdkTypeOK
<1>4. /\ batch'[f] = b /\ promised'[f] = Revisions(b)
      /\ outcome'[f] = (IF b = <<>> THEN "ok" ELSE "running")
      /\ body'[f] = (IF b = <<>> THEN NoEnvelope ELSE Body(b[1]))
      /\ \A g \in Flushers : g # f => /\ batch'[g] = batch[g] /\ body'[g] = body[g]
                                      /\ outcome'[g] = outcome[g] /\ promised'[g] = promised[g]
  BY <1>2, <1>3
<1>5. /\ InFlight(f)' = Revisions(b) /\ (b # <<>> => body'[f] # NoEnvelope)
      /\ \A g \in Flushers : g # f => InFlight(g)' = InFlight(g)
  <2>1. InFlight(f)' = Revisions(b) /\ (b # <<>> => body'[f] # NoEnvelope)
    BY <1>1, <1>4, FlightStarts
  <2>2. ASSUME NEW g \in Flushers, g # f PROVE InFlight(g)' = InFlight(g)
    BY <1>1, <1>4, <2>2, FlightKept
  <2> QED
    BY <2>1, <2>2
<1>6. /\ Revisions(b) \subseteq Traces \X Revision
      /\ b # <<>> => /\ Body(b[1]) \in Envelope
                     /\ Body(b[1]).rev <= Rev(b[1].trace)
      /\ b = <<>> => Revisions(b) = {}
  <2>1. Revisions(b) \subseteq Traces \X Revision
    BY ListSends
  <2>2. ASSUME b # <<>> PROVE Body(b[1]) \in Envelope /\ Body(b[1]).rev <= Rev(b[1].trace)
    BY <2>2, HeadAndTail, EntrySends
  <2>3. b = <<>> => Revisions(b) = {}
    BY DEF Revisions
  <2> QED
    BY <2>1, <2>2, <2>3
<1>7. /\ batch' \in [Flushers -> Seq(Entry)]
      /\ body' \in [Flushers -> Envelope \cup {NoEnvelope}]
      /\ outcome' \in [Flushers -> Outcomes]
      /\ promised' \in [Flushers -> SUBSET (Traces \X Revision)]
  BY <1>2, <1>3, <1>6 DEF Outcomes
<1>8. ShapeOK'
  <2>1. ASSUME NEW g \in Flushers
        PROVE  /\ body'[g] # NoEnvelope => batch'[g] # <<>>
               /\ batch'[g] # <<>> /\ body'[g] = NoEnvelope
                    => g \in Callers /\ task'[g] = "copied"
    BY <1>1, <1>4, <1>5, <2>1 DEF ShapeOK
  <2>2. ASSUME NEW c \in Callers, task'[c] = "copied"
        PROVE  sdk = "python" /\ ~sink /\ body'[c] = NoEnvelope
    <3>1. c # f /\ task[c] = "copied" /\ c \in Flushers
      BY <1>1, <2>2 DEF Flushers
    <3> QED
      BY <1>4, <3>1 DEF ShapeOK
  <2>3. timer' => sink
    BY <1>1 DEF ShapeOK
  <2>4. ASSUME sdk = "python", timer' PROVE batch'[Background] = <<>>
    BY <1>1, <1>4, <2>4 DEF ShapeOK, Flushers
  <2> QED
    BY <1>1, <2>1, <2>2, <2>3, <2>4 DEF ShapeOK
<1>9. ASSUME NEW g \in Flushers
      PROVE  /\ Known(batch[g])' /\ Distinct(batch[g])'
             /\ body'[g] # NoEnvelope => body'[g].rev <= Rev(batch[g][1].trace)'
  <2>1. CASE g = f
    BY <1>1, <1>4, <1>6, <2>1 DEF Known, Distinct, Rev
  <2>2. CASE g # f
    BY <1>1, <1>4, <2>2 DEF ListsOK, Known, Distinct, Rev
  <2> QED
    BY <2>1, <2>2
<1>10. PromiseOK'
  <2>1. \A p \in Revisions(b) : p[2] >= p[2]
    BY <1>6 DEF Revision
  <2>2. /\ outcome'[f] = "running" =>
             /\ body'[f] # NoEnvelope
             /\ \A p \in promised'[f] : \E q \in InFlight(f)' : q[1] = p[1] /\ q[2] >= p[2]
        /\ outcome'[f] = "ok" => promised'[f] = {}
        /\ outcome'[f] # "error"
    BY <1>4, <1>5, <1>6, <2>1
  <2>3. \A g \in Flushers : g # f =>
          /\ batch'[g] = batch[g] /\ body'[g] = body[g]
          /\ outcome'[g] = outcome[g] /\ promised'[g] = promised[g]
          /\ InFlight(g)' = InFlight(g)
    BY <1>4, <1>5
  <2> QED
    BY <1>1, <2>2, <2>3 DEF PromiseOK
<1>11. HandsOK' /\ \A t : Handing(t)' <=> Handing(t)
  <2>1. \A c \in Callers : task'[c] \in Hands => c # f /\ c \in Flushers
    BY <1>1 DEF Flushers
  <2>2. \A c \in Callers : task'[c] \in Hands /\ batch[c] = <<>> => batch'[c] = <<>>
    BY <1>4, <2>1
  <2> QED
    BY <1>1, <2>2, HandsKept
<1>12. outcome'[f] # "skipped"
  BY <1>4
<1> QED
  BY <1>2, <1>4, <1>5, <1>7, <1>8, <1>9, <1>10, <1>11, <1>12

\* A flush that takes the buffer.
LEMMA StartStep ==
  ASSUME SdkInv, NEW f \in Flushers, Begun(f), batch[f] = <<>>,
         StartSending(f, buffer), buffer' = <<>>, UNCHANGED torn,
         sdk = "node" /\ sink => \A g \in Flushers : batch[g] = <<>>
  PROVE  SdkInv'
<1>1. /\ SdkTypeOK /\ ShapeOK /\ ListsOK /\ HandsOK /\ LatestOK /\ PromiseOK /\ SkipOK
      /\ OrderOK
      /\ UNCHANGED <<sdk, sink, envelope, acked, failed, hand, slot, shared, torn>>
      /\ timer' \in BOOLEAN
      /\ task' \in [Callers -> Tasks]
  BY DEF SdkInv, Begun, answerVars
<1>2. PICK b \in Seq(Entry) : b = buffer /\ Known(b) /\ Distinct(b)
  BY <1>1 DEF SdkTypeOK, ListsOK
<1>3. /\ InFlight(f)' = Revisions(b)
      /\ batch' = [batch EXCEPT ![f] = b]
      /\ \A g \in Flushers : g # f => InFlight(g)' = InFlight(g)
      /\ batch' \in [Flushers -> Seq(Entry)]
      /\ body' \in [Flushers -> Envelope \cup {NoEnvelope}]
      /\ outcome' \in [Flushers -> Outcomes]
      /\ promised' \in [Flushers -> SUBSET (Traces \X Revision)]
      /\ ShapeOK' /\ PromiseOK'
      /\ \A g \in Flushers :
           /\ Known(batch[g])' /\ Distinct(batch[g])'
           /\ body'[g] # NoEnvelope => body'[g].rev <= Rev(batch[g][1].trace)'
           /\ g # f => outcome'[g] = outcome[g] /\ promised'[g] = promised[g]
      /\ HandsOK' /\ \A t : Handing(t)' <=> Handing(t)
      /\ outcome'[f] # "skipped"
  BY <1>1, <1>2, Starting
<1>4. SdkTypeOK'
  BY <1>1, <1>3 DEF SdkTypeOK
<1>5. ListsOK'
  BY <1>1, <1>3 DEF ListsOK, Known, Distinct, Rev
<1>6. InFlight(f) = {}
  BY <1>1, FlightKnown
<1>7. LatestOK'
  BY <1>1, <1>2, <1>3, <1>6 DEF LatestOK, Somewhere, Raced
<1>8. OrderOK'
  <2>1. SUFFICES ASSUME sdk = "node", sink PROVE OrderOK'
    BY <1>1 DEF OrderOK
  <2>2. \A g, h \in Flushers : batch'[g] # <<>> /\ batch'[h] # <<>> => g = h
    BY <1>1, <1>3, <2>1 DEF SdkTypeOK
  <2>3. \A r \in Revisions(b) : r[2] >= acked[r[1]] /\ r[2] >= failed[r[1]]
    BY <1>1, <1>2, <2>1 DEF OrderOK, Revisions, RevisionOf, Body
  <2>4. SendsInOrder'
    BY <1>1, <1>3, <2>1, <2>3 DEF OrderOK, SendsInOrder
  <2> QED
    BY <2>2, <2>4 DEF OrderOK
<1>9. SkipOK'
  <2>1. \A x \in Traces : acked[x] \in Nat /\ failed[x] \in Nat
    BY <1>1 DEF SdkTypeOK
  <2>2. \A q \in Underway : q \in Underway' /\ q[2] \in Nat
    BY <1>1, <1>2, <1>3, <1>6, FlightKnown, ListSends DEF Underway, Revision
  <2>3. \A g \in Flushers : outcome'[g] = "skipped" =>
          /\ outcome[g] = "skipped" /\ promised'[g] = promised[g]
          /\ batch[g] = <<>> => batch'[g] = <<>>
    BY <1>1, <1>3 DEF SdkTypeOK
  <2>4. \A q \in Underway :
          \E r \in Underway' : r[1] = q[1] /\ r[2] \in Nat /\ r[2] >= q[2]
    BY <2>2
  <2> QED
    BY <1>1, <2>1, <2>3, <2>4, KeptStays
<1> QED
  BY <1>3, <1>4, <1>5, <1>7, <1>8, <1>9 DEF SdkInv

\* A flush without a sink clears the pending list and sends its copy.
LEMMA ClearStep ==
  ASSUME SdkInv, NEW c \in Callers, PyClearPending(c), sdk = "python"
  PROVE  SdkInv'
<1>1. /\ SdkTypeOK /\ ShapeOK /\ ListsOK /\ HandsOK /\ LatestOK /\ PromiseOK /\ SkipOK
      /\ OrderOK
      /\ UNCHANGED <<sdk, sink, envelope, timer, acked, failed, hand, slot, shared>>
      /\ task[c] = "copied" /\ task' = [task EXCEPT ![c] = "idle"]
      /\ buffer' = <<>> /\ StartSending(c, batch[c])
      /\ torn' = torn \cup (TracesOf(buffer) \ TracesOf(batch[c]))
      /\ c \in Flushers
  BY DEF SdkInv, PyClearPending, modeVars, programVars, answerVars, handVars, Flushers
<1>2. ~sink /\ body[c] = NoEnvelope
  BY <1>1 DEF ShapeOK
<1>3. Begun(c)
  <2>1. task \in [Callers -> Tasks] /\ timer \in BOOLEAN
    BY <1>1 DEF SdkTypeOK
  <2>2. UNCHANGED answerVars /\ c # Background
    BY SdkAbsent DEF PyClearPending
  <2> QED
    BY <1>1, <2>1, <2>2 DEF Begun, Tasks, Hands
<1>4. PICK b \in Seq(Entry) : b = batch[c] /\ Known(b) /\ Distinct(b)
  BY <1>1 DEF SdkTypeOK, ListsOK
<1>5. /\ InFlight(c)' = Revisions(b)
      /\ batch' = [batch EXCEPT ![c] = b]
      /\ \A g \in Flushers : g # c => InFlight(g)' = InFlight(g)
      /\ batch' \in [Flushers -> Seq(Entry)]
      /\ body' \in [Flushers -> Envelope \cup {NoEnvelope}]
      /\ outcome' \in [Flushers -> Outcomes]
      /\ promised' \in [Flushers -> SUBSET (Traces \X Revision)]
      /\ ShapeOK' /\ PromiseOK'
      /\ \A g \in Flushers :
           /\ Known(batch[g])' /\ Distinct(batch[g])'
           /\ body'[g] # NoEnvelope => body'[g].rev <= Rev(batch[g][1].trace)'
           /\ g # c => outcome'[g] = outcome[g]
      /\ HandsOK' /\ \A t : Handing(t)' <=> Handing(t)
      /\ outcome'[c] # "skipped"
  BY <1>1, <1>3, <1>4, Starting
<1>6. SdkTypeOK'
  <2>1. TracesOf(buffer) \subseteq Traces
    <3>1. \A i \in DOMAIN buffer : buffer[i] \in Entry
      BY <1>1 DEF SdkTypeOK
    <3> QED
      BY <3>1 DEF TracesOf, Entry
  <2>2. task' \in [Callers -> Tasks]
    BY <1>1 DEF SdkTypeOK, Tasks
  <2> QED
    BY <1>1, <1>5, <2>1, <2>2 DEF SdkTypeOK
<1>7. ListsOK'
  BY <1>1, <1>5 DEF ListsOK, Known, Distinct, Rev
<1>8. InFlight(c) = Revisions(b)
  BY <1>1, <1>2, <1>4, FlightKnown
<1>9. ASSUME NEW x \in Traces, <<x, envelope[x].rev>> \in Revisions(buffer), x \notin torn'
      PROVE  <<x, envelope[x].rev>> \in Revisions(b)
  <2>1. PICK i \in DOMAIN buffer : buffer[i].trace = x
    BY <1>9 DEF Revisions, RevisionOf
  <2>2. x \in TracesOf(b)
    BY <1>1, <1>4, <1>9, <2>1 DEF TracesOf
  <2>3. PICK j \in DOMAIN b : b[j].trace = x
    BY <2>2 DEF TracesOf
  <2>4. RevisionOf(b[j]) = <<x, envelope[x].rev>>
    BY <1>2, <2>3 DEF RevisionOf, Body
  <2> QED
    BY <2>4 DEF Revisions
<1>10. LatestOK'
  <2>1. ASSUME NEW x \in Traces, envelope[x] # NoEnvelope PROVE Somewhere(x)'
    <3>1. CASE x \in torn'
      BY <1>1, <1>2, <3>1 DEF Somewhere, Raced
    <3>2. CASE x \notin torn'
      <4>1. Somewhere(x) /\ ~Raced(x)
        BY <1>1, <1>2, <2>1, <3>2 DEF LatestOK, Raced
      <4>2. CASE <<x, envelope[x].rev>> \in Revisions(b)
        BY <1>1, <1>5, <4>2 DEF Somewhere
      <4>3. CASE <<x, envelope[x].rev>> \notin Revisions(b)
        BY <1>1, <1>5, <1>8, <1>9, <3>2, <4>1, <4>3 DEF Somewhere
      <4> QED
        BY <4>2, <4>3
    <3> QED
      BY <3>1, <3>2
  <2> QED
    BY <1>1, <2>1 DEF LatestOK
<1>11. OrderOK'
  BY <1>1, <1>2 DEF OrderOK
<1>12. SkipOK'
  BY <1>1, <1>5 DEF SkipOK
<1> QED
  BY <1>5, <1>6, <1>7, <1>10, <1>11, <1>12 DEF SdkInv

\* A flush without a sink copies the pending list.
LEMMA CopyStep ==
  ASSUME SdkInv, NEW c \in Callers, PyCopyPending(c), sdk = "python"
  PROVE  SdkInv'
<1>1. /\ SdkTypeOK /\ ShapeOK /\ ListsOK /\ HandsOK /\ LatestOK /\ PromiseOK /\ SkipOK
      /\ OrderOK
      /\ UNCHANGED <<sdk, sink, envelope, timer, buffer, body, outcome, promised, acked,
                     failed, hand, slot, shared, torn>>
      /\ task[c] \notin Hands
      /\ ~sink /\ batch[c] = <<>> /\ task' = [task EXCEPT ![c] = "copied"]
      /\ batch' = [batch EXCEPT ![c] = buffer]
      /\ c \in Flushers
  BY DEF SdkInv, PyCopyPending, Free, modeVars, programVars, answerVars, handVars, raceVars,
         Flushers, Hands
<1>2. body[c] = NoEnvelope /\ outcome[c] # "running"
  BY <1>1 DEF ShapeOK, PromiseOK
<1>3. /\ batch \in [Flushers -> Seq(Entry)] /\ buffer \in Seq(Entry)
      /\ task \in [Callers -> Tasks]
  BY <1>1 DEF SdkTypeOK
<1>4. /\ batch'[c] = buffer /\ \A g \in Flushers : g # c => batch'[g] = batch[g]
      /\ task'[c] = "copied" /\ \A d \in Callers : d # c => task'[d] = task[d]
      /\ batch' \in [Flushers -> Seq(Entry)]
      /\ task' \in [Callers -> Tasks]
  BY <1>1, <1>3 DEF Tasks
<1>5. HandsOK' /\ \A t : Handing(t)' <=> Handing(t)
  <2>1. \A d \in Callers : task'[d] \in Hands => d # c /\ d \in Flushers
    BY <1>4 DEF Hands, Flushers
  <2>2. \A d \in Callers : \/ task'[d] = task[d]
                           \/ task[d] \notin Hands /\ task'[d] \notin Hands
    BY <1>1, <1>4 DEF Hands
  <2>3. \A d \in Callers : task'[d] \in Hands /\ batch[d] = <<>> => batch'[d] = <<>>
    BY <1>4, <2>1
  <2> QED
    BY <1>1, <2>2, <2>3, HandsKept
<1>6. InFlight(c) = {} /\ \A g \in Flushers : g # c => InFlight(g)' = InFlight(g)
  <2>1. ASSUME NEW g \in Flushers, g # c PROVE InFlight(g)' = InFlight(g)
    BY <1>1, <1>4, <2>1, FlightKept
  <2> QED
    BY <1>1, <2>1, FlightKnown
<1>7. SdkTypeOK'
  BY <1>1, <1>4 DEF SdkTypeOK
<1>8. ShapeOK'
  <2>1. timer => sink
    BY <1>1 DEF ShapeOK
  <2> QED
    BY <1>1, <1>2, <1>4, <2>1 DEF ShapeOK, Flushers
<1>9. ListsOK'
  <2>1. ASSUME NEW g \in Flushers
        PROVE  /\ Known(batch[g])' /\ Distinct(batch[g])'
               /\ body'[g] # NoEnvelope => body'[g].rev <= Rev(batch[g][1].trace)'
    <3>1. CASE g = c
      BY <1>1, <1>2, <1>4, <3>1 DEF ListsOK, Known, Distinct, Rev
    <3>2. CASE g # c
      BY <1>1, <1>4, <3>2 DEF ListsOK, Known, Distinct, Rev
    <3> QED
      BY <3>1, <3>2
  <2> QED
    BY <1>1, <2>1 DEF ListsOK, Known, Distinct, Rev
<1>10. LatestOK'
  <2>1. Revisions(buffer)' = Revisions(buffer)
    BY <1>1 DEF Revisions, RevisionOf, Body
  <2>2. HandsOK' /\ \A t : Handing(t)' <=> Handing(t)
    BY <1>5
  <2> QED
    BY <1>1, <1>6, <2>1, <2>2 DEF LatestOK, Somewhere, Raced
<1>11. PromiseOK'
  BY <1>1, <1>2, <1>6 DEF PromiseOK
<1>12. OrderOK'
  BY <1>1 DEF OrderOK
<1>13. SkipOK'
  BY <1>1 DEF SkipOK
<1> QED
  BY <1>5, <1>7, <1>8, <1>9, <1>10, <1>11, <1>12, <1>13 DEF SdkInv

\* A flush of the Node transport that leaves the buffer to one under way.
LEMMA SkipStep ==
  ASSUME SdkInv, sdk = "node", sink, NEW f \in Flushers, batch[f] = <<>>,
         outcome' = [outcome EXCEPT ![f] = "skipped"],
         promised' = [promised EXCEPT ![f] = Revisions(buffer)],
         timer' \in BOOLEAN, timer' => timer,
         UNCHANGED <<sdk, sink, envelope, buffer, batch, body, acked, failed, hand, slot,
                     shared, torn>>,
         task' \in [Callers -> Tasks],
         \A c \in Callers : task'[c] = task[c] \/ task'[c] \in {"idle", "answered"}
  PROVE  SdkInv'
<1>1. /\ SdkTypeOK /\ ShapeOK /\ ListsOK /\ HandsOK /\ LatestOK /\ PromiseOK /\ SkipOK
      /\ OrderOK
  BY DEF SdkInv
<1>2. \A g \in Flushers : InFlight(g)' = InFlight(g)
  BY FlightKept
<1>3. \A g \in Flushers :
        /\ g = f => outcome'[g] = "skipped" /\ promised'[g] = Revisions(buffer)
        /\ g # f => outcome'[g] = outcome[g] /\ promised'[g] = promised[g]
  BY <1>1 DEF SdkTypeOK
<1>4. Revisions(buffer) \subseteq Traces \X Revision /\ Revisions(buffer)' = Revisions(buffer)
  <2>1. Revisions(buffer)' = Revisions(buffer)
    BY DEF Revisions, RevisionOf, Body
  <2> QED
    BY <1>1, <2>1, ListSends DEF SdkTypeOK, ListsOK
<1>5. SdkTypeOK'
  <2>1. outcome' \in [Flushers -> Outcomes] /\ promised' \in [Flushers -> SUBSET (Traces \X Revision)]
    BY <1>1, <1>4 DEF SdkTypeOK, Outcomes
  <2> QED
    BY <1>1, <2>1 DEF SdkTypeOK
<1>6. ShapeOK'
  BY <1>1 DEF ShapeOK, Flushers
<1>7. ListsOK'
  BY <1>1 DEF ListsOK, Known, Distinct, Rev
<1>8. HandsOK' /\ \A t : ~Handing(t) /\ ~Raced(t)
  BY <1>1, NodeHands, NodeHandsNothing
<1>9. LatestOK'
  BY <1>1, <1>2, <1>4, <1>8 DEF LatestOK, Somewhere
<1>10. PromiseOK'
  BY <1>1, <1>2, <1>3 DEF PromiseOK
<1>11. SkipOK'
  <2>1. \A p \in Revisions(buffer) : p[2] >= p[2]
    BY <1>4 DEF Revision
  <2>2. \A p : KeptOf(p)' <=> KeptOf(p)
    BY <1>2, <1>4 DEF KeptOf, AnsweredBy
  <2>3. \A p \in Revisions(buffer) : KeptOf(p)
    BY <2>1 DEF KeptOf
  <2> QED
    BY <1>1, <1>3, <2>2, <2>3 DEF SkipOK
<1>12. OrderOK'
  BY <1>1, <1>2 DEF OrderOK, SendsInOrder
<1> QED
  BY <1>5, <1>6, <1>7, <1>8, <1>9, <1>10, <1>11, <1>12 DEF SdkInv

\* A change that fills the buffer of the Node transport, which sends it at once.
LEMMA RecordSendStep ==
  ASSUME SdkInv, NEW t \in Traces, NEW e, NodeRecorded(t, e), sink,
         \A f \in Flushers : batch[f] = <<>>,
         StartSending(Background, Upsert(buffer, t, e)), buffer' = <<>>
  PROVE  SdkInv'
<1>1. PICK u : u = Upsert(buffer, t, e)
  OBVIOUS
<1>2. /\ SdkTypeOK /\ ShapeOK /\ ListsOK /\ HandsOK /\ LatestOK /\ PromiseOK /\ SkipOK
      /\ OrderOK
      /\ UNCHANGED <<sdk, sink, timer, acked, failed, hand, slot, shared, torn>>
      /\ task' \in [Callers -> Tasks]
      /\ \A c \in Callers : task'[c] = task[c] \/ task'[c] \in {"idle", "answered"}
      /\ sdk = "node" /\ Recorded(t, e)
      /\ Background \in Flushers
      /\ StartSending(Background, u)
  BY <1>1 DEF SdkInv, NodeRecorded, Recorded, answerVars, Flushers
<1>3. /\ envelope' \in [Traces -> Envelope \cup {NoEnvelope}]
      /\ \A x \in Traces :
           /\ Rev(x) \in Nat /\ Rev(x)' \in Nat /\ Rev(x) <= Rev(x)'
           /\ x # t => envelope'[x] = envelope[x] /\ Rev(x)' = Rev(x)
           /\ envelope[x] # NoEnvelope => envelope'[x] # NoEnvelope
           /\ envelope'[x] # NoEnvelope => envelope'[x].rev = Rev(x)'
      /\ envelope'[t] = e /\ e # NoEnvelope /\ Rev(t)' = e.rev /\ Rev(t) < e.rev
  BY <1>2, RecordedRevs
<1>4. /\ u \in Seq(Entry) /\ u # <<>> /\ Known(u)' /\ Distinct(u)
      /\ <<t, e.rev>> \in Revisions(u)'
      /\ \A r \in Revisions(buffer) : r[1] # t => r \in Revisions(u)'
      /\ \A i \in DOMAIN u :
           \/ u[i].trace = t /\ u[i].envelope = e
           \/ \E j \in DOMAIN buffer : u[i] = buffer[j] /\ buffer[j].trace # t
  BY <1>1, <1>2, RecordedBuffer
<1>5. /\ u[1] \in Entry /\ Body(u[1]) = u[1].envelope /\ Body(u[1]) \in Envelope
      /\ Body(u[1]) # NoEnvelope /\ 1 \in DOMAIN u
  <2>1. u[1] \in Entry /\ 1 \in DOMAIN u
    BY <1>4
  <2> QED
    BY <2>1, EnvelopeAbsent DEF Body, Entry
<1>6. /\ batch' = [batch EXCEPT ![Background] = u]
      /\ promised' = [promised EXCEPT ![Background] = Revisions(u)]
      /\ outcome' = [outcome EXCEPT ![Background] = "running"]
      /\ body' = [body EXCEPT ![Background] = Body(u[1])]
  BY <1>2, <1>4 DEF StartSending
<1>7. /\ batch'[Background] = u /\ promised'[Background] = Revisions(u)
      /\ outcome'[Background] = "running" /\ body'[Background] = Body(u[1])
      /\ \A g \in Flushers : g # Background =>
           /\ batch'[g] = <<>> /\ body'[g] = NoEnvelope
           /\ outcome'[g] = outcome[g] /\ promised'[g] = promised[g]
           /\ outcome[g] # "running"
  BY <1>2, <1>6 DEF SdkTypeOK, ShapeOK, PromiseOK
<1>8. Revisions(u)' = Revisions(u)
  BY <1>2 DEF Revisions, RevisionOf, Body
<1>9. Revisions(u) \subseteq Traces \X Revision
  <2>1. ASSUME NEW i \in DOMAIN u PROVE RevisionOf(u[i]) \in Traces \X Revision
    <3>1. u[i] \in Entry
      BY <1>4, <2>1
    <3> QED
      BY <3>1 DEF Entry, Envelope, RevisionOf, Body
  <2> QED
    BY <2>1 DEF Revisions
<1>10. /\ InFlight(Background)' = Revisions(u)
      /\ \A g \in Flushers : g # Background => InFlight(g)' = {}
  <2>1. InFlight(Background)' = {<<u[1].trace, Body(u[1]).rev>>} \cup Revisions(Tail(u))'
    BY <1>5, <1>7 DEF InFlight
  <2>2. Revisions(Tail(u))' = Revisions(Tail(u))
    BY <1>2 DEF Revisions, RevisionOf, Body
  <2>3. Revisions(u) = {RevisionOf(u[1])} \cup Revisions(Tail(u))
    BY <1>4, HeadAndTail
  <2>4. \A g \in Flushers : g # Background => InFlight(g)' = {}
    BY <1>7 DEF InFlight, Revisions
  <2> QED
    BY <2>1, <2>2, <2>3, <2>4 DEF RevisionOf
<1>11. SdkTypeOK'
  BY <1>2, <1>3, <1>4, <1>5, <1>6, <1>9 DEF SdkTypeOK, Outcomes
<1>12. ShapeOK'
  BY <1>2, <1>4, <1>5, <1>7 DEF ShapeOK, Flushers
<1>13. HandsOK' /\ \A x : ~Handing(x) /\ ~Raced(x)
  BY <1>2, NodeHands, NodeHandsNothing
<1>14. ListsOK'
  <2>1. body'[Background].rev <= Rev(batch[Background][1].trace)'
    <3>1. u[1].envelope.rev <= Rev(u[1].trace)'
      BY <1>4, <1>5 DEF Known
    <3> QED
      BY <1>5, <1>7, <3>1 DEF Rev
  <2>2. ASSUME NEW g \in Flushers
        PROVE  /\ Known(batch[g])' /\ Distinct(batch[g])'
               /\ body'[g] # NoEnvelope => body'[g].rev <= Rev(batch[g][1].trace)'
    <3>1. CASE g = Background
      <4>1. Known(batch[g])'
        BY <1>4, <1>7, <3>1 DEF Known
      <4>2. Distinct(batch[g])'
        BY <1>2, <1>4, <1>7, <3>1 DEF Distinct
      <4> QED
        BY <2>1, <3>1, <4>1, <4>2
    <3>2. CASE g # Background
      BY <1>7, <3>2 DEF Known, Distinct
    <3> QED
      BY <3>1, <3>2
  <2>3. \A x \in Traces : acked'[x] <= Rev(x)' /\ failed'[x] <= Rev(x)'
    BY <1>2, <1>3 DEF ListsOK, SdkTypeOK
  <2> QED
    BY <2>2, <2>3 DEF ListsOK, Known, Distinct
<1>15. LatestOK'
  <2>1. ASSUME NEW x \in Traces, envelope'[x] # NoEnvelope PROVE Somewhere(x)'
    <3>1. CASE x = t
      BY <1>2, <1>3, <1>4, <1>8, <1>10, <3>1 DEF Somewhere
    <3>2. CASE x # t
      <4> DEFINE r == <<x, envelope[x].rev>>
      <4>1. Somewhere(x) /\ envelope'[x] = envelope[x] /\ r[1] # t
        BY <1>2, <1>3, <2>1, <3>2 DEF LatestOK
      <4>2. CASE r \in Revisions(buffer)
        BY <1>2, <1>4, <1>8, <1>10, <4>1, <4>2 DEF Somewhere
      <4>3. CASE \E f \in Flushers : r \in InFlight(f)
        BY <1>2, <4>3, FlightKnown
      <4>4. CASE envelope[x].rev \in {acked[x], failed[x]}
        BY <1>2, <4>1, <4>4 DEF Somewhere
      <4> QED
        BY <1>13, <4>1, <4>2, <4>3, <4>4 DEF Somewhere
    <3> QED
      BY <3>1, <3>2
  <2> QED
    BY <2>1 DEF LatestOK
<1>16. PromiseOK'
  <2>1. \A p \in Revisions(u) : p[2] >= p[2]
    BY <1>9 DEF Revision
  <2> QED
    BY <1>2, <1>5, <1>7, <1>10, <2>1 DEF PromiseOK
<1>17. OrderOK'
  <2>1. \A g, h \in Flushers : batch'[g] # <<>> /\ batch'[h] # <<>> => g = h
    BY <1>7
  <2>2. ASSUME NEW i \in DOMAIN u
        PROVE  /\ u[i].envelope.rev >= acked[u[i].trace]
               /\ u[i].envelope.rev >= failed[u[i].trace]
    <3>1. CASE u[i].trace = t /\ u[i].envelope = e
      <4>1. e.rev \in Nat /\ acked[t] \in Nat /\ failed[t] \in Nat
            /\ acked[t] <= Rev(t) /\ failed[t] <= Rev(t)
        BY <1>2, <1>3 DEF SdkTypeOK, ListsOK
      <4> QED
        BY <1>3, <3>1, <4>1
    <3>2. CASE \E j \in DOMAIN buffer : u[i] = buffer[j]
      BY <1>2, <3>2 DEF OrderOK
    <3> QED
      BY <1>4, <3>1, <3>2
  <2>3. \A r \in Revisions(u) : r[2] >= acked[r[1]] /\ r[2] >= failed[r[1]]
    BY <2>2 DEF Revisions, RevisionOf, Body
  <2>4. SendsInOrder'
    BY <1>2, <1>10, <2>3 DEF SendsInOrder
  <2> QED
    BY <2>1, <2>4 DEF OrderOK
<1>18. SkipOK'
  <2>1. ASSUME NEW q \in Underway
        PROVE  \E r \in Underway' : r[1] = q[1] /\ r[2] \in Nat /\ r[2] >= q[2]
    <3>1. \A g \in Flushers : InFlight(g) = {}
      BY <1>2, FlightKnown
    <3>2. q \in Revisions(buffer) /\ q[1] \in Traces /\ q[2] \in Nat /\ q[2] <= Rev(q[1])
      BY <1>2, <2>1, <3>1, ListSends DEF Underway, SdkTypeOK, ListsOK, Revision
    <3>3. Revisions(u) \subseteq Underway'
      BY <1>2, <1>10 DEF Underway
    <3>4. CASE q[1] = t
      <4>1. <<t, e.rev>> \in Revisions(u) /\ e.rev \in Nat /\ e.rev >= q[2]
        BY <1>3, <1>4, <1>8, <3>2, <3>4
      <4> QED
        BY <3>3, <3>4, <4>1
    <3>5. CASE q[1] # t
      BY <1>4, <1>8, <3>2, <3>3, <3>5
    <3> QED
      BY <3>4, <3>5
  <2>2. \A x \in Traces : acked[x] \in Nat /\ failed[x] \in Nat
    BY <1>2 DEF SdkTypeOK
  <2>3. \A f \in Flushers : outcome'[f] = "skipped" =>
           /\ outcome[f] = "skipped" /\ promised'[f] = promised[f]
           /\ batch[f] = <<>> => batch'[f] = <<>>
    BY <1>7
  <2> QED
    BY <1>2, <2>1, <2>2, <2>3, KeptStays
<1> QED
  BY <1>11, <1>12, <1>13, <1>14, <1>15, <1>16, <1>17, <1>18 DEF SdkInv

-----------------------------------------------------------------------------
\* What a flush on the wire has under way: its body and the rest of its batch.
LEMMA OnTheWire ==
  ASSUME SdkTypeOK, ShapeOK, ListsOK, NEW f \in Flushers, body[f] # NoEnvelope
  PROVE  \E b \in Seq(Entry), rest \in Seq(Entry) :
           /\ b = batch[f] /\ b # <<>> /\ rest = Tail(b)
           /\ Known(b) /\ Distinct(b) /\ Known(rest) /\ Distinct(rest)
           /\ b[1].trace \in Traces /\ body[f].rev \in Revision
           /\ body[f].rev <= Rev(b[1].trace)
           /\ InFlight(f) = {<<b[1].trace, body[f].rev>>} \cup Revisions(rest)
           /\ sdk = "node" /\ sink => \A r \in Revisions(rest) : r[1] # b[1].trace
<1>1. PICK b \in Seq(Entry) : b = batch[f] /\ Known(b) /\ Distinct(b) /\ b # <<>>
  BY DEF SdkTypeOK, ListsOK, ShapeOK
<1>2. PICK rest \in Seq(Entry) : rest = Tail(b)
  BY <1>1, HeadAndTail
<1>3. /\ Known(rest) /\ Distinct(rest) /\ b[1].trace \in Traces
      /\ sdk = "node" /\ sink => \A r \in Revisions(rest) : r[1] # b[1].trace
  BY <1>1, <1>2, HeadAndTail DEF Entry
<1>4. body[f].rev \in Revision /\ body[f].rev <= Rev(b[1].trace)
  BY <1>1 DEF SdkTypeOK, ListsOK, Envelope
<1>5. InFlight(f) = {<<b[1].trace, body[f].rev>>} \cup Revisions(rest)
  BY <1>1, <1>2 DEF InFlight
<1> QED
  BY <1>1, <1>2, <1>3, <1>4, <1>5

\* What is counted of a trace grows, to no more than its latest revision.
LEMMA CountsUp ==
  ASSUME SdkTypeOK, NEW seen \in [Traces -> Nat], NEW R \in SUBSET (Traces \X Revision),
         NEW w, w = AtLeast(seen, R), \A x \in Traces : seen[x] <= Rev(x),
         \A r \in R : r[2] <= Rev(r[1])
  PROVE  /\ w \in [Traces -> Nat]
         /\ \A x \in Traces : /\ seen[x] \in Nat /\ w[x] \in Nat /\ Rev(x) \in Nat
                              /\ seen[x] <= w[x] /\ w[x] <= Rev(x)
                              /\ w[x] = seen[x] \/ <<x, w[x]>> \in R
                              /\ seen[x] = Rev(x) => w[x] = Rev(x)
         /\ \A r \in R : r[2] <= w[r[1]] /\ r[1] \in Traces
<1>1. PICK bound \in [Traces -> Nat] : \A x \in Traces : bound[x] = Rev(x)
  <2> DEFINE bound == [x \in Traces |-> Rev(x)]
  <2>1. bound \in [Traces -> Nat] /\ \A x \in Traces : bound[x] = Rev(x)
    BY RevIsNat
  <2> QED
    BY <2>1
<1>2. R \in SUBSET (Traces \X Nat) /\ \A r \in R : r[1] \in Traces
  BY DEF Revision
<1>3. /\ \A x \in Traces : seen[x] <= bound[x]
      /\ \A r \in R : r[2] <= bound[r[1]]
  BY <1>1, <1>2
<1>4. /\ w \in [Traces -> Nat]
      /\ \A x \in Traces : /\ seen[x] <= w[x] /\ w[x] <= bound[x]
                           /\ w[x] = seen[x] \/ <<x, w[x]>> \in R
      /\ \A r \in R : r[2] <= w[r[1]]
  BY <1>1, <1>2, <1>3, AtLeastBounds
<1>5. ASSUME NEW x \in Traces
      PROVE  /\ seen[x] \in Nat /\ w[x] \in Nat /\ Rev(x) \in Nat
             /\ seen[x] <= w[x] /\ w[x] <= Rev(x)
             /\ seen[x] = Rev(x) => w[x] = Rev(x)
  <2>1. /\ seen[x] \in Nat /\ w[x] \in Nat /\ bound[x] \in Nat /\ bound[x] = Rev(x)
        /\ seen[x] <= w[x] /\ w[x] <= bound[x]
    BY <1>1, <1>4
  <2> QED
    BY <2>1
<1> QED
  BY <1>2, <1>4, <1>5

\* An answer that is a 2xx.
LEMMA DeliveredStep ==
  ASSUME SdkInv, NEW f \in Flushers, body[f] # NoEnvelope, Delivered(f),
         UNCHANGED <<sdk, sink, envelope, timer, buffer, hand, slot, shared, torn, task>>
  PROVE  SdkInv'
<1>1. /\ SdkTypeOK /\ ShapeOK /\ ListsOK /\ HandsOK /\ LatestOK /\ PromiseOK /\ SkipOK
      /\ OrderOK
  BY DEF SdkInv
<1>2. PICK b \in Seq(Entry), rest \in Seq(Entry) :
        /\ b = batch[f] /\ b # <<>> /\ rest = Tail(b)
        /\ Known(b) /\ Distinct(b) /\ Known(rest) /\ Distinct(rest)
        /\ b[1].trace \in Traces /\ body[f].rev \in Revision
        /\ body[f].rev <= Rev(b[1].trace)
        /\ InFlight(f) = {<<b[1].trace, body[f].rev>>} \cup Revisions(rest)
        /\ sdk = "node" /\ sink => \A r \in Revisions(rest) : r[1] # b[1].trace
  BY <1>1, OnTheWire
<1> DEFINE t == b[1].trace
           n == body[f].rev
<1>3. /\ acked' = AtLeast(acked, {<<t, n>>})
      /\ batch' = [batch EXCEPT ![f] = rest]
      /\ body' = [body EXCEPT ![f] = IF rest = <<>> THEN NoEnvelope ELSE Body(rest[1])]
      /\ outcome' = IF rest = <<>> THEN [outcome EXCEPT ![f] = "ok"] ELSE outcome
      /\ UNCHANGED <<failed, promised>>
  BY <1>2 DEF Delivered, Stop
<1>4. /\ batch'[f] = rest
      /\ body'[f] = (IF rest = <<>> THEN NoEnvelope ELSE Body(rest[1]))
      /\ \A g \in Flushers : g # f => /\ batch'[g] = batch[g] /\ body'[g] = body[g]
                                      /\ outcome'[g] = outcome[g]
      /\ outcome'[f] = (IF rest = <<>> THEN "ok" ELSE outcome[f])
      /\ batch' \in [Flushers -> Seq(Entry)]
  BY <1>1, <1>3 DEF SdkTypeOK
<1>5. /\ InFlight(f)' = Revisions(rest) /\ (rest # <<>> => body'[f] # NoEnvelope)
      /\ \A g \in Flushers : g # f => InFlight(g)' = InFlight(g)
  <2>1. InFlight(f)' = Revisions(rest) /\ (rest # <<>> => body'[f] # NoEnvelope)
    BY <1>1, <1>2, <1>4, FlightStarts
  <2>2. ASSUME NEW g \in Flushers, g # f PROVE InFlight(g)' = InFlight(g)
    BY <1>4, <2>2, FlightKept
  <2> QED
    BY <2>1, <2>2
<1>6. rest # <<>> => /\ Body(rest[1]) \in Envelope
                     /\ Body(rest[1]).rev <= Rev(rest[1].trace)
  BY <1>1, <1>2, HeadAndTail, EntrySends
<1>7. /\ acked' \in [Traces -> Nat]
      /\ \A x \in Traces : /\ acked[x] \in Nat /\ acked'[x] \in Nat /\ Rev(x) \in Nat
                           /\ acked[x] <= acked'[x] /\ acked'[x] <= Rev(x)
                           /\ acked'[x] = acked[x] \/ (x = t /\ acked'[x] = n)
                           /\ acked[x] = Rev(x) => acked'[x] = Rev(x)
      /\ n <= acked'[t] /\ n \in Nat
  <2>1. PICK seen \in [Traces -> Nat] : seen = acked
    BY <1>1 DEF SdkTypeOK
  <2>2. PICK w : w = acked'
    OBVIOUS
  <2>3. PICK R : R = {<<t, n>>}
    OBVIOUS
  <2>4. n \in Revision /\ t \in Traces /\ n <= Rev(t) /\ n \in Nat
    BY <1>2 DEF Revision
  <2> HIDE DEF t, n
  <2>5. /\ R \in SUBSET (Traces \X Revision)
        /\ \A r \in R : r[2] <= Rev(r[1])
    BY <2>3, <2>4
  <2>6. w = AtLeast(seen, R) /\ \A x \in Traces : seen[x] <= Rev(x)
    <3>1. acked' = AtLeast(acked, {<<t, n>>})
      BY <1>3 DEF t, n
    <3>2. \A x \in Traces : acked[x] <= Rev(x)
      BY <1>1 DEF ListsOK
    <3>3. w = AtLeast(seen, R)
      BY <2>1, <2>2, <2>3, <3>1 DEF t, n
    <3>4. \A x \in Traces : seen[x] <= Rev(x)
      BY <2>1, <3>2
    <3> QED
      BY <3>3, <3>4
  <2>7. /\ w \in [Traces -> Nat]
        /\ \A x \in Traces : /\ seen[x] \in Nat /\ w[x] \in Nat /\ Rev(x) \in Nat
                             /\ seen[x] <= w[x] /\ w[x] <= Rev(x)
                             /\ w[x] = seen[x] \/ <<x, w[x]>> \in R
                             /\ seen[x] = Rev(x) => w[x] = Rev(x)
        /\ \A r \in R : r[2] <= w[r[1]] /\ r[1] \in Traces
    BY <1>1, <2>5, <2>6, CountsUp, SMTT(60)
  <2>8. n <= w[t] /\ \A x, y : <<x, y>> \in R => x = t /\ y = n
    BY <2>3, <2>7
  <2> QED
    BY <2>1, <2>2, <2>4, <2>7, <2>8
<1> HIDE DEF t, n
<1>8. SdkTypeOK'
  <2>1. body' \in [Flushers -> Envelope \cup {NoEnvelope}]
        /\ outcome' \in [Flushers -> Outcomes]
    BY <1>1, <1>3, <1>6 DEF SdkTypeOK, Outcomes
  <2> QED
    BY <1>1, <1>3, <1>4, <1>7, <2>1 DEF SdkTypeOK
<1>9. ShapeOK'
  BY <1>1, <1>2, <1>4, <1>5 DEF ShapeOK, Flushers
<1>10. HandsOK' /\ \A x : Handing(x)' <=> Handing(x)
  <2>1. \A c \in Callers : c \in Flushers /\ (c = f => batch[c] # <<>>)
    BY <1>2 DEF Flushers
  <2>2. \A c \in Callers : task'[c] \in Hands /\ batch[c] = <<>> => batch'[c] = <<>>
    BY <1>1, <1>3, <2>1 DEF SdkTypeOK
  <2> QED
    BY <1>1, <2>2, HandsKept
<1>11. ListsOK'
  <2>1. ASSUME NEW g \in Flushers
        PROVE  /\ Known(batch[g])' /\ Distinct(batch[g])'
               /\ body'[g] # NoEnvelope => body'[g].rev <= Rev(batch[g][1].trace)'
    <3>1. CASE g = f
      <4>1. Known(rest)'
        BY <1>2 DEF Known, Rev
      <4>2. body'[f] # NoEnvelope => body'[f].rev <= Rev(rest[1].trace)'
        BY <1>4, <1>6 DEF Rev
      <4> QED
        <5>1. PICK c : c = rest
          OBVIOUS
        <5>2. /\ Known(c)' /\ Distinct(c) /\ batch'[f] = c
              /\ body'[f] # NoEnvelope => body'[f].rev <= Rev(c[1].trace)'
          BY <1>2, <1>4, <4>1, <4>2, <5>1
        <5>3. Distinct(batch[g])'
          BY <3>1, <5>2 DEF Distinct
        <5>4. Known(batch[g])'
          BY <3>1, <5>2 DEF Known
        <5> QED
          BY <3>1, <5>2, <5>3, <5>4
    <3>2. CASE g # f
      <4>1. /\ Known(batch[g]) /\ Distinct(batch[g])
            /\ body[g] # NoEnvelope => body[g].rev <= Rev(batch[g][1].trace)
            /\ batch'[g] = batch[g] /\ body'[g] = body[g]
        BY <1>1, <1>4, <3>2 DEF ListsOK
      <4>2. Known(batch[g])'
        BY <4>1 DEF Known, Rev
      <4>3. Distinct(batch[g])'
        BY <4>1 DEF Distinct
      <4> QED
        BY <4>1, <4>2, <4>3 DEF Rev
    <3> QED
      BY <3>1, <3>2
  <2>2. \A x \in Traces : Rev(x)' = Rev(x)
    BY DEF Rev
  <2> QED
    BY <1>1, <1>3, <1>7, <2>1, <2>2 DEF ListsOK, Known, Distinct, Rev
<1>12. LatestOK'
  <2>1. Revisions(buffer)' = Revisions(buffer)
    BY DEF Revisions, RevisionOf, Body
  <2>2. ASSUME NEW x \in Traces, envelope[x] # NoEnvelope PROVE Somewhere(x)'
    <3>1. Somewhere(x) /\ envelope[x].rev = Rev(x)
      BY <1>1, <2>2, RevIsNat DEF LatestOK
    <3>2. CASE envelope[x].rev = acked[x]
      <4>1. acked'[x] = envelope[x].rev
        BY <1>7, <3>1, <3>2
      <4> QED
        BY <4>1 DEF Somewhere
    <3>3. CASE x = t /\ envelope[x].rev = n
      <4>1. acked'[x] \in Nat /\ n <= acked'[x] /\ acked'[x] <= n /\ n \in Nat
        BY <1>7, <3>1, <3>3
      <4>2. acked'[x] = envelope[x].rev
        BY <3>3, <4>1
      <4> QED
        BY <4>2 DEF Somewhere
    <3>4. CASE <<x, envelope[x].rev>> \in Revisions(rest)
      BY <1>5, <3>4 DEF Somewhere
    <3>5. CASE \E g \in Flushers : g # f /\ <<x, envelope[x].rev>> \in InFlight(g)
      BY <1>5, <3>5 DEF Somewhere
    <3>6. CASE \/ envelope[x].rev = failed[x] \/ Raced(x) \/ Handing(x)
               \/ <<x, envelope[x].rev>> \in Revisions(buffer)
      BY <1>3, <1>10, <2>1, <3>6 DEF Somewhere, Raced
    <3>7. \A g \in Flushers : g = f =>
            InFlight(g) = {<<t, n>>} \cup Revisions(rest)
      BY <1>2 DEF t, n
    <3> QED
      BY <3>1, <3>2, <3>3, <3>4, <3>5, <3>6, <3>7 DEF Somewhere
  <2> QED
    BY <2>2 DEF LatestOK
<1>13. PromiseOK'
  <2>1. \A g \in Flushers : promised[g] \subseteq Traces \X Revision
    BY <1>1 DEF SdkTypeOK
  <2>2. \A g \in Flushers : \A p \in promised[g] :
          acked[p[1]] >= p[2] => acked'[p[1]] >= p[2]
    <3>1. \A x \in Traces : \A k \in Nat : acked[x] >= k => acked'[x] >= k
      BY <1>7
    <3> QED
      BY <2>1, <3>1 DEF Revision
  <2>3. ASSUME NEW p \in promised[f], outcome[f] = "running"
        PROVE  \/ acked'[p[1]] >= p[2]
               \/ \E q \in Revisions(rest) : q[1] = p[1] /\ q[2] >= p[2]
    <3>1. CASE acked[p[1]] >= p[2]
      BY <2>2, <2>3, <3>1
    <3>2. ASSUME NEW q \in InFlight(f), q[1] = p[1], q[2] >= p[2], q = <<t, n>>
          PROVE  acked'[p[1]] >= p[2]
      <4>1. p[1] = t /\ n >= p[2] /\ p[2] \in Nat
        BY <2>1, <3>2 DEF Revision
      <4>2. acked'[t] \in Nat
        BY <1>2, <1>7 DEF t
      <4> QED
        BY <1>7, <4>1, <4>2
    <3>3. \/ acked[p[1]] >= p[2] \/ \E q \in InFlight(f) : q[1] = p[1] /\ q[2] >= p[2]
      BY <1>1, <2>3 DEF PromiseOK
    <3>4. InFlight(f) = {<<t, n>>} \cup Revisions(rest)
      BY <1>2 DEF t, n
    <3> QED
      BY <3>1, <3>2, <3>3, <3>4
  <2>4. /\ outcome'[f] = "running" =>
             /\ body'[f] # NoEnvelope
             /\ \A p \in promised'[f] :
                  acked'[p[1]] >= p[2] \/ \E q \in InFlight(f)' : q[1] = p[1] /\ q[2] >= p[2]
        /\ outcome'[f] = "ok" => \A p \in promised'[f] : acked'[p[1]] >= p[2]
        /\ outcome'[f] = "error" => promised'[f] = {}
    <3>1. CASE rest = <<>>
      <4>1. Revisions(rest) = {}
        BY <3>1 DEF Revisions
      <4>2. outcome[f] \in {"running", "ok", "error"}
        BY <1>1, <1>2 DEF SdkTypeOK, Outcomes, SkipOK
      <4>3. outcome[f] = "running" => \A p \in promised[f] : acked'[p[1]] >= p[2]
        BY <2>3, <4>1
      <4>4. outcome[f] = "ok" => \A p \in promised[f] : acked'[p[1]] >= p[2]
        BY <1>1, <2>2 DEF PromiseOK
      <4>5. outcome[f] = "error" => \A p \in promised[f] : acked'[p[1]] >= p[2]
        BY <1>1 DEF PromiseOK
      <4> QED
        <5>1. \A p \in promised[f] : acked'[p[1]] >= p[2]
          BY <4>2, <4>3, <4>4, <4>5
        <5>2. outcome'[f] = "ok" /\ promised' = promised
          BY <1>3, <1>4, <3>1
        <5> QED
          BY <5>1, <5>2
    <3>2. CASE rest # <<>>
      BY <1>1, <1>3, <1>4, <1>5, <2>2, <2>3, <3>2 DEF PromiseOK
    <3> QED
      BY <3>1, <3>2
  <2>5. ASSUME NEW g \in Flushers, g # f
        PROVE  /\ outcome'[g] = "running" =>
                    /\ body'[g] # NoEnvelope
                    /\ \A p \in promised'[g] :
                         \/ acked'[p[1]] >= p[2]
                         \/ \E q \in InFlight(g)' : q[1] = p[1] /\ q[2] >= p[2]
               /\ outcome'[g] = "ok" => \A p \in promised'[g] : acked'[p[1]] >= p[2]
               /\ outcome'[g] = "error" => promised'[g] = {}
    <3>1. /\ outcome'[g] = outcome[g] /\ promised'[g] = promised[g] /\ body'[g] = body[g]
          /\ InFlight(g)' = InFlight(g)
      BY <1>3, <1>4, <1>5, <2>5
    <3>2. /\ outcome[g] = "running" =>
               /\ body[g] # NoEnvelope
               /\ \A p \in promised[g] :
                    \/ acked[p[1]] >= p[2]
                    \/ \E q \in InFlight(g) : q[1] = p[1] /\ q[2] >= p[2]
          /\ outcome[g] = "ok" => \A p \in promised[g] : acked[p[1]] >= p[2]
          /\ outcome[g] = "error" => promised[g] = {}
      BY <1>1 DEF PromiseOK
    <3>3. \A p \in promised[g] : acked[p[1]] >= p[2] => acked'[p[1]] >= p[2]
      BY <2>2
    <3> QED
      BY <3>1, <3>2, <3>3
  <2> QED
    BY <2>4, <2>5 DEF PromiseOK
<1>14. OrderOK'
  <2>1. SUFFICES ASSUME sdk = "node", sink PROVE OrderOK'
    BY DEF OrderOK
  <2>2. \A g, h \in Flushers : batch'[g] # <<>> /\ batch'[h] # <<>> => g = h
    BY <1>1, <1>2, <1>4, <2>1 DEF OrderOK
  <2>3. \A g \in Flushers : g # f => InFlight(g) = {}
    BY <1>1, <1>2, <2>1, FlightKnown DEF OrderOK
  <2>4. InFlight(f) = {<<t, n>>} \cup Revisions(rest)
    BY <1>2 DEF t, n
  <2>5. ASSUME NEW i \in DOMAIN buffer
        PROVE  /\ buffer[i].envelope.rev >= acked'[buffer[i].trace]
               /\ buffer[i].envelope.rev >= failed[buffer[i].trace]
               /\ \A g \in Flushers : \A r \in InFlight(g)' :
                    r[1] = buffer[i].trace => r[2] <= buffer[i].envelope.rev
    <3>1. /\ buffer[i].envelope.rev >= acked[buffer[i].trace]
          /\ buffer[i].envelope.rev >= failed[buffer[i].trace]
          /\ \A g \in Flushers : \A r \in InFlight(g) :
               r[1] = buffer[i].trace => r[2] <= buffer[i].envelope.rev
      BY <1>1, <2>1 DEF OrderOK
    <3>2. buffer[i].trace \in Traces /\ buffer[i].envelope.rev \in Nat
      <4>1. buffer[i] \in Entry
        BY <1>1 DEF SdkTypeOK
      <4> QED
        BY <4>1 DEF Entry, Envelope, Revision
    <3>3. t = buffer[i].trace => n <= buffer[i].envelope.rev
      <4>1. <<t, n>> \in InFlight(f)
        BY <2>4
      <4> QED
        BY <3>1, <4>1
    <3>4. buffer[i].envelope.rev >= acked'[buffer[i].trace]
      BY <1>7, <3>1, <3>2, <3>3
    <3>5. \A g \in Flushers : InFlight(g)' \subseteq InFlight(g)
      BY <1>5, <2>4
    <3> QED
      BY <3>1, <3>4, <3>5
  <2>6. \A r \in Revisions(rest) : r[2] >= acked'[r[1]] /\ r[2] >= failed[r[1]]
    <3>1. ASSUME NEW r \in Revisions(rest)
          PROVE  r[2] >= acked'[r[1]] /\ r[2] >= failed[r[1]]
      <4>1. r[2] >= acked[r[1]] /\ r[2] >= failed[r[1]]
        BY <1>1, <2>1, <2>4, <3>1 DEF OrderOK, SendsInOrder
      <4>2. r[1] \in Traces /\ r[1] # t
        BY <1>1, <1>2, <2>1, <3>1, ListSends DEF t
      <4>3. acked'[r[1]] = acked[r[1]]
        BY <1>7, <4>2
      <4> QED
        BY <4>1, <4>3
    <3> QED
      BY <3>1
  <2>7. SendsInOrder'
    BY <1>3, <1>5, <2>3, <2>6 DEF SendsInOrder
  <2> QED
    BY <1>3, <2>2, <2>5, <2>7 DEF OrderOK
<1>15. SkipOK'
  <2>1. ASSUME NEW q \in Underway
        PROVE  \/ acked'[q[1]] >= q[2]
               \/ \E r \in Underway' : r[1] = q[1] /\ r[2] \in Nat /\ r[2] >= q[2]
    <3>1. q[2] \in Nat /\ q[2] >= q[2]
      BY <1>1, <2>1, FlightKnown, ListSends DEF Underway, SdkTypeOK, ListsOK, Revision
    <3>2. Revisions(buffer)' = Revisions(buffer)
      BY DEF Revisions, RevisionOf, Body
    <3>3. InFlight(f) = {<<t, n>>} \cup Revisions(rest)
      BY <1>2 DEF t, n
    <3>4. q = <<t, n>> \/ q \in Underway'
      BY <1>5, <2>1, <3>2, <3>3 DEF Underway
    <3>5. CASE q = <<t, n>>
      <4>1. acked'[t] \in Nat /\ t \in Traces /\ n <= acked'[t] /\ n \in Nat
        BY <1>2, <1>7 DEF t
      <4> QED
        BY <3>5, <4>1
    <3> QED
      BY <3>1, <3>4, <3>5
  <2>2. \A x \in Traces : acked'[x] \in Nat /\ failed[x] \in Nat /\ failed[x] <= failed[x]
                          /\ acked[x] <= acked'[x]
    BY <1>1, <1>7 DEF SdkTypeOK
  <2>3. \A g \in Flushers : outcome'[g] = "skipped" =>
           /\ outcome[g] = "skipped" /\ promised'[g] = promised[g]
           /\ batch[g] = <<>> => batch'[g] = <<>>
    BY <1>1, <1>2, <1>3, <1>4 DEF SkipOK
  <2> QED
    BY <1>1, <1>3, <2>1, <2>2, <2>3, KeptStays
<1> QED
  BY <1>8, <1>9, <1>10, <1>11, <1>12, <1>13, <1>14, <1>15 DEF SdkInv

\* An answer after which the flush is given up.
LEMMA GiveUpStep ==
  ASSUME SdkInv, NEW f \in Flushers, body[f] # NoEnvelope, GiveUp(f),
         UNCHANGED <<sdk, sink, envelope, timer, buffer, hand, slot, shared, torn>>,
         task' \in [Callers -> Tasks],
         \A c \in Callers : task'[c] = task[c] \/ (c = f /\ task'[c] = "idle")
  PROVE  SdkInv'
<1>1. /\ SdkTypeOK /\ ShapeOK /\ ListsOK /\ HandsOK /\ LatestOK /\ PromiseOK /\ SkipOK
      /\ OrderOK
  BY DEF SdkInv
<1>2. /\ failed' = AtLeast(failed, InFlight(f))
      /\ promised' = [promised EXCEPT ![f] = {}]
      /\ batch' = [batch EXCEPT ![f] = <<>>]
      /\ body' = [body EXCEPT ![f] = NoEnvelope]
      /\ outcome' = [outcome EXCEPT ![f] = "error"]
      /\ UNCHANGED acked
  BY DEF GiveUp, Stop
<1>3. /\ batch \in [Flushers -> Seq(Entry)]
      /\ body \in [Flushers -> Envelope \cup {NoEnvelope}]
      /\ outcome \in [Flushers -> Outcomes]
      /\ promised \in [Flushers -> SUBSET (Traces \X Revision)]
  BY <1>1 DEF SdkTypeOK
<1>4. /\ batch'[f] = <<>> /\ body'[f] = NoEnvelope /\ outcome'[f] = "error" /\ promised'[f] = {}
      /\ \A g \in Flushers : g # f =>
           /\ batch'[g] = batch[g] /\ body'[g] = body[g]
           /\ outcome'[g] = outcome[g] /\ promised'[g] = promised[g]
      /\ <<>> \in Seq(Entry)
  BY <1>2, <1>3
<1>5. InFlight(f)' = {} /\ \A g \in Flushers : g # f => InFlight(g)' = InFlight(g)
  <2>1. InFlight(f)' = {}
    BY <1>4 DEF InFlight, Revisions
  <2>2. ASSUME NEW g \in Flushers, g # f PROVE InFlight(g)' = InFlight(g)
    BY <1>4, <2>2, FlightKept
  <2> QED
    BY <2>1, <2>2
<1>6. PICK w : w = failed'
  OBVIOUS
<1>7. /\ w \in [Traces -> Nat]
      /\ \A x \in Traces : /\ failed[x] \in Nat /\ w[x] \in Nat /\ Rev(x) \in Nat
                           /\ failed[x] <= w[x] /\ w[x] <= Rev(x)
                           /\ w[x] = failed[x] \/ <<x, w[x]>> \in InFlight(f)
                           /\ failed[x] = Rev(x) => w[x] = Rev(x)
      /\ \A r \in InFlight(f) : r[2] <= w[r[1]] /\ r[1] \in Traces
  <2>1. PICK seen \in [Traces -> Nat] : seen = failed
    BY <1>1 DEF SdkTypeOK
  <2>2. PICK R : R = InFlight(f)
    OBVIOUS
  <2>3. R \in SUBSET (Traces \X Revision) /\ \A r \in R : r[2] <= Rev(r[1])
    BY <1>1, <2>2, FlightKnown
  <2>4. w = AtLeast(seen, R)
    BY <1>2, <1>6, <2>1, <2>2
  <2>5. \A x \in Traces : seen[x] <= Rev(x)
    BY <1>1, <2>1 DEF ListsOK
  <2>6. /\ w \in [Traces -> Nat]
        /\ \A x \in Traces : /\ seen[x] \in Nat /\ w[x] \in Nat /\ Rev(x) \in Nat
                             /\ seen[x] <= w[x] /\ w[x] <= Rev(x)
                             /\ w[x] = seen[x] \/ <<x, w[x]>> \in R
                             /\ seen[x] = Rev(x) => w[x] = Rev(x)
        /\ \A r \in R : r[2] <= w[r[1]] /\ r[1] \in Traces
    BY <1>1, <2>3, <2>4, <2>5, CountsUp
  <2> QED
    BY <2>1, <2>2, <2>6
<1>8. SdkTypeOK'
  <2>1. /\ batch' \in [Flushers -> Seq(Entry)]
        /\ body' \in [Flushers -> Envelope \cup {NoEnvelope}]
        /\ outcome' \in [Flushers -> Outcomes]
        /\ promised' \in [Flushers -> SUBSET (Traces \X Revision)]
    BY <1>2, <1>3, <1>4 DEF Outcomes
  <2> QED
    BY <1>1, <1>2, <1>6, <1>7, <2>1 DEF SdkTypeOK
<1>9. ShapeOK'
  <2>1. ASSUME NEW g \in Flushers
        PROVE  /\ body'[g] # NoEnvelope => batch'[g] # <<>>
               /\ batch'[g] # <<>> /\ body'[g] = NoEnvelope
                    => g \in Callers /\ task'[g] = "copied"
    BY <1>1, <1>4, <2>1 DEF ShapeOK
  <2>2. ASSUME NEW c \in Callers, task'[c] = "copied"
        PROVE  sdk = "python" /\ ~sink /\ body'[c] = NoEnvelope
    <3>1. task[c] = "copied" /\ c \in Flushers
      BY <2>2 DEF Flushers
    <3> QED
      BY <1>1, <1>4, <3>1 DEF ShapeOK
  <2>3. timer => sink
    BY <1>1 DEF ShapeOK
  <2>4. ASSUME sdk = "python", timer PROVE batch'[Background] = <<>>
    BY <1>1, <1>4, <2>4 DEF ShapeOK, Flushers
  <2> QED
    BY <2>1, <2>2, <2>3, <2>4 DEF ShapeOK
<1>10. HandsOK' /\ \A x : Handing(x)' <=> Handing(x)
  <2>1. batch[f] # <<>>
    BY <1>1 DEF ShapeOK
  <2>2. \A c \in Callers : c = f => task[c] \notin Hands
    BY <1>1, <2>1 DEF HandsOK
  <2>3. \A c \in Callers : \/ task'[c] = task[c]
                           \/ task[c] \notin Hands /\ task'[c] \notin Hands
    BY <2>2 DEF Hands
  <2>4. \A c \in Callers : task'[c] \in Hands /\ batch[c] = <<>> => batch'[c] = <<>>
    BY <1>4 DEF Flushers
  <2> QED
    BY <1>1, <2>3, <2>4, HandsKept
<1>11. ListsOK'
  <2>1. ASSUME NEW g \in Flushers
        PROVE  /\ Known(batch[g])' /\ Distinct(batch[g])'
               /\ body'[g] # NoEnvelope => body'[g].rev <= Rev(batch[g][1].trace)'
    <3>1. CASE g = f
      BY <1>4, <3>1 DEF Known, Distinct
    <3>2. CASE g # f
      BY <1>1, <1>4, <3>2 DEF ListsOK, Known, Distinct, Rev
    <3> QED
      BY <3>1, <3>2
  <2>2. \A x \in Traces : Rev(x)' = Rev(x)
    BY DEF Rev
  <2>3. \A x \in Traces : acked'[x] <= Rev(x)' /\ failed'[x] <= Rev(x)'
    BY <1>1, <1>2, <1>6, <1>7, <2>2 DEF ListsOK
  <2>4. Known(buffer)' /\ Distinct(buffer)'
    BY <1>1 DEF ListsOK, Known, Distinct, Rev
  <2> QED
    BY <2>1, <2>3, <2>4 DEF ListsOK
<1>12. LatestOK'
  <2>1. Revisions(buffer)' = Revisions(buffer)
    BY DEF Revisions, RevisionOf, Body
  <2>2. ASSUME NEW x \in Traces, envelope[x] # NoEnvelope PROVE Somewhere(x)'
    <3>1. Somewhere(x) /\ envelope[x].rev = Rev(x)
      BY <1>1, <2>2, RevIsNat DEF LatestOK
    <3>2. CASE envelope[x].rev = failed[x]
      <4>1. failed'[x] = envelope[x].rev
        BY <1>6, <1>7, <3>1, <3>2
      <4> QED
        BY <4>1 DEF Somewhere
    <3>3. CASE <<x, envelope[x].rev>> \in InFlight(f)
      <4>1. w[x] \in Nat /\ w[x] <= Rev(x) /\ Rev(x) <= w[x] /\ Rev(x) \in Nat
        BY <1>7, <3>1, <3>3
      <4>2. failed'[x] = envelope[x].rev
        BY <1>6, <3>1, <4>1
      <4> QED
        BY <4>2 DEF Somewhere
    <3>4. CASE \E g \in Flushers : g # f /\ <<x, envelope[x].rev>> \in InFlight(g)
      BY <1>5, <3>4 DEF Somewhere
    <3>5. CASE \/ envelope[x].rev = acked[x] \/ Raced(x) \/ Handing(x)
               \/ <<x, envelope[x].rev>> \in Revisions(buffer)
      BY <1>2, <1>10, <2>1, <3>5 DEF Somewhere, Raced
    <3> QED
      BY <3>1, <3>2, <3>3, <3>4, <3>5 DEF Somewhere
  <2> QED
    BY <2>2 DEF LatestOK
<1>13. PromiseOK'
  <2>1. ASSUME NEW g \in Flushers
        PROVE  /\ outcome'[g] = "running" =>
                    /\ body'[g] # NoEnvelope
                    /\ \A p \in promised'[g] :
                         \/ acked'[p[1]] >= p[2]
                         \/ \E q \in InFlight(g)' : q[1] = p[1] /\ q[2] >= p[2]
               /\ outcome'[g] = "ok" => \A p \in promised'[g] : acked'[p[1]] >= p[2]
               /\ outcome'[g] = "error" => promised'[g] = {}
    <3>1. CASE g = f
      BY <1>4, <3>1
    <3>2. CASE g # f
      BY <1>1, <1>2, <1>4, <1>5, <3>2 DEF PromiseOK
    <3> QED
      BY <3>1, <3>2
  <2> QED
    BY <2>1 DEF PromiseOK
<1>14. OrderOK'
  <2>1. SUFFICES ASSUME sdk = "node", sink PROVE OrderOK'
    BY DEF OrderOK
  <2>2. \A g, h \in Flushers : batch'[g] # <<>> /\ batch'[h] # <<>> => g = h
    BY <1>1, <1>4, <2>1 DEF OrderOK
  <2>3. \A g \in Flushers : InFlight(g)' = {}
    <3>1. batch[f] # <<>>
      BY <1>1 DEF ShapeOK
    <3>2. \A g \in Flushers : g # f => batch[g] = <<>>
      BY <1>1, <2>1, <3>1 DEF OrderOK
    <3> QED
      BY <1>1, <1>5, <3>2, FlightKnown
  <2>4. ASSUME NEW i \in DOMAIN buffer
        PROVE  /\ buffer[i].envelope.rev >= acked[buffer[i].trace]
               /\ buffer[i].envelope.rev >= failed'[buffer[i].trace]
    <3>1. /\ buffer[i].envelope.rev >= acked[buffer[i].trace]
          /\ buffer[i].envelope.rev >= failed[buffer[i].trace]
          /\ \A r \in InFlight(f) : r[1] = buffer[i].trace => r[2] <= buffer[i].envelope.rev
      BY <1>1, <2>1 DEF OrderOK
    <3>2. buffer[i].trace \in Traces /\ buffer[i].envelope.rev \in Nat
      <4>1. buffer[i] \in Entry
        BY <1>1 DEF SdkTypeOK
      <4> QED
        BY <4>1 DEF Entry, Envelope, Revision
    <3>3. \/ w[buffer[i].trace] = failed[buffer[i].trace]
          \/ <<buffer[i].trace, w[buffer[i].trace]>> \in InFlight(f)
      BY <1>7, <3>2
    <3>4. w[buffer[i].trace] \in Nat
      BY <1>7, <3>2
    <3>5. buffer[i].envelope.rev >= w[buffer[i].trace]
      BY <3>1, <3>2, <3>3, <3>4
    <3> QED
      BY <1>6, <3>1, <3>5
  <2> QED
    BY <1>2, <2>2, <2>3, <2>4 DEF OrderOK, SendsInOrder
<1>15. SkipOK'
  <2>1. ASSUME NEW q \in Underway
        PROVE  \/ failed'[q[1]] >= q[2]
               \/ \E r \in Underway' : r[1] = q[1] /\ r[2] \in Nat /\ r[2] >= q[2]
    <3>1. q[2] \in Nat /\ q[2] >= q[2]
      BY <1>1, <2>1, FlightKnown, ListSends DEF Underway, SdkTypeOK, ListsOK, Revision
    <3>2. Revisions(buffer)' = Revisions(buffer)
      BY DEF Revisions, RevisionOf, Body
    <3>3. q \in InFlight(f) \/ q \in Underway'
      BY <1>5, <2>1, <3>2 DEF Underway
    <3>4. CASE q \in InFlight(f)
      <4>1. q[2] <= w[q[1]] /\ w[q[1]] \in Nat
        BY <1>7, <3>4
      <4> QED
        BY <1>6, <3>1, <4>1
    <3> QED
      BY <3>1, <3>3, <3>4
  <2>2. \A x \in Traces : acked[x] \in Nat /\ failed'[x] \in Nat /\ acked[x] <= acked[x]
                          /\ failed[x] <= failed'[x]
    <3>1. \A x \in Traces : acked[x] \in Nat
      BY <1>1 DEF SdkTypeOK
    <3>2. \A x \in Traces : acked[x] <= acked[x]
      BY <3>1
    <3>3. \A x \in Traces : failed'[x] \in Nat /\ failed[x] <= failed'[x]
      BY <1>6, <1>7
    <3> QED
      BY <3>1, <3>2, <3>3
  <2>3. \A g \in Flushers : outcome'[g] = "skipped" =>
           /\ outcome[g] = "skipped" /\ promised'[g] = promised[g]
           /\ batch[g] = <<>> => batch'[g] = <<>>
    BY <1>4
  <2> QED
    BY <1>1, <1>2, <2>1, <2>2, <2>3, KeptStays
<1> QED
  BY <1>8, <1>9, <1>10, <1>11, <1>12, <1>13, <1>14, <1>15 DEF SdkInv

\* A step that concerns neither what is recorded nor what is sent.
LEMMA IdleStep ==
  ASSUME SdkInv, UNCHANGED <<sdk, sink, envelope, task, timer, buffer, batch, body, outcome,
                             promised, acked, failed, hand, slot, shared, torn>>
  PROVE  SdkInv'
<1>1. /\ SdkTypeOK /\ ShapeOK /\ ListsOK /\ HandsOK /\ LatestOK /\ PromiseOK /\ SkipOK
      /\ OrderOK
  BY DEF SdkInv
<1>2. \A g \in Flushers : InFlight(g)' = InFlight(g)
  BY FlightKept
<1>3. Revisions(buffer)' = Revisions(buffer)
  BY DEF Revisions, RevisionOf, Body
<1>4. SdkTypeOK' /\ ShapeOK' /\ ListsOK'
  BY <1>1 DEF SdkTypeOK, ShapeOK, ListsOK, Known, Distinct, Rev
<1>5. HandsOK' /\ \A x : Handing(x)' <=> Handing(x)
  BY <1>1, HandsKept
<1>6. LatestOK' /\ PromiseOK' /\ OrderOK'
  BY <1>1, <1>2, <1>3, <1>5 DEF LatestOK, Somewhere, Raced, PromiseOK, OrderOK, SendsInOrder
<1>7. SkipOK'
  <2>1. \A p : KeptOf(p)' <=> KeptOf(p)
    BY <1>2, <1>3 DEF KeptOf, AnsweredBy
  <2> QED
    BY <1>1, <2>1 DEF SkipOK
<1> QED
  BY <1>4, <1>5, <1>6, <1>7 DEF SdkInv

\* What a flush awaits is answered: delivered, tried again or given up.
LEMMA AnsweredStep ==
  ASSUME SdkInv, NEW f \in Flushers, body[f] # NoEnvelope,
         UNCHANGED <<sdk, sink, envelope, timer, buffer, hand, slot, shared, torn>>,
         \/ Delivered(f) /\ UNCHANGED task
         \/ Retry(f) /\ UNCHANGED task
         \/ GiveUp(f) /\ (\/ UNCHANGED task
                          \/ task' = [c \in Callers |-> IF c = f THEN "idle" ELSE task[c]])
  PROVE  SdkInv'
<1>1. task \in [Callers -> Tasks]
  BY DEF SdkInv, SdkTypeOK
<1>2. CASE Delivered(f) /\ UNCHANGED task
  BY <1>2, DeliveredStep
<1>3. CASE Retry(f) /\ UNCHANGED task
  BY <1>3, IdleStep DEF Retry
<1>4. CASE GiveUp(f) /\ (\/ UNCHANGED task
                         \/ task' = [c \in Callers |-> IF c = f THEN "idle" ELSE task[c]])
  <2>1. /\ task' \in [Callers -> Tasks]
        /\ \A c \in Callers : task'[c] = task[c] \/ (c = f /\ task'[c] = "idle")
    BY <1>1, <1>4 DEF Tasks
  <2> QED
    BY <1>4, <2>1, GiveUpStep
<1> QED
  BY <1>2, <1>3, <1>4

-----------------------------------------------------------------------------
\* The invariant holds at first.
LEMMA SdkInvInit ==
  ASSUME ClientInit
  PROVE  SdkInv
<1>1. /\ \A f \in Flushers : batch[f] = <<>> /\ body[f] = NoEnvelope /\ promised[f] = {}
                             /\ outcome[f] = "ok"
      /\ \A t \in Traces : envelope[t] = NoEnvelope /\ acked[t] = 0 /\ failed[t] = 0
      /\ \A c \in Callers : task[c] = "idle" /\ hand[c] = NoEnvelope
      /\ buffer = <<>>
  BY DEF ClientInit, TransportInit
<1>2. SdkTypeOK
  BY DEF ClientInit, TransportInit, SdkTypeOK, Tasks, Outcomes
<1>3. ShapeOK
  BY <1>1, SdkAbsent DEF ClientInit, TransportInit, ShapeOK, Flushers
<1>4. ListsOK
  BY <1>1 DEF ListsOK, Known, Distinct, Rev
<1>5. LatestOK /\ PromiseOK /\ SkipOK
  BY <1>1 DEF LatestOK, PromiseOK, SkipOK
<1>6. OrderOK
  <2>1. \A f \in Flushers : InFlight(f) = {}
    BY <1>1 DEF InFlight, Revisions
  <2> QED
    BY <1>1, <2>1 DEF OrderOK, SendsInOrder
<1>7. HandsOK
  BY <1>1 DEF HandsOK, Hands
<1> QED
  BY <1>2, <1>3, <1>4, <1>5, <1>6, <1>7 DEF SdkInv

\* A task that has copied the pending list is a thread of Python's.
LEMMA NodeCopiesNothing ==
  ASSUME SdkInv, sdk = "node"
  PROVE  /\ \A c \in Callers : task[c] # "copied"
         /\ \A f \in Flushers : batch[f] # <<>> => body[f] # NoEnvelope
BY DEF SdkInv, ShapeOK

\* flush of the Node SDK, in the turn of the caller c.
LEMMA FlushNowStep ==
  ASSUME SdkInv, sdk = "node", NEW c \in Callers, batch[c] = <<>>, FlushNow(c),
         UNCHANGED <<sdk, sink, envelope, answerVars, hand, slot, shared, torn>>,
         timer' \in BOOLEAN, timer' => timer,
         task' = task \/ task' = [task EXCEPT ![c] = "idle"]
  PROVE  SdkInv'
<1>1. \A d \in Callers : task[d] # "copied" /\ task[d] \notin Hands
  BY NodeCopiesNothing, NodeHandsNothing DEF SdkInv
<1>2. task \in [Callers -> Tasks]
  BY DEF SdkInv, SdkTypeOK
<1>3. /\ task' \in [Callers -> Tasks]
      /\ \A d \in Callers : task'[d] = task[d] \/ (d = c /\ task'[d] = "idle")
  BY <1>1, <1>2 DEF Tasks
<1>4. c \in Flushers
  BY DEF Flushers
<1>5. CASE sink /\ Flushing
  <2>1. /\ outcome' = [outcome EXCEPT ![c] = "skipped"]
        /\ promised' = [promised EXCEPT ![c] = Revisions(buffer)]
        /\ UNCHANGED <<buffer, batch, body, attempt>>
    BY <1>5 DEF FlushNow
  <2> QED
    BY <1>3, <1>4, <1>5, <2>1, SkipStep DEF answerVars
<1>6. CASE ~(sink /\ Flushing)
  <2>1. buffer' = <<>> /\ StartSending(c, buffer)
    BY <1>6 DEF FlushNow
  <2>2. sink => \A g \in Flushers : batch[g] = <<>>
    BY <1>6 DEF Flushing
  <2>3. \A d \in Callers :
          IF d = c THEN task[d] \notin Hands /\ task'[d] \notin Hands \cup {"copied"}
          ELSE task'[d] = task[d]
    BY <1>1, <1>3 DEF Hands
  <2>4. Begun(c)
    BY <1>3, <2>3 DEF Begun
  <2> QED
    BY <1>4, <2>1, <2>2, <2>4, StartStep
<1> QED
  BY <1>5, <1>6

\* A change in a Node program, with the full buffer sent when nothing else is.
LEMMA NodeSyncStep ==
  ASSUME SdkInv, NEW t \in Traces, NEW e, NodeRecorded(t, e), NodeSync(t, e)
  PROVE  SdkInv'
<1>1. CASE sink /\ Len(Upsert(buffer, t, e)) >= MaxBufferSize /\ ~ Flushing
  <2>1. buffer' = <<>> /\ StartSending(Background, Upsert(buffer, t, e))
    BY <1>1 DEF NodeSync
  <2>2. \A f \in Flushers : batch[f] = <<>>
    BY <1>1 DEF Flushing
  <2> QED
    BY <1>1, <2>1, <2>2, RecordSendStep
<1>2. CASE ~(sink /\ Len(Upsert(buffer, t, e)) >= MaxBufferSize /\ ~ Flushing)
  <2>1. buffer' = Upsert(buffer, t, e) /\ UNCHANGED flushVars
    BY <1>2 DEF NodeSync
  <2> QED
    BY <2>1, RecordStep
<1> QED
  BY <1>1, <1>2

\* Every step of a Node program keeps the invariant.
LEMMA NodeStep ==
  ASSUME SdkInv, sdk = "node", NodeNext
  PROVE  SdkInv'
<1>1. /\ SdkTypeOK /\ ShapeOK /\ HandsOK
      /\ task \in [Callers -> Tasks]
      /\ \A c \in Callers : task[c] \notin Hands
  BY NodeHandsNothing DEF SdkInv, SdkTypeOK
<1>2. ASSUME NEW t \in Traces, NEW e \in Changed(t) \cup CallChanges(t),
             envelope' = [envelope EXCEPT ![t] = e], NEW c \in Callers,
             NEW next \in {"idle", "answered"}, task' = [task EXCEPT ![c] = next],
             UNCHANGED <<sdk, sink, timer, answerVars, hand, slot, shared, torn>>
      PROVE  NodeRecorded(t, e)
  <2>1. Recorded(t, e)
    BY <1>1, <1>2, ChangesAreNew DEF Recorded
  <2>2. /\ task' \in [Callers -> Tasks]
        /\ \A d \in Callers : task'[d] = task[d] \/ task'[d] \in {"idle", "answered"}
    BY <1>1, <1>2 DEF Tasks
  <2> QED
    BY <1>2, <2>1, <2>2 DEF NodeRecorded
<1>3. ASSUME NEW c \in Callers, NEW t \in Traces, NodeRecord(c, t) PROVE SdkInv'
  <2>1. PICK e \in Changed(t) : Record(c, t, e) /\ NodeSync(t, e)
    BY <1>3 DEF NodeRecord
  <2>2. /\ task[c] = "idle" /\ envelope' = [envelope EXCEPT ![t] = e]
        /\ UNCHANGED <<sdk, sink, task, timer, answerVars, hand, slot, shared, torn>>
    BY <1>3, <2>1 DEF NodeRecord, Record, modeVars, handVars, raceVars
  <2>3. task' = [task EXCEPT ![c] = "idle"]
    BY <1>1, <2>2
  <2>4. NodeRecorded(t, e)
    BY <1>2, <2>2, <2>3
  <2> QED
    BY <2>1, <2>4, NodeSyncStep
<1>4. ASSUME NEW c \in Callers, NEW t \in Traces, NodeRecordCall(c, t) PROVE SdkInv'
  <2>1. PICK e \in CallChanges(t) : RecordCall(c, t, e) /\ NodeSync(t, e)
    BY <1>4 DEF NodeRecordCall
  <2>2. /\ envelope' = [envelope EXCEPT ![t] = e]
        /\ task' = [task EXCEPT ![c] = "answered"]
        /\ UNCHANGED <<sdk, sink, timer, answerVars, hand, slot, shared, torn>>
    BY <1>4, <2>1 DEF NodeRecordCall, RecordCall, modeVars, handVars, raceVars
  <2>3. NodeRecorded(t, e)
    BY <1>2, <2>2
  <2> QED
    BY <2>1, <2>3, NodeSyncStep
<1>5. ASSUME NEW c \in Callers, NodeFlush(c) PROVE SdkInv'
  BY <1>1, <1>5, FlushNowStep
     DEF NodeFlush, Free, modeVars, programVars, handVars, raceVars, SdkTypeOK
<1>6. ASSUME NEW c \in Callers, NodeShutdown(c) PROVE SdkInv'
  BY <1>1, <1>6, FlushNowStep
     DEF NodeShutdown, Free, modeVars, programVars, handVars, raceVars, SdkTypeOK
<1>7. ASSUME NodeTick PROVE SdkInv'
  <2>1. /\ buffer' = <<>> /\ StartSending(Background, buffer)
        /\ UNCHANGED <<sdk, sink, envelope, task, timer, answerVars, hand, slot, shared, torn>>
        /\ \A g \in Flushers : batch[g] = <<>>
    BY <1>7 DEF NodeTick, Flushing, modeVars, programVars, handVars, raceVars
  <2>2. Background \in Flushers /\ Begun(Background)
    BY <1>1, <2>1, SdkAbsent DEF Begun, Flushers, SdkTypeOK
  <2> QED
    BY <2>1, <2>2, StartStep
<1>8. ASSUME NEW f \in Flushers, NodeAnswered(f) PROVE SdkInv'
  <2>1. /\ UNCHANGED <<sdk, sink, envelope, task, timer, buffer, hand, slot, shared, torn>>
        /\ body[f] # NoEnvelope
    BY <1>8, NodeCopiesNothing DEF NodeAnswered, modeVars, programVars, handVars, raceVars
  <2>2. Delivered(f) \/ Retry(f) \/ GiveUp(f)
    BY <1>8 DEF NodeAnswered
  <2> QED
    BY <1>1, <2>1, <2>2, AnsweredStep
<1> QED
  BY <1>3, <1>4, <1>5, <1>6, <1>7, <1>8 DEF NodeNext

-----------------------------------------------------------------------------
\* A thread of Python changes a trace, and has then to hand it over.
LEMMA PyChangeStep ==
  ASSUME SdkInv, sdk = "python", NEW c \in Callers, NEW t \in Traces,
         NEW e \in Changed(t) \cup CallChanges(t), PyChange(c, t, e),
         task[c] = "idle", batch[c] = <<>>, envelope' = [envelope EXCEPT ![t] = e]
  PROVE  SdkInv'
<1>1. /\ SdkTypeOK /\ ShapeOK /\ ListsOK /\ HandsOK /\ LatestOK /\ PromiseOK /\ SkipOK
      /\ UNCHANGED <<sdk, sink, timer, slot, buffer, batch, body, outcome, promised, acked,
                     failed, torn>>
      /\ hand' = [hand EXCEPT ![c] = [trace |-> t, envelope |-> e]]
      /\ task' = [task EXCEPT ![c] = "changed"]
      /\ shared' \in {shared \cup {t}, shared \ {t}}
      /\ \A d \in Callers : d # c /\ hand[d] # NoEnvelope /\ hand[d].trace = t => t \in shared'
  BY DEF SdkInv, PyChange, modeVars, flushVars, answerVars
<1>2. Recorded(t, e) /\ e \in Envelope
  BY <1>1, ChangesAreNew DEF Recorded, PyChange, modeVars
<1>3. /\ envelope' \in [Traces -> Envelope \cup {NoEnvelope}]
      /\ \A x \in Traces :
           /\ Rev(x) \in Nat /\ Rev(x)' \in Nat /\ Rev(x) <= Rev(x)'
           /\ x # t => envelope'[x] = envelope[x] /\ Rev(x)' = Rev(x)
           /\ envelope[x] # NoEnvelope => envelope'[x] # NoEnvelope
      /\ envelope'[t] = e /\ e # NoEnvelope /\ Rev(t)' = e.rev
  BY <1>1, <1>2, RecordedRevs
<1>4. /\ [trace |-> t, envelope |-> e] \in Entry
      /\ [trace |-> t, envelope |-> e] # NoEnvelope
  BY <1>2, EnvelopeAbsent DEF Entry
<1>5. /\ task'[c] = "changed" /\ hand'[c] # NoEnvelope
      /\ hand'[c].trace = t /\ hand'[c].envelope = e
      /\ \A d \in Callers : d # c => task'[d] = task[d] /\ hand'[d] = hand[d]
      /\ task' \in [Callers -> Tasks] /\ hand' \in [Callers -> Entry \cup {NoEnvelope}]
  BY <1>1, <1>4 DEF SdkTypeOK, Tasks, Hands
<1>6. SdkTypeOK'
  BY <1>1, <1>3, <1>5 DEF SdkTypeOK
<1>7. ShapeOK'
  BY <1>1, <1>5 DEF ShapeOK, Flushers
<1>8. ListsOK'
  <2>1. Known(buffer)'
    <3>1. PICK b \in Seq(Entry) : b = buffer /\ Known(b)
      BY <1>1 DEF SdkTypeOK, ListsOK
    <3>2. Known(b)'
      BY <1>1, <1>2, <3>1, RecordedList
    <3> QED
      BY <1>1, <3>1, <3>2 DEF Known
  <2>2. Distinct(buffer)'
    BY <1>1 DEF Distinct
  <2> QED
    BY <1>1, <1>2, <2>1, <2>2, RecordedLists DEF ListsOK
<1>9. HandsOK'
  <2>0. e.rev \in Nat
    BY <1>2 DEF Envelope, Revision
  <2>1. ASSUME NEW d \in Callers, d # c, task[d] \in Hands
        PROVE  /\ hand'[d] = hand[d] /\ envelope'[hand[d].trace] # NoEnvelope
               /\ hand[d].envelope.rev <= envelope'[hand[d].trace].rev
               /\ (\/ hand[d].trace \in shared
                   \/ hand[d].envelope.rev = Rev(hand[d].trace))
                  => \/ hand[d].trace \in shared'
                     \/ hand[d].envelope.rev = envelope'[hand[d].trace].rev
    <3>1. /\ hand[d] # NoEnvelope /\ hand[d] \in Entry
          /\ envelope[hand[d].trace] # NoEnvelope
          /\ hand[d].envelope.rev <= Rev(hand[d].trace)
      BY <1>1, <2>1 DEF HandsOK, SdkTypeOK
    <3>2. hand[d].trace \in Traces /\ hand[d].envelope.rev \in Nat
      BY <3>1 DEF Entry, Envelope, Revision
    <3>3. CASE hand[d].trace = t
      <4>1. t \in shared'
        BY <1>1, <2>1, <3>1, <3>3
      <4>2. hand[d].envelope.rev <= e.rev
        <5>1. Rev(t) \in Nat /\ Rev(t) <= e.rev /\ hand[d].envelope.rev <= Rev(t)
          BY <1>3, <3>1, <3>3
        <5> QED
          BY <2>0, <3>2, <5>1
      <4> QED
        BY <1>3, <1>5, <2>1, <3>3, <4>1, <4>2
    <3>4. CASE hand[d].trace # t
      <4>1. /\ envelope'[hand[d].trace] = envelope[hand[d].trace]
            /\ Rev(hand[d].trace) = envelope[hand[d].trace].rev
        BY <1>3, <3>1, <3>2, <3>4 DEF Rev
      <4>2. hand[d].trace \in shared => hand[d].trace \in shared'
        BY <1>1, <3>4
      <4> QED
        BY <1>5, <2>1, <3>1, <4>1, <4>2
    <3> QED
      BY <3>3, <3>4
  <2>3. ASSUME NEW d \in Callers
        PROVE  /\ hand'[d] # NoEnvelope <=> task'[d] \in Hands
               /\ task'[d] \in Hands => /\ sdk' = "python" /\ batch'[d] = <<>>
                                        /\ envelope'[hand'[d].trace] # NoEnvelope
                                        /\ hand'[d].envelope.rev <= Rev(hand[d].trace)'
               /\ task'[d] = "held" =>
                    /\ sink'
                    /\ \/ hand'[d].trace \in shared'
                       \/ hand'[d].envelope.rev = Rev(hand[d].trace)'
               /\ task'[d] = "found" => ~sink'
    <3>1. CASE d = c
      <4>1. Rev(hand[d].trace)' = e.rev
        BY <1>3, <1>5, <3>1 DEF Rev
      <4> QED
        BY <1>1, <1>3, <1>5, <2>0, <3>1, <4>1 DEF Hands
    <3>2. CASE d # c
      <4>1. Rev(hand[d].trace)' = (IF envelope'[hand[d].trace] = NoEnvelope THEN 0
                                   ELSE envelope'[hand[d].trace].rev)
        BY <1>5, <3>2 DEF Rev
      <4>2. task[d] = "held" => task[d] \in Hands
        BY DEF Hands
      <4> QED
        BY <1>1, <1>5, <2>1, <3>2, <4>1, <4>2 DEF HandsOK, Rev
    <3> QED
      BY <3>1, <3>2
  <2> QED
    BY <2>3 DEF HandsOK
<1>10. LatestOK'
  <2>1. ASSUME NEW x \in Traces, envelope'[x] # NoEnvelope PROVE Somewhere(x)'
    <3>1. CASE x = t
      <4>1. Handing(x)'
        BY <1>5, <3>1 DEF Handing, HandingOver
      <4> QED
        BY <4>1 DEF Somewhere
    <3>2. CASE x # t
      <4> DEFINE r == <<x, envelope[x].rev>>
      <4>1. Somewhere(x) /\ envelope'[x] = envelope[x] /\ r[1] # t
        BY <1>1, <1>3, <2>1, <3>2 DEF LatestOK
      <4>2. CASE r \in Revisions(buffer)
        <5>1. PICK b \in Seq(Entry) : b = buffer /\ Known(b)
          BY <1>1 DEF SdkTypeOK, ListsOK
        <5>2. r \in Revisions(b)'
          BY <1>1, <1>2, <4>1, <4>2, <5>1, RecordedList
        <5>3. r \in Revisions(buffer)'
          BY <1>1, <5>1, <5>2 DEF Revisions
        <5> QED
          BY <4>1, <5>3 DEF Somewhere
      <4>3. CASE \E f \in Flushers : r \in InFlight(f)
        <5>1. PICK f \in Flushers : r \in InFlight(f)
          BY <4>3
        <5>2. r \in InFlight(f)'
          BY <1>1, <1>2, <4>1, <5>1, RecordedFlight
        <5> QED
          BY <4>1, <5>2 DEF Somewhere
      <4>4. CASE envelope[x].rev \in {acked[x], failed[x]} \/ Raced(x)
        BY <1>1, <3>2, <4>1, <4>4 DEF Somewhere, Raced
      <4>5. CASE Handing(x)
        <5>1. PICK d \in Callers : HandingOver(d, x) /\ (task[d] = "found" => slot[d] = 0)
          BY <4>5 DEF Handing
        <5>2. d # c
          BY <1>1, <5>1 DEF HandingOver, HandsOK, Hands
        <5> QED
          BY <1>1, <1>5, <5>1, <5>2 DEF Somewhere, Handing, HandingOver
      <4> QED
        BY <4>1, <4>2, <4>3, <4>4, <4>5 DEF Somewhere
    <3> QED
      BY <3>1, <3>2
  <2> QED
    BY <2>1 DEF LatestOK
<1>11. PromiseOK'
  BY <1>1, <1>2, RecordedPromises
<1>12. SkipOK' /\ OrderOK'
  BY <1>1 DEF SkipOK, OrderOK
<1> QED
  BY <1>6, <1>7, <1>8, <1>9, <1>10, <1>11, <1>12 DEF SdkInv

\* What a step of handing over has to show: it disturbs no flush.
LEMMA HandStep ==
  ASSUME SdkInv, sdk = "python", NEW c \in Callers, task[c] \in Hands,
         NEW next \in Tasks \ {"copied"}, task' = [task EXCEPT ![c] = next],
         UNCHANGED <<sdk, sink, envelope, timer, batch, body, outcome, promised, acked,
                     failed, shared>>,
         hand' \in [Callers -> Entry \cup {NoEnvelope}], slot' \in [Callers -> Nat],
         buffer' \in Seq(Entry), torn' \subseteq Traces,
         Known(buffer)', HandsOK', LatestOK'
  PROVE  SdkInv'
<1>1. SdkTypeOK /\ ShapeOK /\ ListsOK /\ PromiseOK /\ SkipOK
  BY DEF SdkInv
<1>2. /\ task' \in [Callers -> Tasks] /\ task[c] # "copied" /\ task'[c] # "copied"
      /\ \A d \in Callers : d # c => task'[d] = task[d]
  BY <1>1 DEF SdkTypeOK, Hands
<1>3. \A g \in Flushers : InFlight(g)' = InFlight(g)
  BY FlightKept
<1>4. SdkTypeOK'
  BY <1>1, <1>2 DEF SdkTypeOK
<1>5. ShapeOK'
  BY <1>1, <1>2 DEF ShapeOK, Flushers
<1>6. ListsOK'
  <2>1. \A g \in Flushers :
          /\ Known(batch[g])'
          /\ body'[g] # NoEnvelope => body'[g].rev <= Rev(batch[g][1].trace)'
    BY <1>1 DEF ListsOK, Known, Rev
  <2>2. \A t \in Traces : acked'[t] <= Rev(t)' /\ failed'[t] <= Rev(t)'
    BY <1>1 DEF ListsOK, Rev
  <2> QED
    BY <2>1, <2>2 DEF ListsOK, Distinct
<1>7. PromiseOK'
  BY <1>1, <1>3 DEF PromiseOK
<1>8. SkipOK' /\ OrderOK'
  BY <1>1 DEF SkipOK, OrderOK
<1> QED
  BY <1>4, <1>5, <1>6, <1>7, <1>8 DEF SdkInv

\* ... and what holds of the thread that does it and of the others.
LEMMA HandFacts ==
  ASSUME SdkInv, NEW c \in Callers, task[c] \in Hands
  PROVE  /\ hand[c] # NoEnvelope /\ hand[c] \in Entry /\ hand[c].trace \in Traces
         /\ hand[c].envelope \in Envelope /\ hand[c].envelope.rev \in Nat
         /\ batch[c] = <<>>
         /\ envelope[hand[c].trace] \in Envelope
         /\ envelope[hand[c].trace] # NoEnvelope
         /\ hand[c].envelope.rev <= Rev(hand[c].trace)
         /\ Rev(hand[c].trace) = envelope[hand[c].trace].rev
         /\ Rev(hand[c].trace) \in Nat
<1>1. SdkTypeOK /\ HandsOK
  BY DEF SdkInv
<1>2. /\ hand[c] # NoEnvelope /\ hand[c] \in Entry /\ batch[c] = <<>>
      /\ envelope[hand[c].trace] # NoEnvelope
      /\ hand[c].envelope.rev <= Rev(hand[c].trace)
  BY <1>1 DEF HandsOK, SdkTypeOK
<1>3. hand[c].trace \in Traces /\ hand[c].envelope \in Envelope
  BY <1>2 DEF Entry
<1>4. envelope[hand[c].trace] \in Envelope
  BY <1>1, <1>2, <1>3 DEF SdkTypeOK
<1> QED
  BY <1>2, <1>3, <1>4 DEF Rev, Envelope, Revision

\* enqueue makes its copy.
LEMMA PyCopyStep ==
  ASSUME SdkInv, sdk = "python", NEW c \in Callers, PyCopy(c)
  PROVE  SdkInv'
<1> DEFINE t == hand[c].trace
           entry == [trace |-> t, envelope |-> envelope[t]]
<1>1. /\ SdkTypeOK /\ ListsOK /\ HandsOK /\ LatestOK
      /\ sink /\ task[c] = "changed" /\ task' = [task EXCEPT ![c] = "held"]
      /\ hand' = [hand EXCEPT ![c].envelope = envelope[t]]
      /\ UNCHANGED <<sdk, sink, envelope, timer, slot, buffer, batch, body, outcome,
                     promised, acked, failed, shared, torn>>
  BY DEF SdkInv, PyCopy, modeVars, programVars, flushVars, answerVars, raceVars
<1>2. /\ task[c] \in Hands /\ hand[c] \in Entry /\ t \in Traces /\ batch[c] = <<>>
      /\ envelope[t] \in Envelope /\ envelope[t] # NoEnvelope
      /\ Rev(t) = envelope[t].rev /\ Rev(t) \in Nat
  BY <1>1, HandFacts DEF Hands
<1>3. [hand[c] EXCEPT !.envelope = envelope[t]] = entry
  BY <1>2 DEF Entry
<1>4. entry \in Entry /\ entry # NoEnvelope
  BY <1>2, EnvelopeAbsent DEF Entry
<1>5. /\ hand'[c] = entry /\ \A d \in Callers : d # c => hand'[d] = hand[d]
      /\ hand' \in [Callers -> Entry \cup {NoEnvelope}]
      /\ task'[c] = "held" /\ \A d \in Callers : d # c => task'[d] = task[d]
  BY <1>1, <1>3, <1>4 DEF SdkTypeOK
<1>6. hand'[c].trace = t /\ hand'[c].envelope = envelope[t] /\ hand'[c] # NoEnvelope
  BY <1>4, <1>5
<1> HIDE DEF t, entry
<1>7. HandsOK'
  <2>1. ASSUME NEW d \in Callers
        PROVE  /\ hand'[d] # NoEnvelope <=> task'[d] \in Hands
               /\ task'[d] \in Hands => /\ sdk' = "python" /\ batch'[d] = <<>>
                                        /\ envelope'[hand'[d].trace] # NoEnvelope
                                        /\ hand'[d].envelope.rev <= Rev(hand[d].trace)'
               /\ task'[d] = "held" =>
                    /\ sink'
                    /\ \/ hand'[d].trace \in shared'
                       \/ hand'[d].envelope.rev = Rev(hand[d].trace)'
               /\ task'[d] = "found" => ~sink'
    <3>1. CASE d = c
      BY <1>1, <1>2, <1>5, <1>6, <3>1 DEF Hands, Rev
    <3>2. CASE d # c
      BY <1>1, <1>5, <3>2 DEF HandsOK, Rev
    <3> QED
      BY <3>1, <3>2
  <2> QED
    BY <2>1 DEF HandsOK
<1>8. LatestOK'
  <2>1. \A x : Handing(x) => Handing(x)'
    <3>1. ASSUME NEW x, Handing(x) PROVE Handing(x)'
      <4>1. PICK d \in Callers : HandingOver(d, x) /\ (task[d] = "found" => slot[d] = 0)
        BY <3>1 DEF Handing
      <4>2. hand'[d] # NoEnvelope /\ hand'[d].trace = x
        BY <1>5, <1>6, <4>1 DEF HandingOver, t
      <4>3. task'[d] = "found" => slot'[d] = 0
        BY <1>1, <1>5, <4>1
      <4> QED
        BY <4>2, <4>3 DEF Handing, HandingOver
    <3> QED
      BY <3>1
  <2>2. \A g \in Flushers : InFlight(g)' = InFlight(g)
    BY <1>1, FlightKept
  <2>3. Revisions(buffer)' = Revisions(buffer)
    BY <1>1 DEF Revisions, RevisionOf, Body
  <2> QED
    BY <1>1, <2>1, <2>2, <2>3 DEF LatestOK, Somewhere, Raced
<1>9. Known(buffer)' /\ "held" \in Tasks \ {"copied"}
  BY <1>1 DEF ListsOK, Known, Rev, Tasks, Hands
<1> QED
  BY <1>1, <1>2, <1>5, <1>7, <1>8, <1>9, HandStep DEF SdkTypeOK

\* When a thread is done with its hand, the others keep theirs.
LEMMA HandPut ==
  ASSUME HandsOK, NEW c \in Callers, NEW next \in {"idle", "full", "answered"},
         task \in [Callers -> Tasks], hand \in [Callers -> Entry \cup {NoEnvelope}],
         task' = [task EXCEPT ![c] = next], hand' = [hand EXCEPT ![c] = NoEnvelope],
         \A d \in Callers : d # c => slot'[d] = slot[d],
         UNCHANGED <<sdk, sink, envelope, batch, shared>>
  PROVE  /\ HandsOK'
         /\ \A x : Handing(x) /\ ~HandingOver(c, x) => Handing(x)'
<1>1. /\ task'[c] = next /\ hand'[c] = NoEnvelope /\ next \notin Hands
      /\ \A d \in Callers : d # c => task'[d] = task[d] /\ hand'[d] = hand[d]
  BY DEF Hands
<1>2. HandsOK'
  <2>1. ASSUME NEW d \in Callers
        PROVE  /\ hand'[d] # NoEnvelope <=> task'[d] \in Hands
               /\ task'[d] \in Hands => /\ sdk' = "python" /\ batch'[d] = <<>>
                                        /\ envelope'[hand'[d].trace] # NoEnvelope
                                        /\ hand'[d].envelope.rev <= Rev(hand[d].trace)'
               /\ task'[d] = "held" =>
                    /\ sink'
                    /\ \/ hand'[d].trace \in shared'
                       \/ hand'[d].envelope.rev = Rev(hand[d].trace)'
               /\ task'[d] = "found" => ~sink'
    <3>1. CASE d = c
      BY <1>1, <3>1 DEF Hands
    <3>2. CASE d # c
      BY <1>1, <3>2 DEF HandsOK, Rev
    <3> QED
      BY <3>1, <3>2
  <2> QED
    BY <2>1 DEF HandsOK
<1>3. \A x : Handing(x) /\ ~HandingOver(c, x) => Handing(x)'
  <2>1. ASSUME NEW x, Handing(x), ~HandingOver(c, x) PROVE Handing(x)'
    <3>1. PICK d \in Callers : HandingOver(d, x) /\ (task[d] = "found" => slot[d] = 0)
      BY <2>1 DEF Handing
    <3>2. d # c
      BY <2>1, <3>1
    <3> QED
      BY <1>1, <3>1, <3>2 DEF Handing, HandingOver
  <2> QED
    BY <2>1
<1> QED
  BY <1>2, <1>3

\* Under the lock the copy replaces what waits of its trace, which it alone may make older.
LEMMA PyEnqueueStep ==
  ASSUME SdkInv, sdk = "python", NEW c \in Callers, PyEnqueue(c)
  PROVE  SdkInv'
<1> DEFINE t == hand[c].trace
           e == hand[c].envelope
<1>1. /\ SdkTypeOK /\ ListsOK /\ HandsOK /\ LatestOK
      /\ sink /\ task[c] = "held" /\ buffer' = Upsert(buffer, t, e)
      /\ hand' = [hand EXCEPT ![c] = NoEnvelope]
      /\ UNCHANGED <<sdk, sink, envelope, timer, slot, batch, body, outcome, promised, acked,
                     failed, shared, torn>>
  BY DEF SdkInv, PyEnqueue, modeVars, programVars, flushVars, answerVars, raceVars
<1>2. PICK next \in {"idle", "full", "answered"} : task' = [task EXCEPT ![c] = next]
  BY DEF PyEnqueue, AfterSync
<1>3. /\ task[c] \in Hands /\ t \in Traces /\ e \in Envelope /\ e.rev \in Nat
      /\ envelope[t] # NoEnvelope /\ e.rev <= Rev(t) /\ Rev(t) = envelope[t].rev
      /\ t \in shared \/ e.rev = Rev(t)
  BY <1>1, HandFacts DEF Hands, HandsOK
<1> HIDE DEF t, e
<1>4. PICK b \in Seq(Entry) : b = buffer /\ Known(b) /\ Distinct(b)
  BY <1>1 DEF SdkTypeOK, ListsOK
<1>5. PICK u \in Seq(Entry) :
        /\ u = Upsert(b, t, e) /\ u = buffer'
        /\ \E i \in DOMAIN u : u[i] = [trace |-> t, envelope |-> e]
        /\ \A i \in DOMAIN u :
             \/ u[i] = [trace |-> t, envelope |-> e]
             \/ \E j \in DOMAIN b : u[i] = b[j] /\ b[j].trace # t
        /\ \A j \in DOMAIN b : b[j].trace # t => \E i \in DOMAIN u : u[i] = b[j]
  <2>1. PICK u : u = Upsert(b, t, e)
    OBVIOUS
  <2> QED
    BY <1>1, <1>3, <1>4, <2>1, UpsertEntries
<1>6. Known(u)
  <2>1. ASSUME NEW i \in DOMAIN u
        PROVE  envelope[u[i].trace] # NoEnvelope /\ u[i].envelope.rev <= Rev(u[i].trace)
    <3>1. CASE u[i] = [trace |-> t, envelope |-> e]
      <4>1. u[i].trace = t /\ u[i].envelope = e
        BY <3>1
      <4> QED
        BY <1>3, <4>1
    <3>2. CASE \E j \in DOMAIN b : u[i] = b[j]
      BY <1>4, <3>2 DEF Known
    <3> QED
      BY <1>5, <3>1, <3>2
  <2> QED
    BY <2>1 DEF Known
<1>7. Known(buffer)'
  BY <1>1, <1>5, <1>6 DEF Known, Rev
<1>8. HandsOK' /\ \A x : Handing(x) /\ ~HandingOver(c, x) => Handing(x)'
  BY <1>1, <1>2, HandPut DEF SdkTypeOK
<1>9. ASSUME NEW x \in Traces, envelope[x] # NoEnvelope PROVE Somewhere(x)'
  <2>1. Somewhere(x)
    BY <1>1, <1>9 DEF LatestOK
  <2>2. Revisions(buffer)' = Revisions(u)
    BY <1>1, <1>5 DEF Revisions, RevisionOf, Body
  <2>3. CASE x = t
    <3>1. CASE t \in shared
      BY <1>1, <2>3, <3>1 DEF Somewhere, Raced
    <3>2. CASE e.rev = Rev(t)
      <4>1. PICK i \in DOMAIN u : u[i] = [trace |-> t, envelope |-> e]
        BY <1>5
      <4>2. u[i].trace = t /\ u[i].envelope = e
        BY <4>1
      <4>3. RevisionOf(u[i]) = <<x, envelope[x].rev>>
        BY <1>1, <1>3, <2>3, <3>2, <4>2 DEF RevisionOf, Body
      <4>4. <<x, envelope[x].rev>> \in Revisions(u)
        BY <4>3 DEF Revisions
      <4> QED
        BY <1>1, <2>2, <4>4 DEF Somewhere
    <3> QED
      BY <1>3, <3>1, <3>2
  <2>4. CASE x # t
    <3>1. CASE <<x, envelope[x].rev>> \in Revisions(b)
      <4>1. PICK j \in DOMAIN b : RevisionOf(b[j]) = <<x, envelope[x].rev>>
        BY <3>1 DEF Revisions
      <4>2. b[j].trace # t
        BY <2>4, <4>1 DEF RevisionOf
      <4>3. <<x, envelope[x].rev>> \in Revisions(u)
        BY <1>5, <4>1, <4>2 DEF Revisions
      <4> QED
        BY <1>1, <2>2, <4>3 DEF Somewhere
    <3>2. CASE Handing(x)
      <4>1. ~HandingOver(c, x)
        BY <2>4 DEF HandingOver, t
      <4> QED
        BY <1>8, <3>2, <4>1 DEF Somewhere
    <3>3. \A g \in Flushers : InFlight(g)' = InFlight(g)
      BY <1>1, FlightKept
    <3>4. CASE \/ envelope[x].rev \in {acked[x], failed[x]} \/ Raced(x)
               \/ \E g \in Flushers : <<x, envelope[x].rev>> \in InFlight(g)
      BY <1>1, <3>3, <3>4 DEF Somewhere, Raced
    <3> QED
      BY <1>4, <2>1, <3>1, <3>2, <3>4 DEF Somewhere
  <2> QED
    BY <2>3, <2>4
<1>10. LatestOK'
  BY <1>1, <1>9 DEF LatestOK
<1>11. next \in Tasks \ {"copied"}
  BY <1>2 DEF Tasks
<1> QED
  BY <1>1, <1>2, <1>3, <1>5, <1>7, <1>8, <1>10, <1>11, HandStep DEF SdkTypeOK

\* A thread looks for its trace in the pending list: if it is there, it waits.
LEMMA PyFindStep ==
  ASSUME SdkInv, sdk = "python", NEW c \in Callers, PyFind(c)
  PROVE  SdkInv'
<1> DEFINE t == hand[c].trace
<1>1. /\ SdkTypeOK /\ ListsOK /\ HandsOK /\ LatestOK
      /\ ~sink /\ task[c] = "changed" /\ task' = [task EXCEPT ![c] = "found"]
      /\ UNCHANGED <<sdk, sink, envelope, timer, hand, buffer, batch, body, outcome,
                     promised, acked, failed, shared, torn>>
  BY DEF SdkInv, PyFind, modeVars, programVars, flushVars, answerVars, raceVars
<1>2. /\ task[c] \in Hands /\ t \in Traces /\ hand[c] # NoEnvelope
      /\ envelope[t] # NoEnvelope
  BY <1>1, HandFacts DEF Hands
<1>3. /\ slot' \in [Callers -> Nat]
      /\ \A d \in Callers : d # c => slot'[d] = slot[d] /\ task'[d] = task[d]
      /\ task'[c] = "found"
      /\ \/ slot'[c] = 0
         \/ \E i \in DOMAIN buffer : buffer[i].trace = t
  <2>1. \/ slot' = [slot EXCEPT ![c] = 0]
        \/ \E i \in DOMAIN buffer : slot' = [slot EXCEPT ![c] = i] /\ buffer[i].trace = t
    BY DEF PyFind
  <2>2. \A i \in DOMAIN buffer : i \in Nat
    BY <1>1 DEF SdkTypeOK
  <2> QED
    <3>1. task \in [Callers -> Tasks] /\ slot \in [Callers -> Nat] /\ 0 \in Nat
      BY <1>1 DEF SdkTypeOK
    <3>2. CASE slot' = [slot EXCEPT ![c] = 0]
      BY <1>1, <3>1, <3>2
    <3>3. CASE \E i \in DOMAIN buffer :
                 slot' = [slot EXCEPT ![c] = i] /\ buffer[i].trace = t
      BY <1>1, <2>2, <3>1, <3>3
    <3> QED
      BY <2>1, <3>2, <3>3
<1> HIDE DEF t
<1>4. HandsOK'
  BY <1>1, <1>3 DEF HandsOK, Hands, Rev
<1>5. Revisions(buffer)' = Revisions(buffer) /\ \A g \in Flushers : InFlight(g)' = InFlight(g)
  BY <1>1, FlightKept DEF Revisions, RevisionOf, Body
<1>6. ASSUME NEW x \in Traces, envelope[x] # NoEnvelope PROVE Somewhere(x)'
  <2>1. Somewhere(x)
    BY <1>1, <1>6 DEF LatestOK
  <2>2. CASE x = t
    <3>1. CASE slot'[c] = 0
      <4>1. Handing(x)'
        BY <1>1, <1>2, <2>2, <3>1 DEF Handing, HandingOver, t
      <4> QED
        BY <4>1 DEF Somewhere
    <3>2. CASE \E i \in DOMAIN buffer : buffer[i].trace = t
      <4>1. <<x, envelope[x].rev>> \in Revisions(buffer)
        BY <1>1, <2>2, <3>2 DEF Revisions, RevisionOf, Body
      <4> QED
        BY <1>1, <1>5, <4>1 DEF Somewhere
    <3> QED
      BY <1>3, <3>1, <3>2
  <2>3. CASE x # t
    <3>1. Handing(x) => Handing(x)'
      BY <1>1, <1>3, <2>3 DEF Handing, HandingOver, t
    <3> QED
      BY <1>1, <1>5, <2>1, <3>1 DEF Somewhere, Raced
  <2> QED
    BY <2>2, <2>3
<1>7. LatestOK'
  BY <1>1, <1>6 DEF LatestOK
<1>8. Known(buffer)' /\ "found" \in Tasks \ {"copied"}
  BY <1>1 DEF ListsOK, Known, Rev, Tasks, Hands
<1> QED
  BY <1>1, <1>2, <1>3, <1>4, <1>7, <1>8, HandStep DEF SdkTypeOK

\* The thread puts its trace where it found it: another one that has come to stand there
\* is lost, and a place that is no more leaves the trace to the flush that took it.
LEMMA PyPlaceStep ==
  ASSUME SdkInv, sdk = "python", NEW c \in Callers, PyPlace(c)
  PROVE  SdkInv'
<1> DEFINE t == hand[c].trace
           k == slot[c]
<1>1. /\ SdkTypeOK /\ ListsOK /\ HandsOK /\ LatestOK
      /\ ~sink /\ task[c] = "found"
      /\ hand' = [hand EXCEPT ![c] = NoEnvelope] /\ slot' = [slot EXCEPT ![c] = 0]
      /\ UNCHANGED <<sdk, sink, envelope, timer, batch, body, outcome, promised, acked,
                     failed, shared>>
      /\ \/ k = 0 /\ buffer' = Append(buffer, hand[c]) /\ torn' = torn \ {t}
         \/ k \in DOMAIN buffer /\ buffer' = [buffer EXCEPT ![k] = hand[c]]
                              /\ torn' = (torn \cup {buffer[k].trace}) \ {t}
         \/ k > Len(buffer) /\ UNCHANGED <<buffer, torn>>
  BY DEF SdkInv, PyPlace, modeVars, programVars, flushVars, answerVars
<1>2. PICK next \in {"idle", "answered"} : task' = [task EXCEPT ![c] = next]
  BY DEF PyPlace, AfterSync
<1>3. /\ task[c] \in Hands /\ hand[c] \in Entry /\ t \in Traces
      /\ envelope[t] # NoEnvelope /\ hand[c].envelope.rev <= Rev(t)
      /\ k \in Nat
  BY <1>1, HandFacts DEF Hands, SdkTypeOK
<1>4. PICK b \in Seq(Entry) : b = buffer /\ Known(b)
  BY <1>1 DEF SdkTypeOK, ListsOK
<1>5. PICK h \in Entry : h = hand[c] /\ h.trace = t
  BY <1>3
<1>6. PICK u \in Seq(Entry) :
        /\ u = buffer' /\ torn' \subseteq Traces
        /\ \A i \in DOMAIN u : u[i] = h \/ \E j \in DOMAIN b : u[i] = b[j]
        /\ k > Len(b) \/ \E i \in DOMAIN u : u[i] = h
        /\ t \notin torn' \/ torn' = torn
        /\ \A x \in torn : x # t => x \in torn'
        /\ \A j \in DOMAIN b : \/ \E i \in DOMAIN u : u[i] = b[j]
                               \/ b[j].trace = t \/ b[j].trace \in torn'
  <2>1. /\ Len(b) \in Nat /\ DOMAIN b = 1..Len(b) /\ \A j \in DOMAIN b : b[j] \in Entry
        /\ torn \subseteq Traces
    BY <1>1 DEF SdkTypeOK
  <2>2. CASE k = 0 /\ buffer' = Append(b, h) /\ torn' = torn \ {t}
    <3>1. /\ Append(b, h) \in Seq(Entry) /\ DOMAIN Append(b, h) = 1..(Len(b) + 1)
          /\ Append(b, h)[Len(b) + 1] = h
          /\ \A j \in DOMAIN b : Append(b, h)[j] = b[j]
      BY <2>1
    <3>2. /\ \A i \in DOMAIN Append(b, h) : i = Len(b) + 1 \/ i \in DOMAIN b
          /\ \A j \in DOMAIN b : j \in DOMAIN Append(b, h)
          /\ Len(b) + 1 \in DOMAIN Append(b, h)
      BY <2>1, <3>1
    <3> QED
      BY <2>1, <2>2, <3>1, <3>2
  <2>3. CASE /\ k \in DOMAIN b /\ buffer' = [b EXCEPT ![k] = h]
             /\ torn' = (torn \cup {b[k].trace}) \ {t}
    <3>1. /\ DOMAIN [b EXCEPT ![k] = h] = DOMAIN b
          /\ \A i \in DOMAIN b : [b EXCEPT ![k] = h][i] = IF i = k THEN h ELSE b[i]
      OBVIOUS
    <3>2. [b EXCEPT ![k] = h] \in Seq(Entry)
      <4>1. [b EXCEPT ![k] = h] \in [1..Len(b) -> Entry]
        BY <2>1
      <4> QED
        BY <2>1, <4>1
    <3>3. b[k].trace \in Traces
      <4>1. b[k] \in Entry
        BY <2>1, <2>3
      <4> QED
        BY <4>1 DEF Entry
    <3> QED
      BY <2>1, <2>3, <3>1, <3>2, <3>3
  <2>4. CASE k > Len(b) /\ buffer' = b /\ torn' = torn
    BY <2>1, <2>4
  <2> QED
    BY <1>1, <1>4, <1>5, <2>2, <2>3, <2>4
<1> HIDE DEF t, k
<1>7. Known(u)
  <2>1. ASSUME NEW i \in DOMAIN u
        PROVE  envelope[u[i].trace] # NoEnvelope /\ u[i].envelope.rev <= Rev(u[i].trace)
    BY <1>3, <1>4, <1>5, <1>6 DEF Known
  <2> QED
    BY <2>1 DEF Known
<1>8. Known(buffer)'
  BY <1>1, <1>6, <1>7 DEF Known, Rev
<1>9. HandsOK' /\ \A x : Handing(x) /\ ~HandingOver(c, x) => Handing(x)'
  <2>1. next \in {"idle", "full", "answered"} /\ \A d \in Callers : d # c => slot'[d] = slot[d]
    BY <1>1, <1>2
  <2> QED
    BY <1>1, <1>2, <2>1, HandPut DEF SdkTypeOK
<1>10. \A g \in Flushers : InFlight(g)' = InFlight(g)
  BY <1>1, FlightKept
<1>11. Revisions(buffer)' = Revisions(u) /\ Revisions(buffer) = Revisions(b)
  BY <1>1, <1>4, <1>6 DEF Revisions, RevisionOf, Body
<1>12. ASSUME NEW x \in Traces, envelope[x] # NoEnvelope PROVE Somewhere(x)'
  <2>1. Somewhere(x)
    BY <1>1, <1>12 DEF LatestOK
  <2>2. ASSUME NEW i \in DOMAIN u, u[i].trace = x
        PROVE  Somewhere(x)'
    <3>1. RevisionOf(u[i]) = <<x, envelope[x].rev>>
      BY <1>1, <2>2 DEF RevisionOf, Body
    <3>2. <<x, envelope[x].rev>> \in Revisions(u)
      BY <3>1 DEF Revisions
    <3> QED
      BY <1>1, <1>11, <3>2 DEF Somewhere
  <2>3. CASE <<x, envelope[x].rev>> \in Revisions(b)
    <3>1. PICK j \in DOMAIN b : b[j].trace = x
      BY <2>3 DEF Revisions, RevisionOf
    <3>2. CASE \E i \in DOMAIN u : u[i] = b[j]
      BY <2>2, <3>1, <3>2
    <3>3. CASE x = t
      <4>1. CASE \E i \in DOMAIN u : u[i] = h
        BY <1>5, <2>2, <3>3, <4>1
      <4>2. CASE k > Len(b)
        <5>1. u = b
          BY <1>1, <1>3, <1>4, <1>6, <4>2 DEF k
        <5> QED
          BY <2>2, <3>1, <5>1
      <4> QED
        BY <1>6, <4>1, <4>2
    <3>4. CASE x \in torn'
      BY <1>1, <3>4 DEF Somewhere, Raced
    <3> QED
      BY <1>6, <3>1, <3>2, <3>3, <3>4
  <2>4. CASE Raced(x)
    <3>1. CASE x \in torn'
      BY <1>1, <3>1 DEF Somewhere, Raced
    <3>2. CASE x \notin torn'
      <4>1. x \in torn /\ x = t /\ torn' # torn
        BY <1>1, <1>6, <2>4, <3>2 DEF Raced
      <4>2. \E i \in DOMAIN u : u[i] = h
        BY <1>1, <1>3, <1>4, <1>6, <4>1 DEF k
      <4> QED
        BY <1>5, <2>2, <4>1, <4>2
    <3> QED
      BY <3>1, <3>2
  <2>5. CASE Handing(x)
    <3>1. CASE ~HandingOver(c, x)
      BY <1>9, <2>5, <3>1 DEF Somewhere
    <3>2. CASE HandingOver(c, x) /\ k = 0
      <4>1. \E i \in DOMAIN u : u[i] = h
        BY <1>4, <1>6, <3>2
      <4> QED
        BY <1>5, <2>2, <3>2, <4>1 DEF HandingOver, t
    <3>3. CASE HandingOver(c, x) /\ k # 0
      <4>1. PICK d \in Callers : HandingOver(d, x) /\ (task[d] = "found" => slot[d] = 0)
        BY <2>5 DEF Handing
      <4>2. d # c
        BY <1>1, <3>3, <4>1 DEF k
      <4>3. /\ hand'[d] = hand[d] /\ slot'[d] = slot[d] /\ task'[d] = task[d]
        BY <1>1, <1>2, <4>2
      <4>4. Handing(x)'
        BY <4>1, <4>3 DEF Handing, HandingOver
      <4> QED
        BY <4>4 DEF Somewhere
    <3> QED
      BY <3>1, <3>2, <3>3
  <2>6. CASE \/ envelope[x].rev \in {acked[x], failed[x]}
             \/ \E g \in Flushers : <<x, envelope[x].rev>> \in InFlight(g)
    BY <1>1, <1>10, <2>6 DEF Somewhere
  <2> QED
    BY <1>11, <2>1, <2>3, <2>4, <2>5, <2>6 DEF Somewhere
<1>13. LatestOK'
  BY <1>1, <1>12 DEF LatestOK
<1>14. next \in Tasks \ {"copied"} /\ slot' \in [Callers -> Nat]
       /\ hand' \in [Callers -> Entry \cup {NoEnvelope}]
  BY <1>1, <1>2 DEF Tasks, SdkTypeOK
<1> QED
  BY <1>1, <1>2, <1>3, <1>6, <1>8, <1>9, <1>13, <1>14, HandStep

\* Every step of a Python program keeps the invariant.
LEMMA PythonStep ==
  ASSUME SdkInv, sdk = "python", PythonNext
  PROVE  SdkInv'
<1>1. /\ SdkTypeOK /\ ShapeOK /\ HandsOK
      /\ task \in [Callers -> Tasks]
  BY DEF SdkInv, SdkTypeOK
<1>2. ASSUME NEW c \in Callers, NEW t \in Traces, PyRecord(c, t) PROVE SdkInv'
  BY <1>2, PyChangeStep DEF PyRecord, Record, Free
<1>3. ASSUME NEW c \in Callers, NEW t \in Traces, PyRecordCall(c, t) PROVE SdkInv'
  BY <1>3, PyChangeStep DEF PyRecordCall, RecordCall, Free
<1>4. ASSUME NEW c \in Callers, PyFlush(c) PROVE SdkInv'
  <2>1. /\ sink /\ batch[c] = <<>> /\ task' = [task EXCEPT ![c] = AfterFlush(c)]
        /\ task[c] \notin Hands
        /\ buffer' = <<>> /\ StartSending(c, buffer)
        /\ UNCHANGED <<sdk, sink, envelope, timer, answerVars, hand, slot, shared, torn>>
    BY <1>4 DEF PyFlush, Free, modeVars, programVars, handVars, raceVars, Hands
  <2>2. AfterFlush(c) \in {"idle", "answered"}
    BY DEF AfterFlush
  <2>3. c \in Flushers /\ c # Background
    BY SdkAbsent DEF Flushers
  <2>4. /\ task' \in [Callers -> Tasks]
        /\ \A d \in Callers :
             IF d = c THEN task[d] \notin Hands /\ task'[d] \notin Hands \cup {"copied"}
             ELSE task'[d] = task[d]
    BY <1>1, <2>1, <2>2 DEF Tasks, Hands
  <2>5. Begun(c)
    BY <1>1, <2>1, <2>3, <2>4 DEF Begun, SdkTypeOK
  <2> QED
    BY <2>1, <2>3, <2>5, StartStep
<1>5. ASSUME NEW c \in Callers, PyShutdown(c) PROVE SdkInv'
  <2>1. /\ batch[c] = <<>> /\ task[c] = "idle" /\ ~timer' /\ timer' \in BOOLEAN
        /\ buffer' = <<>> /\ StartSending(c, buffer)
        /\ UNCHANGED <<sdk, sink, envelope, task, answerVars, hand, slot, shared, torn>>
    BY <1>5 DEF PyShutdown, Free, modeVars, programVars, handVars, raceVars
  <2>2. c \in Flushers /\ Begun(c)
    BY <1>1, <2>1 DEF Begun, Flushers, Hands
  <2> QED
    BY <2>1, <2>2, StartStep
<1>6. ASSUME PyTick PROVE SdkInv'
  <2>1. /\ timer /\ ~timer' /\ timer' \in BOOLEAN
        /\ buffer' = <<>> /\ StartSending(Background, buffer)
        /\ UNCHANGED <<sdk, sink, envelope, task, answerVars, hand, slot, shared, torn>>
    BY <1>6 DEF PyTick, modeVars, programVars, handVars, raceVars
  <2>2. Background \in Flushers /\ Begun(Background) /\ batch[Background] = <<>>
    BY <1>1, <2>1, SdkAbsent DEF Begun, Flushers, ShapeOK
  <2> QED
    BY <2>1, <2>2, StartStep
<1>7. ASSUME NEW f \in Flushers, PyAnswered(f) PROVE SdkInv'
  <2>1. /\ UNCHANGED <<sdk, sink, envelope, timer, buffer, hand, slot, shared, torn>>
        /\ body[f] # NoEnvelope
    BY <1>1, <1>7 DEF PyAnswered, modeVars, programVars, handVars, raceVars, ShapeOK
  <2>2. \/ Delivered(f) /\ UNCHANGED task
        \/ Retry(f) /\ UNCHANGED task
        \/ GiveUp(f) /\ task' = [c \in Callers |-> IF c = f THEN "idle" ELSE task[c]]
    BY <1>7 DEF PyAnswered
  <2> QED
    BY <1>1, <2>1, <2>2, AnsweredStep
<1> QED
  BY <1>2, <1>3, <1>4, <1>5, <1>6, <1>7, PyCopyStep, PyEnqueueStep, PyFindStep, PyPlaceStep,
     CopyStep, ClearStep DEF PythonNext

\* Every step of a program with an SDK keeps the invariant.
LEMMA SdkStep ==
  ASSUME SdkInv, [SdkNext]_sdkVars
  PROVE  SdkInv'
<1>1. CASE UNCHANGED sdkVars
  BY <1>1, IdleStep
     DEF sdkVars, modeVars, programVars, handVars, flushVars, answerVars, raceVars
<1>2. CASE SdkNext
  BY <1>2, NodeStep, PythonStep DEF SdkNext
<1> QED
  BY <1>1, <1>2

-----------------------------------------------------------------------------
\* The inductive invariant: what waits is of recorded traces, the latest state of each is
\* being handed over, waits, is under way, answered or given up, unless one of Python's
\* two races may have lost it, every promise is answered or on its way, a skipped flush
\* has lost nothing, and in Node there is one flush at a time.
THEOREM SdkInvariant == SdkSpec => []SdkInv
<1>1. ClientInit => SdkInv
  BY SdkInvInit
<1>2. SdkInv /\ [SdkNext]_sdkVars => SdkInv'
  BY SdkStep
<1> QED
  BY <1>1, <1>2, PTL DEF SdkSpec

\* Whatever changes while earlier states are sent and however flushes overlap, the latest
\* state of a trace is being handed over, waits, is being sent, was accepted or was given
\* up with an error.  For packages/sdk-node this holds without exception; in
\* packages/sdk-python it fails only for a trace that two threads hand over at once, for
\* enqueue copies before it has the lock, and for one dropped from the unlocked pending
\* list.
THEOREM NothingIsLost == SdkSpec => []NothingLostQuietly
<1>1. SdkInv => NothingLostQuietly
  BY DEF SdkInv, LatestOK, Somewhere, Handing, Raced, NothingLostQuietly
<1> QED
  BY <1>1, SdkInvariant, PTL

\* A flush that sends and ends without an error has had every trace it found in the
\* buffer answered, in that state or a later one.  A flush of packages/sdk-node that
\* returns at once, because another one runs, has none of them answered: each still
\* waits, is under way, was answered or was given up with an error, in that state or a
\* later one.
THEOREM FlushesDeliver == SdkSpec => []FlushDelivers
<1>1. SdkInv => FlushDelivers
  BY DEF SdkInv, PromiseOK, SkipOK, FlushDelivers, AnsweredBy
<1> QED
  BY <1>1, SdkInvariant, PTL

\* The `flushing` flag and the entry per trace keep the Node transport from sending a
\* state of a trace after a later one.
THEOREM OrderIsKept == SdkSpec => []SendsInOrder
<1>1. SdkInv => SendsInOrder
  BY DEF SdkInv, OrderOK, SendsInOrder
<1> QED
  BY <1>1, SdkInvariant, PTL

=============================================================================
