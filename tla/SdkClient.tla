------------------------------ MODULE SdkClient ------------------------------
(***************************************************************************)
(* What the Node and the Python SDK share: AuditTrailClient records every  *)
(* change of a trace by handing over the whole envelope, to a sink or to   *)
(* its own pending list, and flushes send the envelopes one by one with    *)
(* the trace id as idempotency key.  What the server makes of them is in   *)
(* Ingest: here it only answers.                                           *)
(*                                                                         *)
(* Callers are async tasks (Node) or threads (Python).  A caller that      *)
(* awaits a flush does nothing else.  Of an envelope only what ingest      *)
(* tells apart is kept: how many changes it holds (rev), its spans, those  *)
(* of them without an event, and whether client.trace made it.             *)
(***************************************************************************)
EXTENDS Naturals, FiniteSets, Sequences, SequencesExt

CONSTANTS
  Traces, Callers,
  Background,      \* the interval timer, and flushes nobody awaits
  NoCall, NoEnvelope,
  MaxRevs,         \* bounds: changes the program records of each trace, one of these
  MaxSpans,        \* bound: spans of a trace
  MaxAttempts,     \* withRetry's maxAttempts, 5 in the code
  MaxBufferSize    \* 50 by default

ASSUME SdkBounds ==
  /\ {MaxSpans, MaxAttempts, MaxBufferSize} \subseteq Nat \ {0}
  /\ MaxRevs \subseteq [Traces -> Nat]
  /\ IsFiniteSet(Traces)

ASSUME SdkAbsent == Background \notin Callers

Flushers == Callers \cup {Background}

Revision == Nat \ {0}
Envelope == [rev : Revision, spans : Nat, bare : Nat, active : BOOLEAN]
Entry == [trace : Traces, envelope : Envelope]

ASSUME EnvelopeAbsent == NoEnvelope \notin Envelope \cup Entry

VARIABLES
  sdk,        \* "node" | "python"
  sink,       \* whether the client has a BufferedTransport
  alive,      \* FALSE once an unhandled rejection has ended the process
  envelope,   \* the envelope object of each trace
  task,       \* a caller's next step: "idle", a flush ("full" | "answered" | "copied"), or
              \* in Python handing over a change ("changed" | "held" | "found")
  hand,       \* the entry a thread hands over
  slot,       \* where in the pending list a thread found its trace, or 0
  call,       \* the trace and revision of the model call a caller last recorded
  timer,      \* whether the interval timer (one-shot in Python) is set
  buffer,     \* BufferedTransport.buffer, or AuditTrailClient.pending
  batch,      \* what each running flush has still to send, the head in flight
  body,       \* the body of the request in flight
  attempt,
  outcome,    \* of each flusher's last flush: "running" | "ok" | "error", or "skipped"
              \* when it left the buffer to a flush under way
  promised,   \* history: what was in the buffer when that flush began
  acked,      \* history: the last revision of a trace that was answered 2xx
  failed,     \* history: the last revision of a trace that an error gave up
  shared,     \* history: traces last changed by one thread with another still handing
              \* one over
  torn        \* history: traces whose entry was dropped from the unlocked pending list

programVars == <<envelope, call>>
handVars == <<hand, slot>>
flushVars == <<batch, body, attempt, outcome, promised>>
answerVars == <<acked, failed>>
raceVars == <<shared, torn>>
modeVars == <<sdk, sink>>
sdkVars == <<modeVars, alive, programVars, task, handVars, timer, buffer, flushVars,
             answerVars, raceVars>>

\* A BufferedTransport starts its timer and has nothing to send.
TransportInit ==
  /\ timer = sink
  /\ buffer = <<>>
  /\ batch = [f \in Flushers |-> <<>>]
  /\ body = [f \in Flushers |-> NoEnvelope]
  /\ attempt = [f \in Flushers |-> 0]
  /\ outcome = [f \in Flushers |-> "ok"]
  /\ promised = [f \in Flushers |-> {}]

\* A client with or without a sink.
ClientInit ==
  /\ sdk \in {"node", "python"}
  /\ sink \in BOOLEAN
  /\ TransportInit
  /\ alive = TRUE
  /\ envelope = [t \in Traces |-> NoEnvelope]
  /\ task = [c \in Callers |-> "idle"]
  /\ hand = [c \in Callers |-> NoEnvelope]
  /\ slot = [c \in Callers |-> 0]
  /\ call = [c \in Callers |-> NoCall]
  /\ acked = [t \in Traces |-> 0]
  /\ failed = [t \in Traces |-> 0]
  /\ shared = {}
  /\ torn = {}

-----------------------------------------------------------------------------
\* Recording.

\* The process runs and c awaits no flush.
Free(c) == alive /\ batch[c] = <<>>

\* client.trace: no spans yet.
NewEnvelope == [rev |-> 1, spans |-> 0, bare |-> 0, active |-> TRUE]

\* TraceBuilder.build, or an envelope written by hand, for the sink's enqueue.
BuiltEnvelope == [rev |-> 1, spans |-> 1, bare |-> 0, active |-> FALSE]

\* trace.span: a span without events.
WithSpan(e) == [e EXCEPT !.rev = @ + 1, !.spans = @ + 1, !.bare = @ + 1]

\* span.addEvent, to a span that has none yet or to another one.
WithEvent(e) ==
  (IF e.bare > 0 THEN {[e EXCEPT !.rev = @ + 1, !.bare = @ - 1]} ELSE {})
  \cup (IF e.spans > e.bare THEN {[e EXCEPT !.rev = @ + 1]} ELSE {})

\* complete, fail: only the status.
WithStatus(e) == [e EXCEPT !.rev = @ + 1]

\* The envelopes the next change of t may produce.
Changed(t) ==
  LET e == envelope[t]
  IN  IF e = NoEnvelope THEN {NewEnvelope} \cup (IF sink THEN {BuiltEnvelope} ELSE {})
      ELSE {WithStatus(e)} \cup WithEvent(e)
                \cup (IF e.spans < MaxSpans THEN {WithSpan(e)} ELSE {})

\* enqueue and syncEnvelope replace the entry of a trace that is waiting.
Upsert(b, t, e) ==
  LET entry == [trace |-> t, envelope |-> e]
      waiting == {i \in DOMAIN b : b[i].trace = t}
  IN  IF waiting = {} THEN Append(b, entry)
      ELSE [i \in DOMAIN b |-> IF i \in waiting THEN entry ELSE b[i]]

\* The changes of all traces are bounded together.
Bounded(t, e) ==
  \E max \in MaxRevs :
    /\ e.rev <= max[t]
    /\ \A u \in Traces \ {t} : envelope[u] # NoEnvelope => envelope[u].rev <= max[u]

\* A change by caller c.  The envelope then goes to the sink or to pending.
Record(c, t, e) ==
  /\ Free(c) /\ task[c] = "idle"
  /\ Bounded(t, e)
  /\ envelope' = [envelope EXCEPT ![t] = e]
  /\ call' = [call EXCEPT ![c] = NoCall]

\* wrapOpenAIChatCompletions, once the model has answered: the completion event is
\* recorded after the prompt event, a change like others, and a flush follows.
CallChanges(t) ==
  LET e == envelope[t]
  IN  IF e # NoEnvelope /\ e.active /\ e.spans > e.bare
        THEN {[e EXCEPT !.rev = @ + 1]} ELSE {}

RecordCall(c, t, e) ==
  /\ Free(c) /\ task[c] = "idle"
  /\ Bounded(t, e)
  /\ envelope' = [envelope EXCEPT ![t] = e]
  /\ call' = [call EXCEPT ![c] = <<t, e.rev>>]

-----------------------------------------------------------------------------
\* Sending.

\* The sink holds redacted copies; pending holds the live object, which is
\* serialized when its turn comes.
Body(entry) == IF sink THEN entry.envelope ELSE envelope[entry.trace]

RevisionOf(entry) == <<entry.trace, Body(entry).rev>>

Revisions(entries) == {RevisionOf(entries[i]) : i \in DOMAIN entries}

\* A flush by f takes the entries and puts the first on the wire.
StartSending(f, entries) ==
  /\ promised' = [promised EXCEPT ![f] = Revisions(entries)]
  /\ batch' = [batch EXCEPT ![f] = entries]
  /\ IF entries = <<>>
       THEN /\ outcome' = [outcome EXCEPT ![f] = "ok"]
            /\ body' = [body EXCEPT ![f] = NoEnvelope]
            /\ attempt' = [attempt EXCEPT ![f] = 0]
       ELSE /\ outcome' = [outcome EXCEPT ![f] = "running"]
            /\ body' = [body EXCEPT ![f] = Body(entries[1])]
            /\ attempt' = [attempt EXCEPT ![f] = 1]

\* Python's client.trace sends as null what it was not given, the parent of a root span
\* above all.
SendsNulls(e) == e.active /\ sdk = "python"

\* trace-envelope.schema.json: at least one span, an event in each, and no nulls.
Valid(e) == e.spans > 0 /\ e.bare = 0 /\ ~ SendsNulls(e)

\* POST /v1/traces as a client sees it: 2xx; 400 for an invalid envelope; another
\* 4xx; 429 or a 5xx; no answer, whether or not the request arrived.
Answers(e) == {"refused", "busy", "unreachable"}
              \cup (IF Valid(e) THEN {"accepted"} ELSE {"invalid"})

\* What does not make postEnvelope and sendOne throw.
Accepts(answer) == answer = "accepted"

\* The flush of f is over.
Stop(f, result) ==
  /\ batch' = [batch EXCEPT ![f] = <<>>]
  /\ body' = [body EXCEPT ![f] = NoEnvelope]
  /\ attempt' = [attempt EXCEPT ![f] = 0]
  /\ outcome' = [outcome EXCEPT ![f] = result]

AtLeast(seen, revisions) ==
  [t \in Traces |-> Max({seen[t]} \cup {r[2] : r \in {q \in revisions : q[1] = t}})]

\* The head of the batch was answered 2xx; the next entry is sent.
Delivered(f) ==
  LET t == batch[f][1].trace
      rest == Tail(batch[f])
  IN  /\ acked' = AtLeast(acked, {<<t, body[f].rev>>})
      /\ IF rest = <<>> THEN Stop(f, "ok")
         ELSE /\ batch' = [batch EXCEPT ![f] = rest]
              /\ body' = [body EXCEPT ![f] = Body(rest[1])]
              /\ attempt' = [attempt EXCEPT ![f] = 1]
              /\ UNCHANGED outcome
      /\ UNCHANGED <<failed, promised>>

\* The revisions f has still to deliver.
InFlight(f) ==
  IF body[f] = NoEnvelope THEN Revisions(batch[f])
  ELSE {<<batch[f][1].trace, body[f].rev>>} \cup Revisions(Tail(batch[f]))

\* A plausible slip: only the envelope that failed is reported.
GiveUpHead(f) ==
  /\ failed' = AtLeast(failed, {<<batch[f][1].trace, body[f].rev>>})
  /\ promised' = [promised EXCEPT ![f] = {}]
  /\ Stop(f, "error")
  /\ UNCHANGED acked

\* An error leaves the flush: what the batch still held is gone with it.
GiveUp(f) ==
  /\ failed' = AtLeast(failed, InFlight(f))
  /\ promised' = [promised EXCEPT ![f] = {}]
  /\ Stop(f, "error")
  /\ UNCHANGED acked

\* The same body once more.  Backoff is time in which others act.
Retry(f) ==
  /\ attempt' = [attempt EXCEPT ![f] = @ + 1]
  /\ UNCHANGED <<batch, body, outcome, promised, acked, failed>>

=============================================================================
