-------------------------------- MODULE Sdk --------------------------------
(***************************************************************************)
(* A program instrumented with one of the two SDKs, and what it may rely   *)
(* on.                                                                     *)
(***************************************************************************)
EXTENDS NodeTransport, PythonTransport

SdkNext ==
  \/ sdk = "node" /\ NodeNext
  \/ sdk = "python" /\ PythonNext

SdkSpec == ClientInit /\ [][SdkNext]_sdkVars

\* The timer runs, and every request is answered or times out.
FairSdkSpec ==
  /\ SdkSpec
  /\ WF_sdkVars(sdk = "node" /\ NodeTick)
  /\ \A c \in Callers : WF_sdkVars(sdk = "node" /\ task[c] = "answered" /\ NodeFlush(c))
  /\ \A f \in Flushers : WF_sdkVars(sdk = "node" /\ NodeAnswered(f))

-----------------------------------------------------------------------------
\* A thread has changed t and has not handed it over.
HandingOver(c, t) == hand[c] # NoEnvelope /\ hand[c].trace = t

\* While the process lives, the latest state of a trace is being handed over, waits in
\* the buffer, is being sent, was accepted, or was given up with an error, whatever
\* changes while earlier states are sent and however flushes overlap.  In Python this
\* takes that no other thread was still handing over the trace when it last changed,
\* for enqueue may put an older copy in the place of a newer one; and without a sink,
\* that the unlocked pending list has not dropped the entry.
NothingLostQuietly ==
  alive =>
    \A t \in Traces :
      envelope[t] # NoEnvelope =>
        \/ envelope[t].rev \in {acked[t], failed[t]}
        \/ \E c \in Callers : HandingOver(c, t)
        \/ <<t, envelope[t].rev>> \in Revisions(buffer)
        \/ \E f \in Flushers : <<t, envelope[t].rev>> \in InFlight(f)
        \/ sdk = "python" /\ (IF sink THEN t \in shared ELSE t \in torn)

\* The Node transport never has a state of a trace on the wire, or left to send,
\* after a later one was answered.  (In Python a second flush starts while the first
\* retries; without a sink flushes overlap in both SDKs.)
SendsInOrder ==
  sdk = "node" /\ sink =>
    \A f \in Flushers : \A r \in InFlight(f) : r[2] >= acked[r[1]] /\ r[2] >= failed[r[1]]

\* A revision of a trace was answered in this state or a later one.
AnsweredBy(p) == acked[p[1]] >= p[2]

\* A state as late waits, is under way, was answered or was given up with an error.
KeptOf(p) ==
  \/ AnsweredBy(p) \/ failed[p[1]] >= p[2]
  \/ \E q \in Revisions(buffer) \cup UNION {InFlight(f) : f \in Flushers} :
       q[1] = p[1] /\ q[2] >= p[2]

\* A flush that sends and ends without an error delivered every trace it found in the
\* buffer, in the state it had then or a later one.  One that returns at once because
\* another flush runs, that of shutdown included, delivers none of them, and loses none.
FlushDelivers ==
  \A f \in Flushers :
    /\ outcome[f] = "ok" => \A p \in promised[f] : AnsweredBy(p)
    /\ outcome[f] = "skipped" => \A p \in promised[f] : KeptOf(p)

\* As long as the Node timer runs, what was recorded leaves the buffer, retries and
\* failed flushes notwithstanding.
BufferDrains ==
  sdk = "node" /\ timer /\ buffer # <<>> ~> buffer = <<>> \/ ~ timer \/ ~ alive

=============================================================================
