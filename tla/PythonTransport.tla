-------------------------- MODULE PythonTransport --------------------------
(***************************************************************************)
(* The Python SDK: BufferedTransport with its lock and its one-shot timer, *)
(* and AuditTrailClient without a sink, whose pending list has no lock.    *)
(* Callers are threads, which change a trace and then hand it over; a      *)
(* flush blocks the thread that runs it and no flag keeps another one from *)
(* flushing meanwhile.                                                     *)
(***************************************************************************)
EXTENDS SdkClient

\* A thread changes a trace: lists and dicts change in one step, the rest does not.
PyChange(c, t, e) ==
  /\ hand' = [hand EXCEPT ![c] = [trace |-> t, envelope |-> e]]
  /\ shared' = IF \E d \in Callers \ {c} : hand[d] # NoEnvelope /\ hand[d].trace = t
                 THEN shared \cup {t} ELSE shared \ {t}
  /\ task' = [task EXCEPT ![c] = "changed"]
  /\ UNCHANGED <<modeVars, alive, slot, timer, buffer, flushVars, answerVars, torn>>

PyRecord(c, t) == \E e \in Changed(t) : Record(c, t, e) /\ PyChange(c, t, e)

PyRecordCall(c, t) == \E e \in CallChanges(t) : RecordCall(c, t, e) /\ PyChange(c, t, e)

\* What is left to do when the change is handed over: the wrapper flushes.
AfterSync(c) == IF call[c] # NoCall THEN "answered" ELSE "idle"

\* enqueue makes its redacted copy before it has the lock.
PyCopy(c) ==
  /\ sink /\ Free(c) /\ task[c] = "changed"
  /\ hand' = [hand EXCEPT ![c].envelope = envelope[hand[c].trace]]
  /\ task' = [task EXCEPT ![c] = "held"]
  /\ UNCHANGED <<modeVars, alive, programVars, slot, timer, buffer, flushVars, answerVars,
                 raceVars>>

\* Under the lock the copy takes the place of what waits, older or newer.  A full
\* buffer is flushed by the same thread once it has let go of the lock.
PyEnqueue(c) ==
  /\ sink /\ Free(c) /\ task[c] = "held"
  /\ buffer' = Upsert(buffer, hand[c].trace, hand[c].envelope)
  /\ task' = [task EXCEPT ![c] = IF Len(buffer') >= MaxBufferSize THEN "full"
                                 ELSE AfterSync(c)]
  /\ hand' = [hand EXCEPT ![c] = NoEnvelope]
  /\ UNCHANGED <<modeVars, alive, programVars, slot, timer, flushVars, answerVars, raceVars>>

TracesOf(b) == {b[i].trace : i \in DOMAIN b}

\* _sync without a sink looks for the first entry of the trace in the pending list...
PyFind(c) ==
  LET t == hand[c].trace
  IN  /\ ~ sink /\ Free(c) /\ task[c] = "changed"
      /\ \/ t \notin TracesOf(buffer) /\ slot' = [slot EXCEPT ![c] = 0]
         \/ \E i \in DOMAIN buffer :
              /\ buffer[i].trace = t /\ \A j \in 1..(i - 1) : buffer[j].trace # t
              /\ slot' = [slot EXCEPT ![c] = i]
      /\ task' = [task EXCEPT ![c] = "found"]
      /\ UNCHANGED <<modeVars, alive, programVars, hand, timer, buffer, flushVars,
                     answerVars, raceVars>>

\* ... and then assigns to what may be the place of another one by now, or no place at
\* all: an IndexError, which ends the call.
PyPlace(c) ==
  LET i == slot[c]
      t == hand[c].trace
  IN  /\ ~ sink /\ Free(c) /\ task[c] = "found"
      /\ hand' = [hand EXCEPT ![c] = NoEnvelope]
      /\ slot' = [slot EXCEPT ![c] = 0]
      /\ task' = [task EXCEPT ![c] = IF i > Len(buffer) THEN "idle" ELSE AfterSync(c)]
      /\ \/ i = 0 /\ buffer' = Append(buffer, hand[c]) /\ torn' = torn \ {t}
         \/ i \in DOMAIN buffer /\ buffer' = [buffer EXCEPT ![i] = hand[c]]
                              /\ torn' = (torn \cup {buffer[i].trace}) \ {t}
         \/ i > Len(buffer) /\ UNCHANGED <<buffer, torn>>
      /\ UNCHANGED <<modeVars, alive, programVars, timer, flushVars, answerVars, shared>>

\* What is left to do after a flush: that of the wrapper, when the one just run was
\* that of add_event.
AfterFlush(c) == IF task[c] = "full" /\ call[c] # NoCall THEN "answered" ELSE "idle"

\* flush with a sink: the buffer is copied and cleared under the lock.
PyFlush(c) ==
  /\ sink /\ Free(c) /\ task[c] \in {"idle", "full", "answered"}
  /\ task' = [task EXCEPT ![c] = AfterFlush(c)]
  /\ buffer' = <<>>
  /\ StartSending(c, buffer)
  /\ UNCHANGED <<modeVars, alive, programVars, handVars, timer, answerVars, raceVars>>

\* shutdown: the timer is cancelled, if it has not fired, then flush.
PyShutdown(c) ==
  /\ timer
  /\ Free(c) /\ task[c] = "idle"
  /\ timer' = FALSE
  /\ buffer' = <<>>
  /\ StartSending(c, buffer)
  /\ UNCHANGED <<modeVars, alive, programVars, task, handVars, answerVars, raceVars>>

\* threading.Timer fires once, in a thread of its own.
PyTick ==
  /\ alive /\ timer
  /\ timer' = FALSE
  /\ buffer' = <<>>
  /\ StartSending(Background, buffer)
  /\ UNCHANGED <<modeVars, alive, programVars, task, handVars, answerVars, raceVars>>

\* flush without a sink copies the pending list and then clears it.
PyCopyPending(c) ==
  /\ ~ sink /\ Free(c) /\ task[c] \in {"idle", "answered"}
  /\ batch' = [batch EXCEPT ![c] = buffer]
  /\ task' = [task EXCEPT ![c] = "copied"]
  /\ UNCHANGED <<modeVars, alive, programVars, handVars, timer, buffer, body, attempt,
                 outcome, promised, answerVars, raceVars>>

PyClearPending(c) ==
  /\ alive /\ task[c] = "copied"
  /\ task' = [task EXCEPT ![c] = "idle"]
  /\ torn' = torn \cup (TracesOf(buffer) \ TracesOf(batch[c]))
  /\ buffer' = <<>>
  /\ StartSending(c, batch[c])
  /\ UNCHANGED <<modeVars, alive, programVars, handVars, timer, answerVars, shared>>

\* What _post and _default_post return for.
PyAccepts(answer) == answer = "accepted"

\* RETRIABLE_STATUS.  The exception of a request without an answer is a URLError
\* or a timeout, not the RuntimeError the retry loop catches.
PyRetriable(answer) == sink /\ answer = "busy"

\* An error ends the call of the thread that flushed; in the timer's thread it is
\* printed.
PyAnswered(f) ==
  /\ alive
  /\ batch[f] # <<>>
  /\ f \in Callers => task[f] # "copied"
  /\ \E answer \in Answers(body[f]) :
       IF PyAccepts(answer) THEN Delivered(f) /\ UNCHANGED task
       ELSE IF PyRetriable(answer) /\ attempt[f] < MaxAttempts
              THEN Retry(f) /\ UNCHANGED task
              ELSE /\ GiveUp(f)
                   /\ task' = [c \in Callers |-> IF c = f THEN "idle" ELSE task[c]]
  /\ UNCHANGED <<modeVars, alive, programVars, handVars, timer, buffer, raceVars>>

PythonNext ==
  \/ \E c \in Callers, t \in Traces : PyRecord(c, t) \/ PyRecordCall(c, t)
  \/ \E c \in Callers :
       \/ PyCopy(c) \/ PyEnqueue(c) \/ PyFind(c) \/ PyPlace(c)
       \/ PyFlush(c) \/ PyShutdown(c) \/ PyCopyPending(c) \/ PyClearPending(c)
  \/ PyTick
  \/ \E f \in Flushers : PyAnswered(f)

=============================================================================
