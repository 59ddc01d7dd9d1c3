--------------------------- MODULE NodeTransport ---------------------------
(***************************************************************************)
(* The Node SDK: BufferedTransport with its interval timer, withRetry, and *)
(* AuditTrailClient.flush without a sink.  Callers are async tasks of one  *)
(* event loop, so what a task does up to its next await is one step.       *)
(***************************************************************************)
EXTENDS SdkClient

\* A plausible slip: the flag is not reset when sendOne throws.
FlushingUntilSuccess == \E f \in Flushers : batch[f] # <<>> \/ outcome[f] = "error"

\* The `flushing` flag.
Flushing == \E f \in Flushers : batch[f] # <<>>

\* A task that still has to call flush in this turn of the event loop keeps
\* others from running.
LoopFree == \A c \in Callers : task[c] = "idle"

\* enqueue: a full buffer starts a flush nobody awaits, unless one is running.
NodeSync(t, e) ==
  LET b == Upsert(buffer, t, e)
  IN  IF sink /\ Len(b) >= MaxBufferSize /\ ~ Flushing
        THEN buffer' = <<>> /\ StartSending(Background, b)
        ELSE buffer' = b /\ UNCHANGED flushVars

NodeRecord(c, t) ==
  /\ LoopFree
  /\ \E e \in Changed(t) : Record(c, t, e) /\ NodeSync(t, e)
  /\ UNCHANGED <<modeVars, alive, task, handVars, timer, answerVars, raceVars>>

NodeRecordCall(c, t) ==
  /\ LoopFree
  /\ \E e \in CallChanges(t) : RecordCall(c, t, e) /\ NodeSync(t, e)
  /\ task' = [task EXCEPT ![c] = "answered"]
  /\ UNCHANGED <<modeVars, alive, handVars, timer, answerVars, raceVars>>

\* A plausible slip: no `flushing` flag.
FlushUnguarded(c) == buffer' = <<>> /\ StartSending(c, buffer)

\* A plausible slip: a flush that finds another one running drops what waits.
FlushNowDropping(c) ==
  /\ buffer' = <<>>
  /\ IF sink /\ Flushing
       THEN /\ outcome' = [outcome EXCEPT ![c] = "skipped"]
            /\ promised' = [promised EXCEPT ![c] = Revisions(buffer)]
            /\ UNCHANGED <<batch, body, attempt>>
       ELSE StartSending(c, buffer)

\* flush returns at once while another runs, whatever waits in the buffer.
FlushNow(c) ==
  IF sink /\ Flushing
    THEN /\ outcome' = [outcome EXCEPT ![c] = "skipped"]
         /\ promised' = [promised EXCEPT ![c] = Revisions(buffer)]
         /\ UNCHANGED <<buffer, batch, body, attempt>>
    ELSE buffer' = <<>> /\ StartSending(c, buffer)

NodeFlush(c) ==
  /\ Free(c)
  /\ LoopFree \/ task[c] = "answered"
  /\ task' = [task EXCEPT ![c] = "idle"]
  /\ FlushNow(c)
  /\ UNCHANGED <<modeVars, alive, programVars, handVars, timer, answerVars, raceVars>>

\* shutdown: clearInterval, then the same flush.
NodeShutdown(c) ==
  /\ timer
  /\ Free(c) /\ LoopFree
  /\ timer' = FALSE
  /\ FlushNow(c)
  /\ UNCHANGED <<modeVars, alive, programVars, task, handVars, answerVars, raceVars>>

\* The interval timer.
NodeTick ==
  /\ alive /\ timer /\ LoopFree
  /\ buffer # <<>> /\ ~ Flushing
  /\ buffer' = <<>>
  /\ StartSending(Background, buffer)
  /\ UNCHANGED <<modeVars, alive, programVars, task, handVars, timer, answerVars, raceVars>>

\* withRetry's shouldRetry.  A client without a sink posts without it.
NodeRetriable(answer) == sink /\ answer \in {"busy", "unreachable"}

\* What f awaits is answered.  An error in a flush nobody awaits is an unhandled
\* rejection, which by default ends the process.
NodeAnswered(f) ==
  /\ alive /\ LoopFree
  /\ batch[f] # <<>>
  /\ \E answer \in Answers(body[f]) :
       IF Accepts(answer) THEN Delivered(f) /\ UNCHANGED alive
       ELSE IF NodeRetriable(answer) /\ attempt[f] < MaxAttempts
              THEN Retry(f) /\ UNCHANGED alive
              ELSE GiveUp(f) /\ IF f = Background THEN alive' \in BOOLEAN
                                ELSE UNCHANGED alive
  /\ UNCHANGED <<modeVars, programVars, task, handVars, timer, buffer, raceVars>>

NodeNext ==
  \/ \E c \in Callers, t \in Traces : NodeRecord(c, t) \/ NodeRecordCall(c, t)
  \/ \E c \in Callers : NodeFlush(c) \/ NodeShutdown(c)
  \/ NodeTick
  \/ \E f \in Flushers : NodeAnswered(f)

=============================================================================
