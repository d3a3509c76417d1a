---------------------------- MODULE DshBackend ----------------------------
(***************************************************************************)
(* The DeepSeek Harness backend: one SDK subprocess shared by every run,   *)
(* a reader that routes its notifications to one bounded listener per      *)
(* session, and one consumer per run that turns them into the run's        *)
(* timeline.  A frame is read as soon as the subprocess writes it.         *)
(*                                                                         *)
(* The writer a streaming backend puts between its runtime events and the  *)
(* data plane comes first: a runtime event becomes an AG-UI event, token   *)
(* deltas are wrapped in messages, and every milestone is made durable     *)
(* before it is announced.                                                 *)
(***************************************************************************)
EXTENDS Integers, Sequences, TLC, Folds

CONSTANTS DshRuns,       \* run ids, each with a session of its own
          Sessions,      \* what the subprocess may send: run -> session
          NotifyBuffer,  \* notifyBuffer
          MaxOutages     \* calls during which the fact store fails

VARIABLES script,    \* run -> the session's notifications
          sdk,       \* "none" | "up" | "closing" | "exited": the client's done channel is closed
          ready,     \* the initialize handshake was answered
          reader,    \* "read", or the run whose dropped notification is not yet marked
          start,     \* run -> where its Start call and its consumer are
          next,      \* run -> notifications sent so far; -1 before the prompt
          listener,  \* run -> its buffered notifications
          dropped,   \* run -> a notification of its session was dropped
          writer,    \* run -> its PublishWriter
          status,    \* run -> its lifecycle state
          cancel,    \* run -> its cancel flag
          outages
vars == <<script, sdk, ready, reader, start, next, listener, dropped, writer, status, cancel, outages>>

-----------------------------------------------------------------------------
(* The writer of a run's timeline.                                         *)

\* The five domains of MapEvent's dispatch, each a table of its mappers.
mapAssistantEvent ==
  "llm.text.delta" :> "TEXT_MESSAGE_CONTENT" @@ "llm.reasoning.delta" :> "REASONING_MESSAGE_CONTENT"
  @@ "llm.tool_call.start" :> "TOOL_CALL_START" @@ "llm.tool_call.delta" :> "TOOL_CALL_ARGS"
  @@ "llm.tool_call.finish" :> "TOOL_CALL_END" @@ "llm.usage.finish" :> "CUSTOM"

mapExecutionEvent ==
  "tool.execution.start" :> "CUSTOM" @@ "tool.execution.stdout" :> "CUSTOM"
  @@ "tool.execution.stderr" :> "CUSTOM" @@ "tool.execution.finish" :> "TOOL_CALL_RESULT"

mapLifecycleEvent ==
  "agent.run.start" :> "RUN_STARTED" @@ "agent.run.finish" :> "RUN_FINISHED"
  @@ "agent.run.canceled" :> "RUN_CANCELED"

mapSystemEvent ==
  [k \in {"system.prep_stage.delta", "system.context_usage.delta", "system.state.delta",
          "system.interrupt"} |-> "CUSTOM"] @@ "system.error" :> "RUN_ERROR"

mapUserEvent == [k \in {"user.command", "user.feedback"} |-> "CUSTOM"]

\* An event of the runtime: its kind, the text it carries, and whether it
\* reports a failed tool or an error the run survives.
Kinds == mapAssistantEvent @@ mapExecutionEvent @@ mapLifecycleEvent @@ mapSystemEvent @@ mapUserEvent

mapToolExecFinish(ev) == IF ev.isError THEN "TOOL_CALL_ERROR" ELSE "TOOL_CALL_RESULT"

mapAgentError(ev) == IF ev.recoverable THEN "CUSTOM" ELSE "RUN_ERROR"

MapEvent(ev) ==
  [type |-> CASE ev.kind = "tool.execution.finish" -> mapToolExecFinish(ev)
              [] ev.kind = "system.error" -> mapAgentError(ev)
              [] OTHER -> Kinds[ev.kind],
   content |-> ev.text]

IsMilestone(type) ==
  type \in {"RUN_STARTED", "RUN_FINISHED", "RUN_ERROR", "RUN_CANCELED", "STEP_STARTED",
            "STEP_FINISHED", "TEXT_MESSAGE_END", "TOOL_CALL_START", "TOOL_CALL_RESULT",
            "TOOL_CALL_ERROR"}

Terminals == {"RUN_FINISHED", "RUN_ERROR", "RUN_CANCELED"}

Content == {"TEXT_MESSAGE_CONTENT", "REASONING_MESSAGE_CONTENT"}

\* A writer, its durable facts and what it announced on the bus.
NewPublishWriter ==
  [openText |-> FALSE, openReason |-> FALSE, textBuf |-> <<>>, facts |-> <<>>, bus |-> <<>>]

\* How the fact store fares during a call: Up, or an outage that stores some
\* milestones and then fails one on both attempts, whose append may all the
\* same have been committed.
Up == 99
Weathers == [stored : {Up}, committed : {FALSE}] \cup [stored : 0..1, committed : BOOLEAN]

\* The milestones of an emission, in order: only they are appended.
recordMilestone(emission) == SelectSeq(emission, LAMBDA ev : IsMilestone(ev.type))

Fails(emission, x) == x.stored < Len(recordMilestone(emission))

\* The facts of a call, one after the other until an append fails; only what
\* is stored and acknowledged is handed to the live channel, which may lose
\* it.  The channel's copy notes how long the timeline was then.
emit(w, emission, x) ==
  LET ms == recordMilestone(emission)
      n == IF Fails(emission, x) THEN x.stored ELSE Len(ms)
      kept == IF Fails(emission, x) /\ x.committed THEN n + 1 ELSE n
  IN [w EXCEPT !.facts = @ \o SubSeq(ms, 1, kept),
               !.bus = @ \o [i \in 1..n |-> [type |-> ms[i].type, at |-> Len(w.facts) + i]]]

\* The end of the open messages; the text's fact carries the whole message.
closeOpenMessages(w) ==
  (IF w.openText THEN <<[type |-> "TEXT_MESSAGE_END", content |-> w.textBuf]>> ELSE <<>>)
    \o (IF w.openReason THEN <<[type |-> "REASONING_MESSAGE_END", content |-> <<>>]>> ELSE <<>>)

\* After a close: the buffer was emptied before the append, and the message
\* stays open when the append failed.
Closed(w, emission, x) ==
  [w EXCEPT !.openText = @ /\ Fails(emission, x) /\ x.stored = 0,
            !.openReason = @ /\ Fails(emission, x) /\ w.openText /\ x.stored = 0,
            !.textBuf = <<>>]

accumulateText(w, ev) ==
  IF ev.type = "TEXT_MESSAGE_CONTENT" THEN [w EXCEPT !.openText = TRUE, !.textBuf = @ \o ev.content]
  ELSE [w EXCEPT !.openReason = TRUE]

\* WriteEvent of the events of one notification: a content delta joins its
\* open message, anything else closes the messages first.
WriteEvent(w, events, x) ==
  LET evs == [i \in DOMAIN events |-> MapEvent(events[i])]
      emission == closeOpenMessages(w) \o evs
  IN CASE evs = <<>> -> [w |-> w, failed |-> FALSE]
       [] evs # <<>> /\ evs[1].type \in Content -> [w |-> accumulateText(w, evs[1]), failed |-> FALSE]
       [] OTHER -> [w |-> emit(Closed(w, emission, x), emission, x), failed |-> Fails(emission, x)]

Flush(w, x) ==
  LET emission == closeOpenMessages(w)
  IN [w |-> emit(Closed(w, emission, x), emission, x), failed |-> Fails(emission, x)]

-----------------------------------------------------------------------------
(* The runtime's events.                                                   *)

Last(seq) == seq[Len(seq)]

Registered(r) == start[r] \notin {"idle", "refused"}
Done(r) == status[r] \in {"completed", "failed", "canceled"}

Event(kind, text, isError) == [kind |-> kind, text |-> text, isError |-> isError, recoverable |-> FALSE]

mapChunk(ev) ==
  CASE ev.sub = "text-delta" -> <<Event("llm.text.delta", <<ev.text>>, FALSE)>>
    [] ev.sub = "reasoning-delta" -> <<Event("llm.reasoning.delta", <<ev.text>>, FALSE)>>
    [] ev.sub = "tool-call-delta" -> <<Event("llm.tool_call.delta", <<>>, FALSE)>>
    [] ev.sub = "usage" -> <<Event("llm.usage.finish", <<>>, FALSE)>>
    [] OTHER -> <<>>

mapToolResult(ev) ==
  <<Event("llm.tool_call.finish", <<>>, FALSE), Event("tool.execution.start", <<>>, FALSE),
    Event("tool.execution.finish", <<ev.text>>, ev.sub = "error")>>

mapTurnEnd(ev, canceled) ==
  CASE canceled \/ ev.sub = "interrupted" -> <<Event("agent.run.canceled", <<>>, FALSE)>>
    [] ~canceled /\ ev.sub \in {"error", "blocked"} -> <<Event("system.error", <<>>, FALSE)>>
    [] OTHER -> <<Event("agent.run.finish", <<>>, FALSE)>>

mapEvent(ev, canceled) ==
  CASE ev.type = "assistant/chunk" -> mapChunk(ev)
    [] ev.type = "tool/call" -> <<Event("llm.tool_call.start", <<ev.text>>, FALSE)>>
    [] ev.type = "tool/result" -> mapToolResult(ev)
    [] ev.type = "turn/end" -> mapTurnEnd(ev, canceled)
    [] OTHER -> <<>>

terminalStatusFor(events) ==
  CASE events # <<>> /\ Last(events).kind = "agent.run.canceled" -> "canceled"
    [] events # <<>> /\ Last(events).kind = "system.error" -> "failed"
    [] OTHER -> "completed"

agentErrorEvent == Event("system.error", <<>>, FALSE)

\* A call of the writer, whatever becomes of the fact store during it.
writeEvents(w, events) == {WriteEvent(w, events, x) : x \in Weathers}

\* finishRun: the flush meets the same outage, or one of its own.
finishRun(w, terminal) ==
  {[w |-> o.w, failed |-> o.failed, status |-> IF o.failed THEN "failed" ELSE terminal] :
     o \in {Flush(w, x) : x \in Weathers}}

\* What is left of a run that ends after these writes.
EndsAfter(writes, terminal) ==
  UNION {{[w |-> f.w, failed |-> o.failed \/ f.failed, status |-> f.status] :
            f \in finishRun(o.w, IF o.failed THEN "failed" ELSE terminal)} :
           o \in writes}

Outage(failed) ==
  /\ failed => outages < MaxOutages
  /\ outages' = IF failed THEN outages + 1 ELSE outages

Ended(r, outcomes) ==
  \E o \in outcomes :
     /\ writer' = [writer EXCEPT ![r] = o.w]
     /\ status' = [status EXCEPT ![r] = o.status]
     /\ Outage(o.failed)

unsubscribe(r) ==
  /\ listener' = [listener EXCEPT ![r] = <<>>]
  /\ dropped' = [dropped EXCEPT ![r] = FALSE]

Init ==
  /\ script \in Sessions
  /\ sdk = "none" /\ ready = FALSE /\ reader = "read" /\ outages = 0
  /\ start = [r \in DshRuns |-> "idle"]
  /\ next = [r \in DshRuns |-> -1]
  /\ listener = [r \in DshRuns |-> <<>>]
  /\ dropped = [r \in DshRuns |-> FALSE]
  /\ writer = [r \in DshRuns |-> NewPublishWriter]
  /\ status = [r \in DshRuns |-> "none"]
  /\ cancel = [r \in DshRuns |-> FALSE]
----------------------------------------------------------------------------
\* ensureClient: the subprocess is spawned once and never replaced.
connect(r) ==
  /\ start[r] = "idle" /\ sdk = "none"
  /\ sdk' = "up"
  /\ UNCHANGED <<script, ready, reader, start, next, listener, dropped, writer, status, cancel, outages>>

ensureInitialized(r) ==
  /\ start[r] = "idle" /\ sdk # "none"
  /\ IF ready \/ sdk = "up"
     THEN ready' = TRUE /\ start' = [start EXCEPT ![r] = "open"]
     ELSE ready' = FALSE /\ start' = [start EXCEPT ![r] = "refused"]
  /\ UNCHANGED <<script, sdk, reader, next, listener, dropped, writer, status, cancel, outages>>

\* The session listens and the run is known before RUN_STARTED is written.
Start(r) ==
  /\ start[r] = "open"
  /\ \E o \in writeEvents(writer[r], <<Event("agent.run.start", <<>>, FALSE)>>) :
        /\ writer' = [writer EXCEPT ![r] = o.w]
        /\ status' = [status EXCEPT ![r] = IF o.failed THEN "failed" ELSE "running"]
        /\ start' = [start EXCEPT ![r] = IF o.failed THEN "failed" ELSE "prompt"]
        /\ Outage(o.failed)
  /\ UNCHANGED <<script, sdk, ready, reader, next, listener, dropped, cancel>>

\* The request reaches the subprocess, which accepts it and begins to stream.
prompt(r) ==
  /\ start[r] = "prompt" /\ sdk \in {"up", "closing"} /\ next[r] = -1
  /\ next' = [next EXCEPT ![r] = 0]
  /\ UNCHANGED <<script, sdk, ready, reader, start, listener, dropped, writer, status, cancel, outages>>

promptAnswered(r) ==
  /\ start[r] = "prompt" /\ next[r] >= 0
  /\ start' = [start EXCEPT ![r] = "consume"]
  /\ UNCHANGED <<script, sdk, ready, reader, next, listener, dropped, writer, status, cancel, outages>>

\* publishTerminal: the caller gave up or the subprocess is gone; it may have
\* accepted the prompt all the same.
publishTerminal(r) ==
  /\ start[r] = "prompt"
  /\ Ended(r, EndsAfter(writeEvents(writer[r], <<agentErrorEvent>>), "failed"))
  /\ unsubscribe(r)
  /\ start' = [start EXCEPT ![r] = "failed"]
  /\ UNCHANGED <<script, sdk, ready, reader, next, cancel>>
----------------------------------------------------------------------------
\* The reader: a listener that is gone loses the notification, a full one
\* loses it and is marked in a step of its own.
dispatchNotification(r) ==
  /\ reader = "read" /\ sdk \in {"up", "closing"}
  /\ next[r] >= 0 /\ next[r] < Len(script[r])
  /\ next' = [next EXCEPT ![r] = @ + 1]
  /\ IF start[r] = "failed" \/ Done(r)
     THEN UNCHANGED <<listener, reader>>
     ELSE IF Len(listener[r]) < NotifyBuffer
          THEN listener' = [listener EXCEPT ![r] = Append(@, script[r][next'[r]])] /\ UNCHANGED reader
          ELSE reader' = r /\ UNCHANGED listener
  /\ UNCHANGED <<script, sdk, ready, start, dropped, writer, status, cancel, outages>>

markDroppedMutant ==
  /\ reader # "read" /\ reader' = "read"
  /\ UNCHANGED <<script, sdk, ready, start, next, listener, dropped, writer, status, cancel, outages>>
markDropped ==
  /\ reader # "read"
  /\ dropped' = [dropped EXCEPT ![reader] = TRUE]
  /\ reader' = "read"
  /\ UNCHANGED <<script, sdk, ready, start, next, listener, writer, status, cancel, outages>>

\* The subprocess ends, asked to or not; the reader then closes the client.
processExits ==
  /\ sdk \in {"up", "closing"} /\ reader = "read"
  /\ sdk' = "exited"
  /\ UNCHANGED <<script, ready, reader, start, next, listener, dropped, writer, status, cancel, outages>>

Close ==
  /\ sdk = "up"
  /\ sdk' = "closing"
  /\ UNCHANGED <<script, ready, reader, start, next, listener, dropped, writer, status, cancel, outages>>
----------------------------------------------------------------------------
\* The consumer returns: its listener goes with it.
Return(r) == unsubscribe(r) /\ start' = [start EXCEPT ![r] = "returned"]

failIfNotificationDropped(r) ==
  /\ dropped[r]
  /\ Ended(r, finishRun(writer[r], "failed")) /\ Return(r)

\* Every event of the notification is written before the next; the first that
\* cannot be stored ends the run, and so does a turn's end.
handleNotification(r, ev) ==
  LET events == mapEvent(ev, cancel[r])
      writes == writeEvents(writer[r], events)
      done == ev.type = "turn/end"
  IN \/ /\ Ended(r, EndsAfter({o \in writes : done \/ o.failed}, terminalStatusFor(events)))
        /\ Return(r)
     \/ /\ ~done
        /\ \E o \in writes : ~o.failed /\ writer' = [writer EXCEPT ![r] = o.w]
        /\ listener' = [listener EXCEPT ![r] = Tail(@)]
        /\ UNCHANGED <<status, start, dropped, outages>>

failOnProcessExit(r) ==
  /\ sdk = "exited"
  /\ Ended(r, EndsAfter(writeEvents(writer[r], <<agentErrorEvent>>), "failed"))
  /\ Return(r)

\* The select of consume takes any branch that is ready.
consume(r) ==
  /\ start[r] = "consume"
  /\ \/ failOnProcessExit(r)
     \/ listener[r] # <<>> /\ failIfNotificationDropped(r)
     \/ listener[r] # <<>> /\ ~dropped[r] /\ handleNotification(r, Head(listener[r]))
  /\ UNCHANGED <<script, sdk, ready, reader, next, cancel>>

\* Only cancel is supported; the run goes on until its turn ends.
Control(r) ==
  /\ Registered(r) /\ start[r] # "open" /\ ~cancel[r]
  /\ cancel' = [cancel EXCEPT ![r] = TRUE]
  /\ UNCHANGED <<script, sdk, ready, reader, start, next, listener, dropped, writer, status, outages>>

Call(r) ==
  connect(r) \/ ensureInitialized(r) \/ Start(r) \/ prompt(r) \/ promptAnswered(r) \/ publishTerminal(r)

Next ==
  \/ \E r \in DshRuns : Call(r) \/ dispatchNotification(r) \/ consume(r) \/ Control(r)
  \/ markDropped \/ processExits \/ Close

Spec == Init /\ [][Next]_vars
----------------------------------------------------------------------------
Texts(s) == [i \in DOMAIN s |-> s[i].text]
ToolEvents(s) == SelectSeq(s, LAMBDA e : e.type \in {"tool/call", "tool/result"})
ToolFacts(f) == SelectSeq(f, LAMBDA e : e.type \in {"TOOL_CALL_START", "TOOL_CALL_RESULT", "TOOL_CALL_ERROR"})
ToolFact(e) == CASE e.type = "tool/call" -> "TOOL_CALL_START"
                 [] e.sub = "error" -> "TOOL_CALL_ERROR"
                 [] OTHER -> "TOOL_CALL_RESULT"
Said(s) == Texts(SelectSeq(s, LAMBDA e : e.type = "assistant/chunk" /\ e.sub = "text-delta"))

First(S) == CHOOSE i \in S : \A j \in S : i <= j

\* The sequences of seqs one after the other.
Joined(seqs) ==
  MapThenFoldSet(LAMBDA one, rest : one \o rest, <<>>, LAMBDA i : seqs[i], First, DOMAIN seqs)

Stored(f) ==
  LET messages == SelectSeq(f, LAMBDA e : e.type = "TEXT_MESSAGE_END")
  IN Joined([i \in DOMAIN messages |-> messages[i].content])

\* handleNotification and failIfNotificationDropped end a run with a hole "as
\* if nothing were missing" never: a run reported completed has every tool
\* call, every tool result and every word of its session in its facts, in the
\* order the session had them, whatever the listener dropped and whenever the
\* fact store was down.
CompletedIsWhole ==
  \A r \in DshRuns : status[r] = "completed" =>
     LET f == writer[r].facts
     IN /\ f[1].type = "RUN_STARTED" /\ Last(f).type = "RUN_FINISHED"
        /\ [i \in DOMAIN ToolFacts(f) |-> ToolFacts(f)[i].type]
             = [i \in DOMAIN ToolEvents(script[r]) |-> ToolFact(ToolEvents(script[r])[i])]
        /\ Stored(f) = Said(script[r])

\* emit announces a milestone only once it is a fact, and finishRun, which
\* flushes, adds nothing behind a terminal: a client of the bus sees no
\* milestone the durable timeline has not, in the same order, and no run's
\* timeline goes on after its end.
AnnouncedIsDurable ==
  \A r \in DshRuns :
     LET f == writer[r].facts
         b == writer[r].bus
     IN /\ \A i \in DOMAIN b : b[i].at \in DOMAIN f /\ f[b[i].at].type = b[i].type
        /\ \A i, j \in DOMAIN b : i < j => b[i].at < b[j].at
        /\ \A i \in 1..(Len(f) - 1) : f[i].type \notin Terminals

=============================================================================
