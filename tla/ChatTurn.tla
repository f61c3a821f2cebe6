------------------------------ MODULE ChatTurn ------------------------------
(***************************************************************************)
(* One streamed chat turn, from the agent that writes it to the client     *)
(* that reads it.  Its asyncio tasks are joined by two queues of one slot  *)
(* and one completion event:                                               *)
(*                                                                         *)
(*   producer ----events--> runtime generator, driven by the consume task  *)
(*   tool calls ----^              |                                       *)
(*                                 +--runtimeEvents--> service generator   *)
(*                                                            |            *)
(*                                            reader (SSE or JSON route)   *)
(*                                                                         *)
(* A step is the code a task runs between two awaits.  The serving         *)
(* deadline, the client's disconnect and the cancellations both cause are  *)
(* steps of their own, taken wherever the code can be suspended.  The      *)
(* agent library is the environment: it may write, fail, stall or die at   *)
(* any time.                                                               *)
(***************************************************************************)
EXTENDS Naturals, Sequences, FiniteSets

CONSTANTS
    Calls,          \* the tool calls one turn can make
    MaxTokens,      \* the most answer tokens one turn can write (bounds TLC)
    FailureKinds    \* what classify_provider_busy_error makes of a failure

ASSUME MaxTokensAssumption == MaxTokens \in Nat
ASSUME FailureKindsAssumption ==
    FailureKinds \subseteq {"rate_limited", "unavailable", "internal"}

VARIABLES
    producer,       \* the producer task: [at, item, cancelled]
    tokens,         \* answer tokens the agent has written
    tool,           \* where the observation of each tool call is
    events,         \* the runtime's queue
    emitted,        \* history: the public items put on events, in order
    runtime,        \* AgentRuntime.astream: [at, raises, completed, span]
    consumer,       \* consume_runtime_stream: [at, item, blocked, cancelled]
    runtimeEvents,  \* the service's queue
    service,        \* stream_agent_response: [at, sawToken, fallback, detached,
                    \*                         outcome, doneEmitted]
    expired,        \* the serving deadline has passed
    observed,       \* the outcome the stream observation recorded
    completion,     \* completion_event is set
    frames,         \* history: the public frames the service yielded, in order
    route,          \* the route that serves the turn
    connected,      \* the client is still there
    reader          \* the route's reading loop: [at, pulling, pending, logged,
                    \*                            reply]

agentVars == <<producer, tokens, tool, events, emitted>>
innerVars == <<runtime, consumer, runtimeEvents>>
outcomeVars == <<expired, observed, completion>>
clientVars == <<route, connected>>
vars == <<agentVars, innerVars, service, outcomeVars, frames, clientVars, reader>>

-----------------------------------------------------------------------------
(* Items on the queues and frames to the client.                            *)

Token(n) == [type |-> "token", n |-> n]          \* n = 0: FALLBACK_ANSWER
ToolEvent(c, s) == [type |-> "tool", call |-> c, status |-> s]
Failed(k) == [type |-> "failed", kind |-> k]
Completed == [type |-> "completed"]
Metadata == [type |-> "metadata"]
Exhausted == [type |-> "exhausted"]              \* the None sentinel
NoItem == [type |-> "none"]

SessionFrame == [type |-> "session"]
MetadataFrame(s) == [type |-> "metadata", source |-> s]
ErrorFrame(s) == [type |-> "error", status |-> s]
DoneFrame == [type |-> "done"]

ErrorStatuses == {429, 500, 503}
Replies == {0, 200} \cup ErrorStatuses      \* 0: no JSON reply yet

PublicItems == {Token(n) : n \in 1..MaxTokens}
                 \cup {ToolEvent(c, s) : c \in Calls, s \in {"running", "ok", "error"}}
Failures == {Failed(k) : k \in FailureKinds}
EventItems == PublicItems \cup Failures \cup {Completed}
RuntimeItems == PublicItems \cup Failures \cup {Metadata, Exhausted}
Frames == PublicItems \cup {SessionFrame, Token(0), DoneFrame}
            \cup {MetadataFrame(s) : s \in {"model", "fallback"}}
            \cup {ErrorFrame(s) : s \in ErrorStatuses}

\* 429 for a rate limit, 503 for an unavailable provider, else the generic 500.
StatusOf(kind) == CASE kind = "rate_limited" -> 429
                    [] kind = "unavailable" -> 503
                    [] OTHER -> 500

Full(queue) == Len(queue) >= 1
Last(s) == s[Len(s)]

-----------------------------------------------------------------------------
Init ==
    /\ producer = [at |-> "none", item |-> NoItem, cancelled |-> FALSE]
    /\ tokens = 0
    /\ tool = [c \in Calls |-> "idle"]
    /\ events = <<>>
    /\ emitted = <<>>
    /\ runtime = [at |-> "none", raises |-> "nothing", completed |-> FALSE,
                  span |-> FALSE]
    /\ consumer = [at |-> "none", item |-> NoItem, blocked |-> FALSE, cancelled |-> FALSE]
    /\ runtimeEvents = <<>>
    /\ service = [at |-> "created", sawToken |-> FALSE, fallback |-> FALSE,
                  detached |-> FALSE, outcome |-> "none", doneEmitted |-> FALSE]
    /\ expired = FALSE
    /\ observed = "open"
    /\ completion = FALSE
    /\ frames = <<>>
    /\ route \in {"sse", "json"}
    /\ connected = TRUE
    /\ reader = [at |-> "top", pulling |-> FALSE, pending |-> FALSE,
                 logged |-> FALSE, reply |-> 0]

-----------------------------------------------------------------------------
(* The producer task (_produce_stream), the agent it iterates and the tool  *)
(* observations inside it.  While a batch of tools runs the model is silent. *)

AgentRuns == producer.at = "iterating" /\ ~producer.cancelled
ToolsActive == \E c \in Calls : tool[c] \notin {"idle", "over"}
OutsideAgent == <<innerVars, service, outcomeVars, frames, clientVars, reader>>

\* The model writes one visible token; the producer goes on to put it.
AgentWritesToken ==
    /\ AgentRuns
    /\ ~ToolsActive
    /\ tokens < MaxTokens
    /\ tokens' = tokens + 1
    /\ producer' = [producer EXCEPT !.at = "putting", !.item = Token(tokens + 1)]
    /\ UNCHANGED <<tool, events, emitted, OutsideAgent>>

\* The model asks for a batch of tool calls; each announces itself first.
AgentCallsTools ==
    /\ AgentRuns
    /\ ~ToolsActive
    /\ \E batch \in SUBSET {c \in Calls : tool[c] = "idle"} \ {{}} :
         tool' = [c \in Calls |-> IF c \in batch THEN "announcing" ELSE tool[c]]
    /\ UNCHANGED <<producer, tokens, events, emitted, OutsideAgent>>

\* The agent's stream ends, or raises an Exception that tool calls in flight
\* may outlive: the producer puts RuntimeCompleted or RuntimeFailed.
AgentEnds ==
    /\ AgentRuns
    /\ \E item \in Failures \cup {Completed} :
         /\ item = Completed => ~ToolsActive
         /\ producer' = [producer EXCEPT !.at = "putting", !.item = item]
    /\ UNCHANGED <<tokens, tool, events, emitted, OutsideAgent>>

\* The agent ends with what `except Exception` does not catch (a CancelledError
\* of its own): the producer is over and has put nothing.
AgentDies ==
    /\ AgentRuns
    /\ producer' = [producer EXCEPT !.at = "over"]
    /\ UNCHANGED <<tokens, tool, events, emitted, OutsideAgent>>

Puts(item) ==
    /\ ~Full(events)
    /\ events' = Append(events, item)
    /\ emitted' = IF item \in PublicItems THEN Append(emitted, item) ELSE emitted

\* The put returns; after a terminal item the producer is over.
ProducerPuts ==
    /\ producer.at = "putting"
    /\ Puts(producer.item)
    /\ producer' = [producer EXCEPT
                      !.at = IF producer.item \in PublicItems THEN "iterating" ELSE "over",
                      !.item = NoItem]
    /\ UNCHANGED <<tokens, tool, OutsideAgent>>

\* The requested cancellation reaches the producer at its await: the agent and
\* its tool calls unwind with it and nothing is put.
ProducerHonoursCancel ==
    /\ producer.cancelled
    /\ \/ producer.at = "iterating"
       \/ producer.at = "putting" /\ Full(events)
    /\ producer' = [producer EXCEPT !.at = "over", !.item = NoItem]
    /\ tool' = [c \in Calls |-> IF tool[c] = "idle" THEN "idle" ELSE "over"]
    /\ UNCHANGED <<tokens, events, emitted, OutsideAgent>>

\* awrap_tool_call announces the call, runs the handler and reports: "error" for
\* an exception and for an error ToolMessage alike, "ok" otherwise.
ToolAnnounces(c) ==
    /\ tool[c] = "announcing"
    /\ Puts(ToolEvent(c, "running"))
    /\ tool' = [tool EXCEPT ![c] = "executing"]
    /\ UNCHANGED <<producer, tokens, OutsideAgent>>

\* Mutant: the announcement is fired without being awaited, and the tool may win.
ToolReturnsUnannounced(c) ==
    /\ tool[c] \in {"announcing", "executing"}
    /\ \E status \in {"ok", "error"} : tool' = [tool EXCEPT ![c] = status]
    /\ UNCHANGED <<producer, tokens, events, emitted, OutsideAgent>>

ToolReturns(c) ==
    /\ tool[c] = "executing"
    /\ \E status \in {"ok", "error"} : tool' = [tool EXCEPT ![c] = status]
    /\ UNCHANGED <<producer, tokens, events, emitted, OutsideAgent>>

ToolReports(c) ==
    /\ tool[c] \in {"ok", "error"}
    /\ Puts(ToolEvent(c, tool[c]))
    /\ tool' = [tool EXCEPT ![c] = "over"]
    /\ UNCHANGED <<producer, tokens, OutsideAgent>>

-----------------------------------------------------------------------------
(* The runtime generator and the consume task that iterates it.  Both run   *)
(* in the consume task: the generator moves only while the consumer waits   *)
(* for its next item, and a requested cancellation stops it where it waits. *)

OutsideRuntime == <<tokens, tool, emitted, service, outcomeVars, frames,
                    clientVars, reader>>
RuntimeAt(place) == consumer.at = "next" /\ runtime.at = place
RuntimeRunsAt(place) == RuntimeAt(place) /\ ~consumer.cancelled

\* The consume task's last act, put_nowait(None), is dropped on a full slot.
OfferSentinel == IF Full(runtimeEvents) THEN runtimeEvents
                                        ELSE Append(runtimeEvents, Exhausted)

\* The generator exits.  Its Exception becomes RuntimeFailed, which the consumer
\* has to put, at once or, if the slot is full, when it is free; any other exit ends
\* the consumer.
RuntimeLeaves(raises) ==
    /\ runtime' = [runtime EXCEPT !.at = "closed", !.span = FALSE]
    /\ IF raises \in FailureKinds
         THEN /\ consumer' = [consumer EXCEPT !.at = "puttingFailure",
                                !.item = Failed(raises), !.cancelled = FALSE,
                                !.blocked = Full(runtimeEvents)]
              /\ UNCHANGED runtimeEvents
         ELSE /\ consumer' = [consumer EXCEPT !.at = "over", !.cancelled = FALSE]
              /\ runtimeEvents' = OfferSentinel

\* Entering `finally`: the emitter is reset and a producer that still runs is
\* cancelled, then awaited.
RuntimeFinally(raises, completed) ==
    /\ runtime' = [runtime EXCEPT !.at = "joining", !.raises = raises,
                                  !.completed = completed]
    /\ producer' = [producer EXCEPT !.cancelled = @ \/ producer.at # "over"]

\* Prompts resolved, agent compiled, emitter bound, span opened, producer made.
RuntimeStarts ==
    /\ RuntimeRunsAt("setup")
    /\ runtime' = [runtime EXCEPT !.at = "getting", !.span = TRUE]
    /\ producer' = [producer EXCEPT !.at = "iterating"]
    /\ UNCHANGED <<events, consumer, runtimeEvents, OutsideRuntime>>

\* Setup raises an Exception, or a CancelledError of its own.
RuntimeSetupFails ==
    /\ RuntimeRunsAt("setup")
    /\ \E raises \in FailureKinds \cup {"cancelled"} : RuntimeLeaves(raises)
    /\ UNCHANGED <<producer, events, OutsideRuntime>>

\* events.get() returns: yield what it holds, for RuntimeCompleted the metadata.  The
\* consumer's put of it does not wait unless the slot is full now.
RuntimeYields ==
    /\ RuntimeRunsAt("getting")
    /\ events # <<>>
    /\ events' = Tail(events)
    /\ runtime' = [runtime EXCEPT !.at = "yielded"]
    /\ consumer' = [consumer EXCEPT !.at = "putting", !.blocked = Full(runtimeEvents),
                      !.item = IF Head(events) = Completed THEN Metadata
                                                           ELSE Head(events)]
    /\ UNCHANGED <<producer, runtimeEvents, OutsideRuntime>>

\* Building the metadata raises.  `except Exception` marks the stream completed,
\* so that the generator does not wait for a signal nobody will send.
RuntimeSummaryFails ==
    /\ RuntimeRunsAt("getting")
    /\ events # <<>>
    /\ Head(events) = Completed
    /\ events' = Tail(events)
    /\ \E kind \in FailureKinds : RuntimeFinally(kind, TRUE)
    /\ UNCHANGED <<consumer, runtimeEvents, OutsideRuntime>>

\* completion_event.wait() returns after the last yield: leave normally.
RuntimeReleased ==
    /\ RuntimeRunsAt("awaiting")
    /\ completion
    /\ RuntimeFinally("nothing", TRUE)
    /\ UNCHANGED <<events, consumer, runtimeEvents, OutsideRuntime>>

\* Mutant: the span of a stream that was cut short is not held open.
RuntimeJoinsAndLeaves ==
    /\ RuntimeRunsAt("joining")
    /\ producer.at = "over"
    /\ RuntimeLeaves(runtime.raises)
    /\ UNCHANGED <<producer, events, OutsideRuntime>>

\* The producer is over: leave, or hold the span until the service has recorded
\* its outcome when the stream was cut short.
RuntimeJoinsProducer ==
    /\ RuntimeRunsAt("joining")
    /\ producer.at = "over"
    /\ IF runtime.completed
         THEN RuntimeLeaves(runtime.raises)
         ELSE /\ runtime' = [runtime EXCEPT !.at = "holding"]
              /\ UNCHANGED <<consumer, runtimeEvents>>
    /\ UNCHANGED <<producer, events, OutsideRuntime>>

RuntimeReleasedLate ==
    /\ RuntimeRunsAt("holding")
    /\ completion
    /\ RuntimeLeaves(runtime.raises)
    /\ UNCHANGED <<producer, events, OutsideRuntime>>

\* Mutant: put_nowait, with QueueFull ignored.
ConsumerPutsDropping ==
    /\ consumer.at = "putting"
    /\ runtimeEvents' = IF Full(runtimeEvents) THEN runtimeEvents
                          ELSE Append(runtimeEvents, consumer.item)
    /\ consumer' = [consumer EXCEPT !.at = "next", !.item = NoItem, !.blocked = FALSE]
    /\ runtime' = [runtime EXCEPT !.at = IF consumer.item \in PublicItems
                                           THEN "getting" ELSE "awaiting"]
    /\ UNCHANGED <<producer, events, OutsideRuntime>>

\* A put that waits is not resumed after its task was cancelled.
PutReturns == ~Full(runtimeEvents) /\ ~(consumer.blocked /\ consumer.cancelled)

\* The consumer's put returns and it asks for the next item, so the generator
\* resumes after its yield in the same step.
ConsumerPuts ==
    /\ consumer.at = "putting"
    /\ PutReturns
    /\ runtimeEvents' = Append(runtimeEvents, consumer.item)
    /\ consumer' = [consumer EXCEPT !.at = "next", !.item = NoItem, !.blocked = FALSE]
    /\ runtime' = [runtime EXCEPT !.at = IF consumer.item \in PublicItems
                                           THEN "getting" ELSE "awaiting"]
    /\ UNCHANGED <<producer, events, OutsideRuntime>>

\* RuntimeFailed is put, and the sentinel after it finds the slot full.
ConsumerPutsFailure ==
    /\ consumer.at = "puttingFailure"
    /\ PutReturns
    /\ runtimeEvents' = Append(runtimeEvents, consumer.item)
    /\ consumer' = [consumer EXCEPT !.at = "over", !.item = NoItem, !.blocked = FALSE]
    /\ UNCHANGED <<producer, events, runtime, OutsideRuntime>>

\* The cancellation of the consume task reaches an await inside the generator.  The
\* join, cancelled, still ends with the producer but raises, and what follows it in
\* `finally`, the wait for the completion, is skipped.
RuntimeCancelled ==
    /\ consumer.cancelled
    /\ \/ /\ RuntimeAt("setup") \/ RuntimeAt("holding")
          /\ RuntimeLeaves("cancelled")
          /\ UNCHANGED producer
       \/ /\ RuntimeAt("getting") \/ RuntimeAt("awaiting") \/ RuntimeAt("joining")
          /\ RuntimeFinally("cancelled", runtime.completed \/ RuntimeAt("joining"))
          /\ consumer' = [consumer EXCEPT !.cancelled = FALSE]
          /\ UNCHANGED runtimeEvents
    /\ UNCHANGED <<events, OutsideRuntime>>

\* It reaches the consumer that waits in its own put, even when the slot was freed
\* meanwhile.  It is raised there and not in the generator, which stays suspended at
\* its yield.
ConsumerCancelled ==
    /\ consumer.cancelled /\ consumer.blocked
    /\ consumer.at \in {"putting", "puttingFailure"}
    /\ consumer' = [at |-> "over", item |-> NoItem, blocked |-> FALSE, cancelled |-> FALSE]
    /\ runtimeEvents' = OfferSentinel
    /\ runtime' = [runtime EXCEPT !.at = IF @ = "yielded" THEN "abandoned" ELSE @]
    /\ UNCHANGED <<producer, events, OutsideRuntime>>

\* The event loop's hook closes the abandoned generator once the service's
\* frame, which refers to it, is gone.  The hook runs in a context of its own:
\* resetting the emitter, the first statement of `finally`, raises ValueError,
\* so the producer is not cancelled; the exception still ends the span.
RuntimeFinalised ==
    /\ runtime.at = "abandoned"
    /\ service.at = "closed"
    /\ runtime' = [runtime EXCEPT !.at = "closed", !.span = FALSE]
    /\ UNCHANGED <<producer, events, consumer, runtimeEvents, OutsideRuntime>>

-----------------------------------------------------------------------------
(* The service generator.  It runs only while the reader's __anext__ is     *)
(* pending, and is suspended at a yield otherwise.                          *)

OutsideService == <<agentVars, clientVars>>
AtYield == {"atSession", "atEvent", "atFallback", "atMetadata", "atError",
            "atDone"}
ResumedAt(place) == reader.pulling /\ service.at = place

Yields(frame, next) ==
    /\ frames' = Append(frames, frame)
    /\ service' = next
    /\ reader' = [reader EXCEPT !.pulling = FALSE, !.pending = TRUE]

\* Mutants: the summary does not remember that the fallback was injected; the
\* fallback is not injected at all.
YieldsSummaryForgetful ==
    IF service.sawToken
      THEN Yields(MetadataFrame("model"), [service EXCEPT !.at = "atMetadata"])
      ELSE Yields(Token(0), [service EXCEPT !.at = "atFallback",
                               !.sawToken = TRUE, !.fallback = TRUE])
YieldsSummaryOnly ==
    Yields(MetadataFrame(IF service.sawToken THEN "model" ELSE "fallback"),
           [service EXCEPT !.at = "atMetadata"])

\* The summary, preceded by the injected fallback when nothing was written.
YieldsSummary ==
    IF service.sawToken
      THEN Yields(MetadataFrame(IF service.fallback THEN "fallback" ELSE "model"),
                  [service EXCEPT !.at = "atMetadata"])
      ELSE Yields(Token(0), [service EXCEPT !.at = "atFallback",
                               !.sawToken = TRUE, !.fallback = TRUE])

\* Mutant: done_emitted is set with the error, before `done` is yielded.
YieldsErrorAsDone(status, detach) ==
    Yields(ErrorFrame(status),
           [service EXCEPT !.at = "atError", !.outcome = "error",
              !.detached = detach, !.doneEmitted = TRUE])

YieldsError(status, detach) ==
    Yields(ErrorFrame(status), [service EXCEPT !.at = "atError",
                                  !.outcome = "error", !.detached = detach])

\* Mutants: the outcome is recorded although none was reached; the runtime is
\* released only by a turn that reached its end.
ServiceFinallyUnconditional ==
    /\ observed' = service.outcome
    /\ completion' = TRUE
    /\ UNCHANGED consumer
    /\ service' = [service EXCEPT !.at = IF service.detached THEN "closed"
                                                             ELSE "joining"]
ServiceFinallyUnreleased ==
    LET ended == service.outcome # "none" /\ service.doneEmitted
    IN  /\ observed' = IF ended THEN service.outcome ELSE "cancelled"
        /\ completion' = ended
        /\ consumer' = [consumer EXCEPT !.cancelled = @ \/
                           (~ended /\ ~service.detached /\ consumer.at # "over")]
        /\ service' = [service EXCEPT !.at = IF service.detached THEN "closed"
                                                                 ELSE "joining"]

\* The `finally` block: record the outcome, release the runtime and, unless it
\* is detached, cancel it (for a stream cut short) and await it.
ServiceFinally ==
    LET ended == service.outcome # "none" /\ service.doneEmitted
    IN  /\ observed' = IF ended THEN service.outcome ELSE "cancelled"
        /\ completion' = TRUE
        /\ consumer' = [consumer EXCEPT !.cancelled = @ \/
                           (~ended /\ ~service.detached /\ consumer.at # "over")]
        /\ service' = [service EXCEPT !.at = IF service.detached THEN "closed"
                                                                 ELSE "joining"]

ServiceStarts ==
    /\ ResumedAt("created")
    /\ Yields(SessionFrame, [service EXCEPT !.at = "atSession"])
    /\ UNCHANGED <<innerVars, outcomeVars, OutsideService>>

\* After the session frame the deadline is set, the consume task created and
\* the first wait_for(runtime_events.get(), remaining) begun.
ServiceOpensRuntime ==
    /\ ResumedAt("atSession")
    /\ service' = [service EXCEPT !.at = "waiting"]
    /\ consumer' = [consumer EXCEPT !.at = "next"]
    /\ runtime' = [runtime EXCEPT !.at = "setup"]
    /\ UNCHANGED <<runtimeEvents, outcomeVars, frames, reader, OutsideService>>

\* The top of the loop, when the reader asks for the event after an event.
LoopTop == ResumedAt("atEvent")
RuntimeDrained == consumer.at = "over" /\ runtimeEvents = <<>>

\* Nothing is queued and time remains: wait.
ServiceWaits ==
    /\ LoopTop
    /\ ~expired
    /\ runtimeEvents = <<>>
    /\ ~RuntimeDrained
    /\ service' = [service EXCEPT !.at = "waiting"]
    /\ UNCHANGED <<innerVars, outcomeVars, frames, reader, OutsideService>>

\* Mutant: the consume task is cancelled at the deadline and awaited later.
ServiceDeadlineAwaiting ==
    /\ expired
    /\ \/ LoopTop /\ ~RuntimeDrained
       \/ service.at = "waiting"
    /\ consumer' = [consumer EXCEPT !.cancelled = consumer.at # "over"]
    /\ YieldsError(503, FALSE)
    /\ UNCHANGED <<runtime, runtimeEvents, outcomeVars, OutsideService>>

\* The deadline, read at the top of the loop or fired inside wait_for: cancel
\* the consume task, do not await it, and report a busy provider.
ServiceDeadline ==
    /\ expired
    /\ \/ LoopTop /\ ~RuntimeDrained
       \/ service.at = "waiting"
    /\ consumer' = [consumer EXCEPT !.cancelled = consumer.at # "over"]
    /\ YieldsError(503, TRUE)
    /\ UNCHANGED <<runtime, runtimeEvents, outcomeVars, OutsideService>>

\* An item is taken at the top of the loop while time remains, or by the wait.
Takes(items) ==
    /\ \/ LoopTop /\ ~expired
       \/ service.at = "waiting"
    /\ runtimeEvents # <<>>
    /\ Head(runtimeEvents) \in items
    /\ runtimeEvents' = Tail(runtimeEvents)

ServiceForwards ==
    /\ Takes(PublicItems)
    /\ LET item == Head(runtimeEvents)
       IN  Yields(item, [service EXCEPT !.at = "atEvent",
                            !.sawToken = @ \/ item.type = "token"])
    /\ UNCHANGED <<runtime, consumer, outcomeVars, OutsideService>>

\* The runtime's metadata, its None sentinel, or its silent end.
ServiceSumsUp ==
    /\ \/ Takes({Metadata, Exhausted})
       \/ LoopTop /\ RuntimeDrained /\ UNCHANGED runtimeEvents
    /\ YieldsSummary
    /\ UNCHANGED <<runtime, consumer, outcomeVars, OutsideService>>

ServiceReportsFailure ==
    /\ Takes(Failures)
    /\ YieldsError(StatusOf(Head(runtimeEvents).kind), FALSE)
    /\ UNCHANGED <<runtime, consumer, outcomeVars, OutsideService>>

\* The fallback is out: the metadata that says so follows.
ServiceSumsUpFallback ==
    /\ ResumedAt("atFallback")
    /\ YieldsSummary
    /\ UNCHANGED <<innerVars, outcomeVars, OutsideService>>

\* done_emitted is set before the yield, so a reader that closes the stream at
\* `done` closes a finished turn.
ServiceFinishes ==
    /\ ResumedAt("atMetadata") \/ ResumedAt("atError")
    /\ Yields(DoneFrame,
              [service EXCEPT !.at = "atDone", !.doneEmitted = TRUE,
                 !.outcome = IF service.at = "atMetadata" THEN "success" ELSE @])
    /\ UNCHANGED <<innerVars, outcomeVars, OutsideService>>

ServiceCleansUp ==
    /\ ResumedAt("atDone")
    /\ ServiceFinally
    /\ reader' = [reader EXCEPT !.pulling = ~service.detached]
    /\ UNCHANGED <<runtime, runtimeEvents, expired, frames, OutsideService>>

\* Mutant: the consume task is cancelled and not awaited.
ServiceReturnsEarly ==
    /\ service.at = "joining"
    /\ service' = [service EXCEPT !.at = "closed"]
    /\ reader' = [reader EXCEPT !.pulling = FALSE]
    /\ UNCHANGED <<innerVars, outcomeVars, frames, OutsideService>>

\* The awaited consume task is over and the generator returns.
ServiceReturns ==
    /\ service.at = "joining"
    /\ consumer.at = "over"
    /\ service' = [service EXCEPT !.at = "closed"]
    /\ reader' = [reader EXCEPT !.pulling = FALSE]
    /\ UNCHANGED <<innerVars, outcomeVars, frames, OutsideService>>

\* Time passes the deadline; it matters only where the loop reads the clock.
DeadlinePasses ==
    /\ ~expired
    /\ service.at \in {"waiting", "atEvent"}
    /\ expired' = TRUE
    /\ UNCHANGED <<innerVars, service, observed, completion, frames, reader,
                   OutsideService>>

-----------------------------------------------------------------------------
(* The route.  The SSE route reads the service through _with_heartbeats: a  *)
(* task per __anext__, a disconnect poll around it, comments while it is    *)
(* pending, a blocking send per frame.  The JSON route folds the same       *)
(* frames and never looks for a disconnect.                                 *)

OutsideReader == <<agentVars, runtime, runtimeEvents, expired, frames, route>>
OnlyReader == /\ UNCHANGED <<OutsideReader, consumer, service, observed,
                             completion, connected>>
Reads == route = "json" \/ connected
DoneTaken == \E i \in 1..Len(frames) :
                /\ frames[i] = DoneFrame
                /\ ~(reader.pending /\ i = Len(frames))

ReaderPulls ==
    /\ reader.at = "top"
    /\ Reads
    /\ reader' = [reader EXCEPT !.at = "awaiting", !.pulling = TRUE]
    /\ OnlyReader

\* Mutant: the event that was pending at the disconnect is still handed over.
ReaderTakesLate ==
    /\ reader.at \in {"awaiting", "closing"}
    /\ reader.pending
    /\ reader' = [reader EXCEPT !.pending = FALSE,
                    !.at = IF route = "sse" THEN "sending" ELSE "top"]
    /\ OnlyReader

ReaderTakes ==
    /\ reader.at = "awaiting"
    /\ reader.pending
    /\ Reads
    /\ reader' = [reader EXCEPT !.pending = FALSE,
                    !.at = IF route = "sse" THEN "sending" ELSE "top"]
    /\ OnlyReader

\* The transport has room, and the send of a frame or of a comment returns.
ReaderSent ==
    /\ reader.at \in {"sending", "pinging"}
    /\ reader' = [reader EXCEPT !.at = IF @ = "sending" THEN "top" ELSE "awaiting"]
    /\ OnlyReader

\* The heartbeat is due: a comment is sent while the event is still pending.
ReaderPings ==
    /\ route = "sse"
    /\ connected
    /\ reader.at = "awaiting"
    /\ reader.pulling
    /\ reader' = [reader EXCEPT !.at = "pinging"]
    /\ OnlyReader

\* Mutant: every error frame is answered with the status of a busy provider.
FoldedStatusBusy ==
    IF \E i \in 1..Len(frames) : frames[i].type = "error" THEN 503 ELSE 200

\* collect_agent_response: 200 with the answer, or the status of the error
\* frame it kept while it read on to `done`.
FoldedStatus ==
    LET errors == {i \in 1..Len(frames) : frames[i].type = "error"}
    IN  IF errors = {} THEN 200 ELSE frames[CHOOSE i \in errors : TRUE].status

\* The service generator is exhausted: the response is complete.
ReaderStops ==
    /\ reader.at = "awaiting"
    /\ ~reader.pulling
    /\ ~reader.pending
    /\ reader' = [reader EXCEPT !.at = "closed",
                    !.reply = IF route = "json" THEN FoldedStatus ELSE 0]
    /\ OnlyReader

ClientDisconnects ==
    /\ route = "sse"
    /\ connected
    /\ reader.at # "closed"
    /\ connected' = FALSE
    /\ UNCHANGED <<OutsideReader, consumer, service, observed, completion, reader>>

\* The poll, or the response's own disconnect listener, sees the client gone:
\* log it unless `done` is out, and leave.
ReaderSeesDisconnect ==
    /\ ~connected
    /\ reader.at \in {"top", "awaiting", "sending", "pinging"}
    /\ reader' = [reader EXCEPT !.at = "closing", !.logged = ~DoneTaken]
    /\ OnlyReader

\* next_event.cancel(): CancelledError at the service's await.
ReaderCancelsService ==
    /\ reader.at = "closing"
    /\ \/ /\ ResumedAt("waiting")
          /\ ServiceFinally
       \/ /\ ResumedAt("joining")
          /\ consumer' = [consumer EXCEPT !.cancelled = consumer.at # "over"]
          /\ UNCHANGED <<service, observed, completion>>
    /\ reader' = [reader EXCEPT !.pulling = FALSE]
    /\ UNCHANGED <<OutsideReader, connected>>

\* stream.aclose(): GeneratorExit at the service's yield.  Before its `try` (not
\* started, or at the session frame) there is nothing to clean up.
ReaderClosesService ==
    /\ reader.at = "closing"
    /\ ~reader.pulling
    /\ \/ /\ service.at \in {"created", "atSession"}
          /\ service' = [service EXCEPT !.at = "closed"]
          /\ UNCHANGED <<consumer, observed, completion>>
       \/ /\ service.at \in AtYield \ {"atSession"}
          /\ ServiceFinally
    /\ UNCHANGED <<OutsideReader, connected, reader>>

ReaderLeaves ==
    /\ reader.at = "closing"
    /\ service.at = "closed"
    /\ reader' = [reader EXCEPT !.at = "closed"]
    /\ OnlyReader

-----------------------------------------------------------------------------
Agent == AgentWritesToken \/ AgentCallsTools \/ AgentEnds \/ AgentDies
Tools == \E c \in Calls : ToolAnnounces(c) \/ ToolReturns(c) \/ ToolReports(c)
Runtime == RuntimeStarts \/ RuntimeSetupFails \/ RuntimeYields
             \/ RuntimeSummaryFails \/ RuntimeReleased \/ RuntimeJoinsProducer
             \/ RuntimeReleasedLate \/ ConsumerPuts \/ ConsumerPutsFailure
             \/ RuntimeCancelled \/ ConsumerCancelled \/ RuntimeFinalised
Service == ServiceStarts \/ ServiceOpensRuntime \/ ServiceWaits
             \/ ServiceDeadline \/ ServiceForwards
             \/ ServiceSumsUp \/ ServiceReportsFailure \/ ServiceSumsUpFallback
             \/ ServiceFinishes \/ ServiceCleansUp \/ ServiceReturns
Reader == ReaderPulls \/ ReaderTakes \/ ReaderSent \/ ReaderStops
            \/ ReaderSeesDisconnect \/ ReaderCancelsService
            \/ ReaderClosesService \/ ReaderLeaves

\* The response is complete; what is left of the turn may never move again.
ResponseOver == reader.at = "closed" /\ UNCHANGED vars

Next == Agent \/ ProducerPuts \/ ProducerHonoursCancel \/ Tools \/ Runtime
          \/ Service \/ DeadlinePasses \/ Reader \/ ReaderPings
          \/ ClientDisconnects \/ ResponseOver

Spec == Init /\ [][Next]_vars

(***************************************************************************)
(* Fairness.  The event loop runs every task that can run, the deadline's  *)
(* timer fires, and a transport whose client reads accepts what is sent.   *)
(* Nothing is assumed of the agent: it may stall for ever.  CancelFairSpec *)
(* adds that it unwinds when it is cancelled; AgentFairSpec that it also   *)
(* goes on working when it is not.                                         *)
(***************************************************************************)
FairSpec == /\ Spec
            /\ WF_vars(Runtime)
            /\ WF_vars(Service)
            /\ WF_vars(Reader)
            /\ WF_vars(ProducerPuts)
            /\ WF_vars(DeadlinePasses)
CancelFairSpec == FairSpec /\ WF_vars(ProducerHonoursCancel)
AgentFairSpec == CancelFairSpec /\ WF_vars(Agent) /\ WF_vars(Tools)

-----------------------------------------------------------------------------
ProducerStates ==
    [at : {"none", "iterating", "putting", "over"}, item : EventItems \cup {NoItem},
     cancelled : BOOLEAN]
RuntimeStates ==
    [at : {"none", "setup", "getting", "yielded", "awaiting", "joining", "holding",
           "abandoned", "closed"},
     raises : {"nothing", "cancelled"} \cup FailureKinds, completed : BOOLEAN,
     span : BOOLEAN]
ConsumerStates ==
    [at : {"none", "next", "putting", "puttingFailure", "over"},
     item : RuntimeItems \cup {NoItem}, blocked : BOOLEAN, cancelled : BOOLEAN]
ServiceStates ==
    [at : {"created", "waiting", "joining", "closed"} \cup AtYield,
     sawToken : BOOLEAN, fallback : BOOLEAN, detached : BOOLEAN,
     outcome : {"none", "success", "error"}, doneEmitted : BOOLEAN]
ReaderStates ==
    [at : {"top", "awaiting", "sending", "pinging", "closing", "closed"},
     pulling : BOOLEAN, pending : BOOLEAN, logged : BOOLEAN,
     reply : Replies]

AgentTypes ==
    /\ producer \in ProducerStates
    /\ tokens \in 0..MaxTokens
    /\ tool \in [Calls -> {"idle", "announcing", "executing", "ok", "error", "over"}]
    /\ events \in Seq(EventItems)
    /\ emitted \in Seq(PublicItems)
ConsumerTypes == consumer \in ConsumerStates /\ runtimeEvents \in Seq(RuntimeItems)
OutcomeTypes ==
    /\ expired \in BOOLEAN
    /\ observed \in {"open", "success", "error", "cancelled"}
    /\ completion \in BOOLEAN
ReaderTypes ==
    /\ frames \in Seq(Frames)
    /\ route \in {"sse", "json"}
    /\ connected \in BOOLEAN
    /\ reader \in ReaderStates

\* Every variable keeps its type.
TypeOK == /\ AgentTypes
          /\ runtime \in RuntimeStates
          /\ ConsumerTypes
          /\ service \in ServiceStates
          /\ OutcomeTypes
          /\ ReaderTypes

-----------------------------------------------------------------------------
(* Safety.                                                                  *)

Holds(type) == \E i \in 1..Len(frames) : frames[i].type = type
Finished == frames # <<>> /\ Last(frames) = DoneFrame

\* The public items among the first i frames: their number is the place of the
\* last one in the order of delivery.
Delivered(i) == {j \in 1..i : frames[j] \in PublicItems}
Rank(i) == Cardinality(Delivered(i))

\* The model's tokens and the tool events reach the reader in the order the
\* agent put them, none twice and none skipped, through two queues and three
\* tasks: the n-th one yielded is the n-th one put.  And a turn that is summed
\* up has lost none of them.
AnswerInOrder ==
    /\ \A i \in Delivered(Len(frames)) :
         Rank(i) <= Len(emitted) /\ frames[i] = emitted[Rank(i)]
    /\ Holds("metadata") => Rank(Len(frames)) = Len(emitted)

\* The summary's answer_source, and with it the client's no-answer card, is
\* "model" exactly when a token of the model was yielded before it.
AnswerSourceTruthful ==
    \A i \in 1..Len(frames) :
        frames[i].type = "metadata" =>
            (frames[i].source = "model"
               <=> \E j \in 1..(i - 1) : frames[j].type = "token" /\ frames[j].n > 0)

\* The frames of a tool call are its announcement and then at most one
\* result, however the parallel calls of a batch interleave and wherever the
\* turn is cut: the client pairs them into one card by call id.
CardOf(c) == {i \in 1..Len(frames) : frames[i].type = "tool" /\ frames[i].call = c}
ToolCardsPaired ==
    \A c \in Calls : \A i \in CardOf(c) :
        LET earlier == {j \in CardOf(c) : j < i}
        IN  Cardinality(earlier) = IF frames[i].status = "running" THEN 0 ELSE 1

\* The outcome the observation records is what the reader was told: success
\* and error only for a stream that went through `done`, without and with an
\* error frame; cancelled only for one that a leaving client cut before it.
OutcomeMatchesStream ==
    /\ observed = "success" => Finished /\ ~Holds("error")
    /\ observed = "error" => Finished /\ Holds("error")
    /\ observed = "cancelled" => ~Finished /\ ~connected

\* The outcome is recorded once, and while the span it is written to is open:
\* that is what the handshake on completion_event is for.  Only a runtime that
\* never opened its span, or raised inside it, has no span to keep.
OutcomeInsideSpan ==
    [][observed' # observed =>
         /\ observed = "open"
         /\ \/ runtime.span
            \/ producer.at = "none"
            \/ runtime.completed]_vars

\* ADR-0049: once the disconnect is seen, no further frame is handed over.
Taken == IF reader.pending THEN Len(frames) - 1 ELSE Len(frames)
SilentAfterDisconnect ==
    [][reader.at \in {"closing", "closed"} => (Taken' = Taken)]_vars

\* The JSON route never answers from a stream that was cut: it replies after
\* `done`, with 200 exactly when the turn was summed up and otherwise with the
\* status of the failure.
ReplyMatchesStream ==
    reader.reply # 0 =>
        /\ Finished
        /\ reader.reply = 200 <=> Holds("metadata")
        /\ reader.reply # 200 =>
             \E i \in 1..Len(frames) : frames[i] = ErrorFrame(reader.reply)

\* Only the deadline may leave a consume task behind: any other turn has
\* awaited it when the service generator ends.
NoOrphanConsumer ==
    service.at = "closed" /\ ~service.detached => consumer.at \in {"none", "over"}

-----------------------------------------------------------------------------
(* Liveness.                                                                *)

\* Under FairSpec, so for an agent that stalls, dies silently or ignores its
\* cancellation: a client that stays gets its `done` and its response ends.
\* This is what the deadline, and detaching instead of awaiting, are for.
ConnectedTurnEnds == []connected => <>(Finished /\ reader.at = "closed")

\* Of an agent that unwinds when it is cancelled: a turn whose client leaves is
\* taken down, generator, consume task, runtime and span.
DisconnectTearsDown ==
    WF_vars(ProducerHonoursCancel) =>
        (~connected ~> /\ reader.at = "closed"
                       /\ service.at = "closed"
                       /\ consumer.at \in {"none", "over"}
                       /\ runtime.at \in {"none", "closed"}
                       /\ ~runtime.span)

\* Under AgentFairSpec, ADR-0049: the cleanup after a disconnect "propagates
\* cancellation to the runtime producer", so the producer stops.
DisconnectStopsProducer == ~connected ~> producer.at \in {"none", "over"}

-----------------------------------------------------------------------------
\* The turn implements the public contract of its stream.
Contract == INSTANCE TurnContract
              WITH ModelItems <- PublicItems, Statuses <- ErrorStatuses,
                   over <- (service.at = "closed")
ImplementsContract == Contract!Spec
=============================================================================
