--------------------------- MODULE ChatTurnProofs ---------------------------
(***************************************************************************)
(* What TLAPS proves of a chat turn, for every set of tool calls, every    *)
(* number of tokens and every kind of failure: its variables keep their    *)
(* types; its frames follow the public contract, and its summary says what *)
(* was written; the outcome it records is the one its reader was told, and *)
(* it is recorded on an open span; no consume task is left behind but by   *)
(* the deadline; a reader that leaves takes nothing more; the JSON reply   *)
(* is the one its frames make; the answer arrives in the order it was      *)
(* written, whole when it is summed up, and a tool call's frames pair.     *)
(***************************************************************************)
EXTENDS ChatTurn, TLAPS, FiniteSetTheorems

-----------------------------------------------------------------------------
(* Types.  TypeOK is not inductive alone: a put appends the item its task   *)
(* holds, so a task that is putting must hold one.                          *)

PutTypes ==
    /\ producer.at = "putting" => producer.item \in EventItems
    /\ consumer.at \in {"putting", "puttingFailure"} => consumer.item \in RuntimeItems

TypeInv == TypeOK /\ PutTypes

\* The item sets, related as the queues need them.
LEMMA Items ==
    /\ PublicItems \subseteq EventItems
    /\ PublicItems \subseteq RuntimeItems
    /\ PublicItems \subseteq Frames
    /\ Failures \subseteq EventItems
    /\ Failures \subseteq RuntimeItems
    /\ Completed \in EventItems
    /\ Metadata \in RuntimeItems
    /\ Exhausted \in RuntimeItems
    /\ \A e \in EventItems : e # Completed => e \in RuntimeItems
BY DEF EventItems, RuntimeItems, Frames

\* The items the agent and the service make.
LEMMA MadeItems ==
    /\ \A n \in 1..MaxTokens : Token(n) \in PublicItems
    /\ \A c \in Calls, s \in {"running", "ok", "error"} : ToolEvent(c, s) \in PublicItems
    /\ \A k \in FailureKinds : Failed(k) \in Failures
    /\ SessionFrame \in Frames /\ Token(0) \in Frames /\ DoneFrame \in Frames
    /\ \A s \in {"model", "fallback"} : MetadataFrame(s) \in Frames
    /\ \A s \in ErrorStatuses : ErrorFrame(s) \in Frames
BY DEF PublicItems, Failures, Frames

\* Every failure is answered with one of the statuses of an error frame.
LEMMA Statuses == \A kind : StatusOf(kind) \in ErrorStatuses
BY DEF StatusOf, ErrorStatuses

\* An error frame carries one of those statuses.
LEMMA ErrorStatus ==
    \A f \in Frames : f.type = "error" => f.status \in ErrorStatuses
BY DEF Frames, PublicItems, Token, ToolEvent, SessionFrame, MetadataFrame,
       ErrorFrame, DoneFrame

LEMMA FoldedType == frames \in Seq(Frames) => FoldedStatus \in {200} \cup ErrorStatuses
<1> SUFFICES ASSUME frames \in Seq(Frames) PROVE FoldedStatus \in {200} \cup ErrorStatuses
  OBVIOUS
<1> DEFINE errors == {i \in 1..Len(frames) : frames[i].type = "error"}
<1>1. CASE errors = {}
  BY <1>1 DEF FoldedStatus
<1>2. CASE errors # {}
  <2>1. (CHOOSE i \in errors : TRUE) \in errors
    BY <1>2
  <2>2. \A i \in errors : frames[i] \in Frames /\ frames[i].type = "error"
    OBVIOUS
  <2>3. \A i \in errors : frames[i].status \in ErrorStatuses
    BY <2>2, ErrorStatus
  <2> QED
    BY <1>2, <2>1, <2>3 DEF FoldedStatus
<1> QED
  BY <1>1, <1>2

LEMMA TypeInit == Init => TypeInv
<1> SUFFICES ASSUME Init PROVE TypeInv
  OBVIOUS
<1>1. AgentTypes
  BY MaxTokensAssumption DEF Init, AgentTypes, ProducerStates
<1>2. runtime \in RuntimeStates
  BY DEF Init, RuntimeStates
<1>3. ConsumerTypes
  BY DEF Init, ConsumerTypes, ConsumerStates
<1>4. service \in ServiceStates
  BY DEF Init, ServiceStates
<1>5. OutcomeTypes
  BY DEF Init, OutcomeTypes
<1>6. reader \in ReaderStates
  BY DEF Init, ReaderStates, Replies
<1>7. ReaderTypes
  BY <1>6 DEF Init, ReaderTypes
<1>8. PutTypes
  BY DEF Init, PutTypes
<1> QED
  BY <1>1, <1>2, <1>3, <1>4, <1>5, <1>7, <1>8 DEF TypeInv, TypeOK

\* The agent and its tools.
LEMMA AgentTypeStep ==
    TypeInv /\ (Agent \/ ProducerPuts \/ ProducerHonoursCancel \/ Tools) => TypeInv'
<1> SUFFICES ASSUME TypeInv,
                    Agent \/ ProducerPuts \/ ProducerHonoursCancel \/ Tools
             PROVE  TypeInv'
  OBVIOUS
<1> USE DEF TypeInv, TypeOK, AgentTypes, ProducerStates, PutTypes, OutsideAgent
<1>0. UNCHANGED OutsideAgent
  BY DEF Agent, Tools, AgentWritesToken, AgentCallsTools, AgentEnds, AgentDies,
         ProducerPuts, ProducerHonoursCancel, ToolAnnounces, ToolReturns, ToolReports
<1>1. /\ runtime' \in RuntimeStates
      /\ service' \in ServiceStates
      /\ (ConsumerTypes /\ OutcomeTypes /\ ReaderTypes)'
  BY <1>0 DEF innerVars, outcomeVars, clientVars, ConsumerTypes, OutcomeTypes, ReaderTypes
<1>2. AgentTypes' /\ (producer.at = "putting" => producer.item \in EventItems)'
  <2>1. CASE AgentWritesToken
    <3>1. tokens' \in 1..MaxTokens /\ tokens' = tokens + 1
      BY <2>1, MaxTokensAssumption DEF AgentWritesToken
    <3>2. Token(tokens + 1) \in EventItems
      BY <3>1, MadeItems, Items
    <3>3. tokens' \in 0..MaxTokens
      BY <3>1, MaxTokensAssumption
    <3>4. producer' \in ProducerStates
      BY <2>1, <3>2 DEF AgentWritesToken
    <3>5. producer'.item \in EventItems
      BY <2>1, <3>2 DEF AgentWritesToken
    <3> QED
      BY <2>1, <3>3, <3>4, <3>5 DEF AgentWritesToken
  <2>2. CASE AgentCallsTools
    BY <2>2 DEF AgentCallsTools
  <2>3. CASE AgentEnds
    BY <2>3, Items DEF AgentEnds
  <2>4. CASE AgentDies
    BY <2>4 DEF AgentDies
  <2>5. CASE ProducerPuts
    <3>1. producer.item \in EventItems
      BY <2>5 DEF ProducerPuts
    <3>2. events' \in Seq(EventItems) /\ emitted' \in Seq(PublicItems)
      BY <2>5, <3>1 DEF ProducerPuts, Puts
    <3>3. producer'.at # "putting" 
      BY <2>5 DEF ProducerPuts
    <3>4. producer' \in ProducerStates
      BY <2>5 DEF ProducerPuts
    <3> QED
      BY <2>5, <3>2, <3>3, <3>4 DEF ProducerPuts
  <2>6. CASE ProducerHonoursCancel
    BY <2>6 DEF ProducerHonoursCancel
  <2>7. ASSUME NEW c \in Calls, ToolAnnounces(c) \/ ToolReturns(c) \/ ToolReports(c)
        PROVE  AgentTypes' /\ (producer.at = "putting" => producer.item \in EventItems)'
    <3>1. CASE ToolAnnounces(c)
      BY <3>1, Items, MadeItems DEF ToolAnnounces, Puts
    <3>2. CASE ToolReturns(c)
      BY <3>2 DEF ToolReturns
    <3>3. CASE ToolReports(c)
      BY <3>3, Items, MadeItems DEF ToolReports, Puts
    <3> QED
      BY <2>7, <3>1, <3>2, <3>3
  <2> QED
    BY <2>1, <2>2, <2>3, <2>4, <2>5, <2>6, <2>7 DEF Agent, Tools
<1> QED
  BY <1>0, <1>1, <1>2 DEF innerVars

\* The runtime and the consume task.
LEMMA RuntimeTypeStep == TypeInv /\ Runtime => TypeInv'
<1> SUFFICES ASSUME TypeInv, Runtime PROVE TypeInv'
  OBVIOUS
<1> USE DEF TypeInv, TypeOK, OutsideRuntime
<1> DEFINE RuntimeParts == /\ runtime' \in RuntimeStates
                           /\ consumer' \in ConsumerStates
                           /\ runtimeEvents' \in Seq(RuntimeItems)
                           /\ consumer'.at \in {"putting", "puttingFailure"}
                                => consumer'.item \in RuntimeItems
           ProducerParts == /\ producer' \in ProducerStates
                            /\ producer'.at = "putting" => producer'.item \in EventItems
                            /\ events' \in Seq(EventItems)
<1> USE DEF AgentTypes, ProducerStates, RuntimeStates, ConsumerTypes, ConsumerStates, PutTypes
<1>1. UNCHANGED OutsideRuntime
  BY DEF Runtime, RuntimeStarts, RuntimeSetupFails, RuntimeYields, RuntimeSummaryFails,
         RuntimeReleased, RuntimeJoinsProducer, RuntimeReleasedLate, ConsumerPuts,
         ConsumerPutsFailure, RuntimeCancelled, ConsumerCancelled, RuntimeFinalised
<1>2. OfferSentinel \in Seq(RuntimeItems)
  BY Items DEF OfferSentinel
<1>3. ASSUME NEW raises \in {"nothing", "cancelled"} \cup FailureKinds, RuntimeLeaves(raises)
      PROVE  RuntimeParts
  <2>1. CASE raises \in FailureKinds
    <3>1. Failed(raises) \in RuntimeItems
      BY <2>1, MadeItems, Items
    <3>2. Full(runtimeEvents) \in BOOLEAN
      BY DEF Full
    <3> QED
      BY <1>3, <2>1, <3>1, <3>2 DEF RuntimeLeaves
  <2>2. CASE raises \notin FailureKinds
    BY <1>2, <1>3, <2>2 DEF RuntimeLeaves
  <2> QED
    BY <2>1, <2>2
<1>4. ASSUME NEW raises \in {"nothing", "cancelled"} \cup FailureKinds,
             NEW completed \in BOOLEAN, RuntimeFinally(raises, completed)
      PROVE  /\ runtime' \in RuntimeStates
             /\ producer' \in ProducerStates
             /\ producer'.at = producer.at /\ producer'.item = producer.item
  BY <1>4 DEF RuntimeFinally
<1>5. RuntimeParts /\ ProducerParts
  <2>1. CASE RuntimeStarts
    BY <2>1 DEF RuntimeStarts
  <2>2. CASE RuntimeSetupFails
    BY <2>2, <1>3 DEF RuntimeSetupFails
  <2>3. CASE RuntimeYields
    <3>1. Head(events) \in EventItems /\ Tail(events) \in Seq(EventItems)
      BY <2>3 DEF RuntimeYields
    <3>2. (IF Head(events) = Completed THEN Metadata ELSE Head(events)) \in RuntimeItems
      BY <3>1, Items
    <3>3. Full(runtimeEvents) \in BOOLEAN
      BY DEF Full
    <3> QED
      BY <2>3, <3>1, <3>2, <3>3 DEF RuntimeYields
  <2>4. CASE RuntimeSummaryFails
    <3>1. Tail(events) \in Seq(EventItems)
      BY <2>4 DEF RuntimeSummaryFails
    <3> QED
      BY <2>4, <3>1, <1>4 DEF RuntimeSummaryFails
  <2>5. CASE RuntimeReleased
    BY <2>5, <1>4 DEF RuntimeReleased
  <2>6. CASE RuntimeJoinsProducer
    <3>1. CASE runtime.completed
      BY <2>6, <3>1, <1>3 DEF RuntimeJoinsProducer
    <3>2. CASE ~runtime.completed
      BY <2>6, <3>2 DEF RuntimeJoinsProducer
    <3> QED
      BY <3>1, <3>2
  <2>7. CASE RuntimeReleasedLate
    BY <2>7, <1>3 DEF RuntimeReleasedLate
  <2>8. CASE ConsumerPuts
    <3>1. runtimeEvents' \in Seq(RuntimeItems)
      BY <2>8 DEF ConsumerPuts
    <3> QED
      BY <2>8, <3>1 DEF ConsumerPuts
  <2>9. CASE ConsumerPutsFailure
    <3>1. runtimeEvents' \in Seq(RuntimeItems)
      BY <2>9 DEF ConsumerPutsFailure
    <3> QED
      BY <2>9, <3>1 DEF ConsumerPutsFailure
  <2>10. CASE RuntimeCancelled
    <3>1. CASE RuntimeLeaves("cancelled") /\ UNCHANGED producer
      BY <2>10, <3>1, <1>3 DEF RuntimeCancelled
    <3> DEFINE completed == runtime.completed \/ RuntimeAt("joining")
    <3>2. CASE /\ RuntimeFinally("cancelled", completed)
               /\ consumer.at = "next"
               /\ consumer' = [consumer EXCEPT !.cancelled = FALSE]
               /\ UNCHANGED runtimeEvents
      <4>1. UNCHANGED events
        BY <2>10 DEF RuntimeCancelled
      <4>2. consumer' \in ConsumerStates
        BY <3>2
      <4>3. consumer'.at = "next"
        BY <3>2
      <4>4. ProducerParts
        BY <3>2, <4>1 DEF RuntimeFinally
      <4>5. runtime' \in RuntimeStates
        BY <3>2 DEF RuntimeFinally
      <4> QED
        BY <3>2, <4>2, <4>3, <4>4, <4>5
    <3> QED
      BY <2>10, <3>1, <3>2 DEF RuntimeCancelled, RuntimeAt
  <2>11. CASE ConsumerCancelled
    BY <2>11, <1>2 DEF ConsumerCancelled
  <2>12. CASE RuntimeFinalised
    BY <2>12 DEF RuntimeFinalised
  <2> QED
    BY <2>1, <2>2, <2>3, <2>4, <2>5, <2>6, <2>7, <2>8, <2>9, <2>10, <2>11, <2>12 DEF Runtime
<1>6. service' \in ServiceStates /\ (OutcomeTypes /\ ReaderTypes)'
  BY <1>1 DEF outcomeVars, clientVars, OutcomeTypes, ReaderTypes
<1> QED
  BY <1>1, <1>5, <1>6

\* The service generator and its deadline.  Yielding a frame, and the `finally`
\* block, keep the types whatever the frame and the moment.
LEMMA YieldsTypes ==
    ASSUME TypeInv, NEW frame \in Frames, NEW next \in ServiceStates, Yields(frame, next)
    PROVE  service' \in ServiceStates /\ frames' \in Seq(Frames) /\ reader' \in ReaderStates
<1> USE DEF Yields
<1>1. frames' \in Seq(Frames)
  BY DEF TypeInv, TypeOK, ReaderTypes
<1>2. reader' \in ReaderStates
  <2>1. reader \in ReaderStates
    BY DEF TypeInv, TypeOK, ReaderTypes
  <2>2. reader' = [reader EXCEPT !.pulling = FALSE, !.pending = TRUE]
    OBVIOUS
  <2> QED
    BY <2>1, <2>2 DEF ReaderStates
<1> QED
  BY <1>1, <1>2

LEMMA FinallyTypes ==
    ASSUME TypeInv, ServiceFinally
    PROVE  /\ service' \in ServiceStates
           /\ observed' \in {"open", "success", "error", "cancelled"}
           /\ completion' \in BOOLEAN
           /\ consumer' \in ConsumerStates
           /\ consumer'.at = consumer.at /\ consumer'.item = consumer.item
<1> USE DEF TypeInv, TypeOK, ServiceFinally
<1>1. service' \in ServiceStates
  BY DEF ServiceStates
<1>2. observed' \in {"open", "success", "error", "cancelled"} /\ completion' \in BOOLEAN
  BY DEF ServiceStates
<1>3. consumer' \in ConsumerStates /\ consumer'.at = consumer.at /\ consumer'.item = consumer.item
  <2> DEFINE cancelled == consumer.cancelled \/
                 (~(service.outcome # "none" /\ service.doneEmitted)
                    /\ ~service.detached /\ consumer.at # "over")
  <2>1. consumer' = [consumer EXCEPT !.cancelled = cancelled]
    OBVIOUS
  <2>2. cancelled \in BOOLEAN
    OBVIOUS
  <2> HIDE DEF cancelled
  <2> QED
    BY <2>1, <2>2 DEF ConsumerTypes, ConsumerStates
<1> QED
  BY <1>1, <1>2, <1>3

\* A requested cancellation keeps the type of the consume task.
LEMMA CancelTypes ==
    ASSUME TypeInv, consumer' = [consumer EXCEPT !.cancelled = consumer.at # "over"]
    PROVE  /\ consumer' \in ConsumerStates
           /\ consumer'.at = consumer.at /\ consumer'.item = consumer.item
BY DEF TypeInv, TypeOK, ConsumerTypes, ConsumerStates

LEMMA ServiceTypeStep == TypeInv /\ (Service \/ DeadlinePasses) => TypeInv'
<1> SUFFICES ASSUME TypeInv, Service \/ DeadlinePasses PROVE TypeInv'
  OBVIOUS
<1> DEFINE Took == \/ UNCHANGED runtimeEvents
                   \/ runtimeEvents' = Tail(runtimeEvents) /\ runtimeEvents # <<>>
           Cancelled == UNCHANGED consumer \/ consumer' = [consumer EXCEPT !.cancelled = consumer.at # "over"]
           Inner == /\ consumer' \in ConsumerStates
                    /\ consumer'.at \in {"putting", "puttingFailure"}
                         => consumer'.item \in RuntimeItems
                    /\ runtimeEvents' \in Seq(RuntimeItems)
                    /\ runtime' \in RuntimeStates
           Outer == /\ service' \in ServiceStates
                    /\ OutcomeTypes'
                    /\ frames' \in Seq(Frames)
                    /\ reader' \in ReaderStates
<1> USE DEF TypeInv, TypeOK
<1>1. UNCHANGED OutsideService
  BY DEF Service, DeadlinePasses, ServiceStarts, ServiceOpensRuntime, ServiceWaits,
         ServiceDeadline, ServiceForwards, ServiceSumsUp, ServiceReportsFailure,
         ServiceSumsUpFallback, ServiceFinishes, ServiceCleansUp, ServiceReturns
<1>2. ASSUME UNCHANGED runtime, Cancelled, Took
      PROVE  Inner
  BY <1>2, CancelTypes DEF ConsumerTypes, PutTypes
<1>3. ASSUME NEW frame \in Frames, NEW next \in ServiceStates, Yields(frame, next),
             UNCHANGED outcomeVars
      PROVE  Outer
  BY <1>3, YieldsTypes DEF outcomeVars, OutcomeTypes
<1>4. ASSUME YieldsSummary, UNCHANGED outcomeVars
      PROVE  Outer
  <2>1. CASE service.sawToken
    <3> DEFINE frame == MetadataFrame(IF service.fallback THEN "fallback" ELSE "model")
               next == [service EXCEPT !.at = "atMetadata"]
    <3>1. frame \in Frames
      BY MadeItems
    <3>2. next \in ServiceStates
      BY DEF ServiceStates, AtYield
    <3>3. Yields(frame, next)
      BY <1>4, <2>1 DEF YieldsSummary
    <3> HIDE DEF frame, next
    <3> QED
      BY <1>3, <1>4, <3>1, <3>2, <3>3
  <2>2. CASE ~service.sawToken
    <3> DEFINE next == [service EXCEPT !.at = "atFallback", !.sawToken = TRUE,
                                       !.fallback = TRUE]
    <3>1. Token(0) \in Frames
      BY MadeItems
    <3>2. next \in ServiceStates
      BY DEF ServiceStates, AtYield
    <3>3. Yields(Token(0), next)
      BY <1>4, <2>2 DEF YieldsSummary
    <3> HIDE DEF next
    <3> QED
      BY <1>3, <1>4, <3>1, <3>2, <3>3
  <2> QED
    BY <2>1, <2>2
<1>5. ASSUME NEW status \in ErrorStatuses,
             YieldsError(status, TRUE) \/ YieldsError(status, FALSE),
             UNCHANGED outcomeVars
      PROVE  Outer
  <2>1. PICK detach \in BOOLEAN : YieldsError(status, detach)
    BY <1>5
  <2> DEFINE next == [service EXCEPT !.at = "atError", !.outcome = "error",
                                     !.detached = detach]
  <2>2. ErrorFrame(status) \in Frames
    BY MadeItems
  <2>3. next \in ServiceStates
    BY <2>1 DEF ServiceStates, AtYield
  <2>4. Yields(ErrorFrame(status), next)
    BY <2>1 DEF YieldsError
  <2> HIDE DEF next
  <2> QED
    BY <1>3, <1>5, <2>2, <2>3, <2>4
<1> HIDE DEF Inner, Outer, Took, Cancelled
<1>6. Inner /\ Outer
  <2>1. CASE ServiceStarts
    <3> DEFINE next == [service EXCEPT !.at = "atSession"]
    <3>1. next \in ServiceStates
      BY DEF ServiceStates, AtYield
    <3>2. Yields(SessionFrame, next) /\ UNCHANGED <<runtime, consumer, runtimeEvents, outcomeVars>>
      BY <2>1 DEF ServiceStarts, innerVars
    <3> HIDE DEF next
    <3> QED
      BY <3>1, <3>2, MadeItems, <1>2, <1>3 DEF Took, Cancelled
  <2>2. CASE ServiceOpensRuntime
    <3>1. service' \in ServiceStates
      BY <2>2 DEF ServiceOpensRuntime, ServiceStates
    <3>2. runtime' \in RuntimeStates
      BY <2>2 DEF ServiceOpensRuntime, RuntimeStates
    <3>3. consumer' \in ConsumerStates /\ consumer'.at = "next"
      BY <2>2 DEF ServiceOpensRuntime, ConsumerTypes, ConsumerStates
    <3>4. Inner
      BY <2>2, <3>2, <3>3 DEF Inner, ServiceOpensRuntime, ConsumerTypes
    <3> QED
      BY <2>2, <3>1, <3>4 DEF Outer, ServiceOpensRuntime, OutcomeTypes, outcomeVars, ReaderTypes
  <2>3. CASE ServiceWaits
    <3>1. service' \in ServiceStates
      BY <2>3 DEF ServiceWaits, ServiceStates
    <3>2. Inner
      BY <2>3, <1>2 DEF Took, Cancelled, ServiceWaits, innerVars
    <3> QED
      BY <2>3, <3>1, <3>2 DEF Outer, ServiceWaits, outcomeVars, OutcomeTypes, ReaderTypes
  <2>4. CASE ServiceDeadline
    <3>1. YieldsError(503, TRUE) /\ UNCHANGED outcomeVars
      BY <2>4 DEF ServiceDeadline
    <3>2. UNCHANGED runtime /\ Cancelled /\ Took
      BY <2>4 DEF Took, Cancelled, ServiceDeadline
    <3>3. 503 \in ErrorStatuses
      BY DEF ErrorStatuses
    <3> QED
      BY <3>1, <3>2, <3>3, <1>2, <1>5
  <2>5. CASE ServiceForwards
    <3> DEFINE item == Head(runtimeEvents)
               next == [service EXCEPT !.at = "atEvent",
                                       !.sawToken = @ \/ item.type = "token"]
    <3>1. item \in Frames
      BY <2>5, Items DEF ServiceForwards, Takes
    <3>2. next \in ServiceStates
      BY DEF ServiceStates, AtYield
    <3>3. Yields(item, next) /\ UNCHANGED outcomeVars
      BY <2>5 DEF ServiceForwards, Takes
    <3>4. UNCHANGED runtime /\ Cancelled /\ Took
      BY <2>5 DEF Took, Cancelled, ServiceForwards, Takes
    <3> HIDE DEF item, next
    <3> QED
      BY <3>1, <3>2, <3>3, <3>4, <1>2, <1>3
  <2>6. CASE ServiceSumsUp
    <3>1. YieldsSummary /\ UNCHANGED outcomeVars
      BY <2>6 DEF ServiceSumsUp
    <3>2. UNCHANGED runtime /\ Cancelled /\ Took
      BY <2>6 DEF Took, Cancelled, ServiceSumsUp, Takes
    <3> QED
      BY <3>1, <3>2, <1>2, <1>4
  <2>7. CASE ServiceReportsFailure
    <3>1. StatusOf(Head(runtimeEvents).kind) \in ErrorStatuses
      BY Statuses
    <3> QED
      <4>1. YieldsError(StatusOf(Head(runtimeEvents).kind), FALSE) /\ UNCHANGED outcomeVars
        BY <2>7 DEF ServiceReportsFailure
      <4>2. UNCHANGED runtime /\ Cancelled /\ Took
        BY <2>7 DEF Took, Cancelled, ServiceReportsFailure, Takes
      <4> QED
        BY <3>1, <4>1, <4>2, <1>2, <1>5
  <2>8. CASE ServiceSumsUpFallback
    <3>1. YieldsSummary /\ UNCHANGED outcomeVars
      BY <2>8 DEF ServiceSumsUpFallback
    <3>2. UNCHANGED runtime /\ Cancelled /\ Took
      BY <2>8 DEF Took, Cancelled, ServiceSumsUpFallback, innerVars
    <3> QED
      BY <3>1, <3>2, <1>2, <1>4
  <2>9. CASE ServiceFinishes
    <3> DEFINE next == [service EXCEPT !.at = "atDone", !.doneEmitted = TRUE,
                          !.outcome = IF service.at = "atMetadata" THEN "success" ELSE @]
    <3>1. next \in ServiceStates
      BY DEF ServiceStates, AtYield
    <3>2. Yields(DoneFrame, next) /\ UNCHANGED <<runtime, consumer, runtimeEvents, outcomeVars>>
      BY <2>9 DEF ServiceFinishes, innerVars
    <3> HIDE DEF next
    <3> QED
      BY <3>1, <3>2, MadeItems, <1>2, <1>3 DEF Took, Cancelled
  <2>10. CASE ServiceCleansUp
    <3>1. ServiceFinally /\ UNCHANGED <<runtime, runtimeEvents, expired, frames>>
      BY <2>10 DEF ServiceCleansUp
    <3>2. Inner
      BY <3>1, FinallyTypes DEF Inner, ConsumerTypes, PutTypes
    <3>3. reader' \in ReaderStates
      BY <2>10 DEF ServiceCleansUp, ReaderTypes, ReaderStates, ServiceStates
    <3> QED
      BY <3>1, <3>2, <3>3, FinallyTypes DEF Outer, OutcomeTypes, ReaderTypes
  <2>11. CASE ServiceReturns
    <3>1. service' \in ServiceStates
      BY <2>11 DEF ServiceReturns, ServiceStates
    <3>2. reader' \in ReaderStates
      BY <2>11 DEF ServiceReturns, ReaderTypes, ReaderStates
    <3>3. Inner
      BY <2>11, <1>2 DEF Took, Cancelled, ServiceReturns, innerVars
    <3> QED
      BY <2>11, <3>1, <3>2, <3>3 DEF Outer, ServiceReturns, outcomeVars, OutcomeTypes, ReaderTypes
  <2>12. CASE DeadlinePasses
    <3>1. Inner
      BY <2>12, <1>2 DEF Took, Cancelled, DeadlinePasses, innerVars
    <3> QED
      BY <2>12, <3>1 DEF Outer, DeadlinePasses, OutcomeTypes, ReaderTypes
  <2> QED
    BY <2>1, <2>2, <2>3, <2>4, <2>5, <2>6, <2>7, <2>8, <2>9, <2>10, <2>11, <2>12
       DEF Service
<1>7. AgentTypes' /\ (producer.at = "putting" => producer.item \in EventItems)'
  BY <1>1 DEF OutsideService, agentVars, AgentTypes, PutTypes
<1>8. (route \in {"sse", "json"} /\ connected \in BOOLEAN)'
  BY <1>1 DEF OutsideService, clientVars, ReaderTypes
<1> QED
  BY <1>6, <1>7, <1>8 DEF Inner, Outer, ConsumerTypes, PutTypes, ReaderTypes

\* The route's reading loop and the client.
LEMMA ReaderTypeStep ==
    TypeInv /\ (Reader \/ ReaderPings \/ ClientDisconnects) => TypeInv'
<1> SUFFICES ASSUME TypeInv, Reader \/ ReaderPings \/ ClientDisconnects PROVE TypeInv'
  OBVIOUS
<1> USE DEF TypeInv, TypeOK
<1> DEFINE Moved == /\ reader' \in ReaderStates
                    /\ connected' \in BOOLEAN
                    /\ service' \in ServiceStates
                    /\ observed' \in {"open", "success", "error", "cancelled"}
                    /\ completion' \in BOOLEAN
                    /\ consumer' \in ConsumerStates
                    /\ consumer'.at = consumer.at /\ consumer'.item = consumer.item
<1>1. UNCHANGED OutsideReader
  BY DEF Reader, ReaderPulls, ReaderTakes, ReaderSent, ReaderPings, ReaderStops,
         ReaderSeesDisconnect, ReaderCancelsService, ReaderClosesService, ReaderLeaves,
         ClientDisconnects, OnlyReader
<1>2. reader \in ReaderStates
  BY DEF ReaderTypes
<1>3. ASSUME OnlyReader, reader' \in ReaderStates
      PROVE  Moved
  BY <1>3 DEF OnlyReader, ConsumerTypes, OutcomeTypes, ReaderTypes
<1> HIDE DEF Moved
<1>4. Moved
  <2>1. CASE ReaderPulls
    BY <1>2, <1>3, <2>1 DEF ReaderPulls, ReaderStates
  <2>2. CASE ReaderTakes
    BY <1>2, <1>3, <2>2 DEF ReaderTakes, ReaderStates
  <2>3. CASE ReaderSent
    BY <1>2, <1>3, <2>3 DEF ReaderSent, ReaderStates
  <2>4. CASE ReaderStops
    <3>1. (IF route = "json" THEN FoldedStatus ELSE 0) \in Replies
      BY FoldedType DEF ReaderTypes, Replies
    <3> QED
      BY <1>2, <1>3, <2>4, <3>1 DEF ReaderStops, ReaderStates
  <2>5. CASE ReaderSeesDisconnect
    <3>1. DoneTaken \in BOOLEAN
      BY DEF DoneTaken
    <3> QED
      BY <1>2, <1>3, <2>5, <3>1 DEF ReaderSeesDisconnect, ReaderStates
  <2>6. CASE ReaderCancelsService
    <3>1. reader' \in ReaderStates
      BY <1>2, <2>6 DEF ReaderCancelsService, ReaderStates
    <3>2. CASE ServiceFinally
      BY <2>6, <3>1, <3>2, <1>1, FinallyTypes
         DEF Moved, ReaderCancelsService, ReaderTypes
    <3>3. CASE /\ consumer' = [consumer EXCEPT !.cancelled = consumer.at # "over"]
               /\ UNCHANGED <<service, observed, completion>>
      BY <2>6, <3>1, <3>3, CancelTypes
         DEF Moved, ReaderCancelsService, ReaderTypes, OutcomeTypes
    <3> QED
      BY <2>6, <3>2, <3>3 DEF ReaderCancelsService
  <2>7. CASE ReaderClosesService
    <3>1. CASE ServiceFinally
      BY <1>2, <2>7, <3>1, FinallyTypes DEF Moved, ReaderClosesService, ReaderTypes
    <3>2. CASE /\ service' = [service EXCEPT !.at = "closed"]
               /\ UNCHANGED <<consumer, observed, completion>>
      <4>1. service' \in ServiceStates
        BY <3>2 DEF ServiceStates
      <4> QED
        BY <1>2, <2>7, <3>2, <4>1
           DEF Moved, ReaderClosesService, ReaderTypes, ConsumerTypes, OutcomeTypes
    <3> QED
      BY <2>7, <3>1, <3>2 DEF ReaderClosesService
  <2>8. CASE ReaderLeaves
    BY <1>2, <1>3, <2>8 DEF ReaderLeaves, ReaderStates
  <2>9. CASE ReaderPings
    BY <1>2, <1>3, <2>9 DEF ReaderPings, ReaderStates
  <2>10. CASE ClientDisconnects
    BY <1>2, <2>10 DEF Moved, ClientDisconnects, ConsumerTypes, OutcomeTypes, ReaderTypes
  <2> QED
    BY <2>1, <2>2, <2>3, <2>4, <2>5, <2>6, <2>7, <2>8, <2>9, <2>10 DEF Reader
<1>5. AgentTypes' /\ runtime' \in RuntimeStates /\ expired' \in BOOLEAN
        /\ frames' \in Seq(Frames) /\ route' \in {"sse", "json"}
        /\ runtimeEvents' \in Seq(RuntimeItems)
  BY <1>1 DEF OutsideReader, agentVars, AgentTypes, OutcomeTypes, ReaderTypes, ConsumerTypes
<1>6. PutTypes'
  BY <1>1, <1>4 DEF Moved, OutsideReader, agentVars, PutTypes
<1> QED
  BY <1>4, <1>5, <1>6 DEF Moved, ConsumerTypes, OutcomeTypes, ReaderTypes

LEMMA TypeStutter == TypeInv /\ UNCHANGED vars => TypeInv'
BY DEF TypeInv, TypeOK, PutTypes, AgentTypes, ConsumerTypes, OutcomeTypes, ReaderTypes,
       vars, agentVars, innerVars, outcomeVars, clientVars

LEMMA TypeStep == TypeInv /\ [Next]_vars => TypeInv'
BY AgentTypeStep, RuntimeTypeStep, ServiceTypeStep, ReaderTypeStep, TypeStutter
   DEF Next, ResponseOver

LEMMA TypeInvariant == Spec => []TypeInv
BY TypeInit, TypeStep, PTL DEF Spec

\* Every variable of the turn keeps its type.
THEOREM TypeCorrect == Spec => []TypeOK
<1>1. TypeInv => TypeOK
  BY DEF TypeInv
<1> QED
  BY <1>1, TypeInvariant, PTL

-----------------------------------------------------------------------------
(* The stream.  What the frames yielded so far look like at each place the  *)
(* service generator can be suspended, and what its flags say of them: this *)
(* is what makes every yield a step of the public contract.                 *)

StreamInv ==
    /\ service.at = "created" => frames = <<>>
    /\ service.at = "atSession" => frames = <<SessionFrame>>
    /\ service.at \in {"waiting", "atEvent"} =>
         /\ frames = <<SessionFrame>> \/ (frames # <<>> /\ Last(frames) \in PublicItems)
         /\ ~service.fallback
    /\ service.at = "atFallback" =>
         frames # <<>> /\ Last(frames) = Token(0) /\ service.sawToken /\ service.fallback
    /\ service.at = "atMetadata" => frames # <<>> /\ Last(frames).type = "metadata"
    /\ service.at = "atError" => frames # <<>> /\ Last(frames).type = "error"
    /\ service.at = "atDone" => Finished
    /\ service.at \in {"created", "atSession"} => ~service.sawToken /\ ~service.fallback
    /\ service.at \in {"created", "atSession", "waiting", "atEvent", "atFallback"} =>
         (service.sawToken <=> Holds("token"))

\* What the agent causes is a token of the model or a tool event, and never the
\* fallback.
LEMMA PublicKinds == \A f \in PublicItems : f.type \in {"token", "tool"} /\ f # Token(0)
BY DEF PublicItems, Token, ToolEvent

\* A yield adds its frame at the end of the history and nothing else.
LEMMA Appended ==
    ASSUME frames \in Seq(Frames), NEW f, frames' = Append(frames, f)
    PROVE  /\ frames' # <<>>
           /\ Last(frames') = f
           /\ \A type : Holds(type)' <=> Holds(type) \/ f.type = type
<1>1. /\ Len(frames) \in Nat /\ Len(frames') = Len(frames) + 1
      /\ \A i \in 1..Len(frames) : frames'[i] = frames[i]
      /\ frames'[Len(frames) + 1] = f
  OBVIOUS
<1>2. frames' # <<>>
  BY <1>1
<1>3. Last(frames') = f
  BY <1>1 DEF Last
<1>4. ASSUME NEW type PROVE Holds(type)' <=> Holds(type) \/ f.type = type
  <2>1. ASSUME Holds(type)' PROVE Holds(type) \/ f.type = type
    <3>1. PICK i \in 1..Len(frames') : frames'[i].type = type
      BY <2>1 DEF Holds
    <3>2. i \in 1..Len(frames) \/ i = Len(frames) + 1
      BY <1>1, <3>1
    <3> QED
      BY <1>1, <3>1, <3>2 DEF Holds
  <2>2. ASSUME Holds(type) \/ f.type = type PROVE Holds(type)'
    <3>1. CASE Holds(type)
      <4>1. PICK i \in 1..Len(frames) : frames[i].type = type
        BY <3>1 DEF Holds
      <4>2. i \in 1..Len(frames') /\ frames'[i].type = type
        BY <1>1, <4>1
      <4> QED
        BY <4>2 DEF Holds
    <3>2. CASE f.type = type
      <4>1. Len(frames) + 1 \in 1..Len(frames') /\ frames'[Len(frames) + 1].type = type
        BY <1>1, <3>2
      <4> QED
        BY <4>1 DEF Holds
    <3> QED
      BY <2>2, <3>1, <3>2
  <2> QED
    BY <2>1, <2>2
<1> QED
  BY <1>2, <1>3, <1>4

LEMMA StreamInit == Init => StreamInv
BY DEF Init, StreamInv, Holds

\* Every step that yields no frame leaves the history and either leaves the
\* service where its frames are as they were, or takes it out of its loop.
LEMMA StreamQuiet ==
    ASSUME TypeInv, StreamInv, UNCHANGED frames,
           \/ UNCHANGED service
           \/ service'.at \in {"joining", "closed"}
           \/ /\ service.at \in {"atSession", "atEvent"}
              /\ service' = [service EXCEPT !.at = "waiting"]
    PROVE  StreamInv'
<1>1. CASE UNCHANGED service
  BY <1>1 DEF StreamInv, Finished, Holds
<1>2. CASE service'.at \in {"joining", "closed"}
  BY <1>2 DEF StreamInv
<1>3. CASE /\ service.at \in {"atSession", "atEvent"}
           /\ service' = [service EXCEPT !.at = "waiting"]
  <2>1. /\ service'.at = "waiting" /\ service'.fallback = service.fallback
        /\ service'.sawToken = service.sawToken
    BY <1>3 DEF TypeInv, TypeOK, ServiceStates
  <2>2. Holds("token")' <=> Holds("token")
    BY DEF Holds
  <2>3. service.sawToken <=> Holds("token")
    BY <1>3 DEF StreamInv
  <2>4. (service.sawToken <=> Holds("token"))'
    BY <2>1, <2>2, <2>3
  <2>5. /\ frames' = <<SessionFrame>> \/ (frames' # <<>> /\ Last(frames') \in PublicItems)
        /\ ~service'.fallback
    BY <1>3, <2>1 DEF StreamInv
  <2> QED
    BY <2>1, <2>4, <2>5 DEF StreamInv
<1> QED
  BY <1>1, <1>2, <1>3

\* A step of the contract that yields a frame.
LEMMA ContractYields ==
    ASSUME NEW f, service.at # "closed", service'.at # "closed",
           frames' = Append(frames, f)
    PROVE  Contract!Yields(f)
BY DEF Contract!Yields

\* What the contract says of the frames so far, in the service's terms.
LEMMA ContractTerms ==
    /\ Contract!HasToken <=> Holds("token")
    /\ Contract!FallbackUsed <=> frames # <<>> /\ Last(frames) = Token(0)
    /\ \A types : Contract!LastIs(types) <=> (frames # <<>> /\ Last(frames).type \in types)
BY DEF Contract!HasToken, Contract!FallbackUsed, Contract!Fallback, Contract!LastIs,
       Holds, Last, Token

\* The summary: one of the two frames of YieldsSummary.
LEMMA SummaryStep ==
    ASSUME TypeInv, StreamInv, service.at \in {"waiting", "atEvent", "atFallback"},
           YieldsSummary
    PROVE  StreamInv' /\ Contract!Next
<1> USE DEF Yields
<1>1. frames \in Seq(Frames) /\ service \in ServiceStates
  BY DEF TypeInv, TypeOK, ReaderTypes
<1>2. CASE service.sawToken
  <2> DEFINE source == IF service.fallback THEN "fallback" ELSE "model"
  <2>1. frames' = Append(frames, MetadataFrame(source))
          /\ service' = [service EXCEPT !.at = "atMetadata"]
    BY <1>2 DEF YieldsSummary
  <2>2. service'.at = "atMetadata"
    BY <1>1, <2>1 DEF ServiceStates
  <2>3. frames' # <<>> /\ Last(frames') = MetadataFrame(source)
    BY <1>1, <2>1, Appended
  <2>4. StreamInv'
    BY <2>2, <2>3 DEF StreamInv, MetadataFrame
  <2>5. Holds("token")
    BY <1>2 DEF StreamInv
  <2>6. /\ frames # <<>>
        /\ Last(frames).type \in {"token", "tool"}
        /\ service.fallback <=> Last(frames) = Token(0)
    <3>1. CASE service.at = "atFallback"
      BY <3>1 DEF StreamInv, Token
    <3>2. CASE service.at \in {"waiting", "atEvent"}
      <4>1. frames # <<SessionFrame>>
        BY <2>5 DEF Holds, SessionFrame
      <4> QED
        BY <3>2, <4>1, PublicKinds DEF StreamInv
    <3> QED
      BY <3>1, <3>2
  <2>7. Contract!SumsUp
    <3>1. Contract!Yields(MetadataFrame(source))
      BY <2>1, <2>2, ContractYields
    <3>2. MetadataFrame(source)
            = Contract!Summary(IF Contract!FallbackUsed THEN "fallback" ELSE "model")
      BY <2>6, ContractTerms DEF MetadataFrame, Contract!Summary
    <3> QED
      BY <2>5, <2>6, <3>1, <3>2, ContractTerms DEF Contract!SumsUp
  <2> QED
    BY <2>4, <2>7 DEF Contract!Next
<1>3. CASE ~service.sawToken
  <2>1. /\ frames' = Append(frames, Token(0))
        /\ service' = [service EXCEPT !.at = "atFallback", !.sawToken = TRUE,
                                      !.fallback = TRUE]
    BY <1>3 DEF YieldsSummary
  <2>2. service'.at = "atFallback" /\ service'.sawToken /\ service'.fallback
    BY <1>1, <2>1 DEF ServiceStates
  <2>3. frames' # <<>> /\ Last(frames') = Token(0) /\ Holds("token")'
    BY <1>1, <2>1, Appended DEF Token
  <2>4. StreamInv'
    BY <2>2, <2>3 DEF StreamInv
  <2>5. ~Holds("token") /\ service.at \in {"waiting", "atEvent"}
    BY <1>3 DEF StreamInv
  <2>6. frames # <<>> /\ Last(frames).type \in {"session", "tool"}
    <3>1. CASE frames = <<SessionFrame>>
      BY <3>1 DEF Last, SessionFrame
    <3>2. CASE frames # <<SessionFrame>>
      <4>1. frames # <<>> /\ Last(frames) \in PublicItems
        BY <2>5, <3>2 DEF StreamInv
      <4>2. Last(frames).type # "token"
        BY <1>1, <2>5, <4>1 DEF Holds, Last
      <4> QED
        BY <4>1, <4>2, PublicKinds
    <3> QED
      BY <3>1, <3>2
  <2>7. Contract!FillsEmptyAnswer
    <3>1. Contract!Yields(Token(0))
      BY <2>1, <2>2, <2>5, ContractYields
    <3>2. Token(0) = Contract!Fallback
      BY DEF Token, Contract!Fallback
    <3> QED
      BY <2>5, <2>6, <3>1, <3>2, ContractTerms DEF Contract!FillsEmptyAnswer
  <2> QED
    BY <2>4, <2>7 DEF Contract!Next
<1> QED
  BY <1>2, <1>3

\* An error frame, of the deadline or of a failure.
LEMMA ErrorStep ==
    ASSUME TypeInv, StreamInv, service.at \in {"waiting", "atEvent"},
           NEW status \in ErrorStatuses, NEW detach, YieldsError(status, detach)
    PROVE  StreamInv' /\ Contract!Next
<1> USE DEF Yields, YieldsError
<1>1. frames \in Seq(Frames) /\ service \in ServiceStates
  BY DEF TypeInv, TypeOK, ReaderTypes
<1>2. frames' = Append(frames, ErrorFrame(status)) /\ service'.at = "atError"
  BY <1>1 DEF ServiceStates
<1>3. frames' # <<>> /\ Last(frames') = ErrorFrame(status)
  BY <1>1, <1>2, Appended
<1>4. StreamInv'
  BY <1>2, <1>3 DEF StreamInv, ErrorFrame
<1>5. /\ frames # <<>>
      /\ Last(frames).type \in {"session", "token", "tool"}
      /\ Last(frames) # Token(0)
  <2>1. CASE frames = <<SessionFrame>>
    BY <2>1 DEF Last, SessionFrame, Token
  <2>2. CASE frames # <<SessionFrame>>
    BY <2>2, PublicKinds DEF StreamInv
  <2> QED
    BY <2>1, <2>2
<1>6. Contract!Fails
  <2>1. Contract!Yields(ErrorFrame(status))
    BY <1>2, ContractYields
  <2>2. ErrorFrame(status) = Contract!Failure(status)
    BY DEF ErrorFrame, Contract!Failure
  <2> QED
    BY <1>5, <2>1, <2>2, ContractTerms DEF Contract!Fails
<1> QED
  BY <1>4, <1>6 DEF Contract!Next

LEMMA ForwardStep ==
    ASSUME TypeInv, StreamInv, ServiceForwards
    PROVE  StreamInv' /\ Contract!Next
<1> DEFINE item == Head(runtimeEvents)
<1>1. frames \in Seq(Frames) /\ service \in ServiceStates
  BY DEF TypeInv, TypeOK, ReaderTypes
<1>2. service.at \in {"waiting", "atEvent"}
  BY DEF ServiceForwards, Takes, LoopTop, ResumedAt
<1>3. /\ item \in PublicItems
      /\ frames' = Append(frames, item)
      /\ service' = [service EXCEPT !.at = "atEvent",
                                    !.sawToken = @ \/ item.type = "token"]
  BY DEF ServiceForwards, Takes, Yields
<1> HIDE DEF item
<1>4. /\ service'.at = "atEvent"
      /\ service'.fallback = service.fallback
      /\ service'.sawToken <=> service.sawToken \/ item.type = "token"
  BY <1>1, <1>3 DEF ServiceStates
<1>5. /\ frames' # <<>>
      /\ Last(frames') = item
      /\ Holds("token")' <=> Holds("token") \/ item.type = "token"
  BY <1>1, <1>3, Appended
<1>6. ~service.fallback /\ (service.sawToken <=> Holds("token"))
  BY <1>2 DEF StreamInv
<1>7. StreamInv'
  <2>1. (service.sawToken <=> Holds("token"))'
    BY <1>4, <1>5, <1>6
  <2>2. ~service'.fallback
    BY <1>4, <1>6
  <2>3. Last(frames') \in PublicItems
    BY <1>3, <1>5
  <2> QED
    BY <1>4, <1>5, <2>1, <2>2, <2>3 DEF StreamInv
<1>8. /\ frames # <<>>
      /\ Last(frames).type \in {"session", "token", "tool"}
      /\ Last(frames) # Token(0)
  <2>1. CASE frames = <<SessionFrame>>
    BY <2>1 DEF Last, SessionFrame, Token
  <2>2. CASE frames # <<SessionFrame>>
    BY <1>2, <2>2, PublicKinds DEF StreamInv
  <2> QED
    BY <2>1, <2>2
<1>9. Contract!Answers
  <2>1. Contract!Yields(item)
    BY <1>2, <1>3, <1>4, ContractYields
  <2> QED
    BY <1>3, <1>8, <2>1, ContractTerms DEF Contract!Answers
<1> QED
  BY <1>7, <1>9 DEF Contract!Next

LEMMA StartStep ==
    ASSUME TypeInv, StreamInv, ServiceStarts
    PROVE  StreamInv' /\ Contract!Next
<1>1. service \in ServiceStates /\ service.at = "created" /\ frames = <<>>
  BY DEF TypeInv, TypeOK, StreamInv, ServiceStarts, ResumedAt
<1>2. /\ frames' = Append(frames, SessionFrame)
      /\ service' = [service EXCEPT !.at = "atSession"]
  BY DEF ServiceStarts, Yields
<1>3. /\ service'.at = "atSession" /\ service'.fallback = service.fallback
      /\ service'.sawToken = service.sawToken
  BY <1>1, <1>2 DEF ServiceStates
<1>4. frames' = <<SessionFrame>>
  BY <1>1, <1>2
<1>5. ~service.sawToken /\ ~service.fallback
  BY <1>1 DEF StreamInv
<1>6. ~Holds("token")'
  BY <1>4 DEF Holds, SessionFrame
<1>7. StreamInv'
  BY <1>3, <1>4, <1>5, <1>6 DEF StreamInv
<1>8. Contract!Opens
  <2>1. Contract!Yields(SessionFrame)
    BY <1>1, <1>2, <1>3, ContractYields
  <2> QED
    BY <1>1, <2>1 DEF Contract!Opens, Contract!Session, SessionFrame
<1> QED
  BY <1>7, <1>8 DEF Contract!Next

LEMMA DoneStep ==
    ASSUME TypeInv, StreamInv, ServiceFinishes
    PROVE  StreamInv' /\ Contract!Next
<1>1. frames \in Seq(Frames) /\ service \in ServiceStates
  BY DEF TypeInv, TypeOK, ReaderTypes
<1>2. service.at \in {"atMetadata", "atError"}
  BY DEF ServiceFinishes, ResumedAt
<1>3. frames' = Append(frames, DoneFrame) /\ service'.at = "atDone"
  BY <1>1 DEF ServiceFinishes, Yields, ServiceStates
<1>4. frames' # <<>> /\ Last(frames') = DoneFrame
  BY <1>1, <1>3, Appended
<1>5. StreamInv'
  BY <1>3, <1>4 DEF StreamInv, Finished
<1>6. frames # <<>> /\ Last(frames).type \in {"metadata", "error"}
  BY <1>2 DEF StreamInv
<1>7. Contract!Finishes
  <2>1. Contract!Yields(DoneFrame)
    BY <1>2, <1>3, ContractYields
  <2> QED
    BY <1>6, <2>1, ContractTerms DEF Contract!Finishes, Contract!Done, DoneFrame
<1> QED
  BY <1>5, <1>7 DEF Contract!Next

\* The steps that yield a frame, and what every other step does to the service.
Yielding == ServiceStarts \/ ServiceDeadline \/ ServiceForwards \/ ServiceSumsUp
              \/ ServiceReportsFailure \/ ServiceSumsUpFallback \/ ServiceFinishes
QuietStep ==
    /\ UNCHANGED frames
    /\ \/ UNCHANGED service
       \/ service.at # "closed" /\ service'.at \in {"joining", "closed"}
       \/ /\ service.at \in {"atSession", "atEvent"}
          /\ service' = [service EXCEPT !.at = "waiting"]

LEMMA FinallyEnds ==
    ASSUME TypeInv, ServiceFinally
    PROVE  service'.at \in {"joining", "closed"}
BY DEF TypeInv, TypeOK, ServiceStates, ServiceFinally

LEMMA QuietSteps == TypeInv /\ [Next]_vars => Yielding \/ QuietStep
<1> SUFFICES ASSUME TypeInv, [Next]_vars PROVE Yielding \/ QuietStep
  OBVIOUS
<1> USE DEF QuietStep
<1>0. service \in ServiceStates
  BY DEF TypeInv, TypeOK
<1>1. CASE UNCHANGED vars
  BY <1>1 DEF vars
<1>2. CASE Agent \/ ProducerPuts \/ ProducerHonoursCancel \/ Tools
  BY <1>2 DEF Agent, Tools, OutsideAgent, AgentWritesToken, AgentCallsTools, AgentEnds,
              AgentDies, ProducerPuts, ProducerHonoursCancel, ToolAnnounces, ToolReturns,
              ToolReports
<1>3. CASE Runtime
  BY <1>3 DEF Runtime, OutsideRuntime, RuntimeStarts, RuntimeSetupFails, RuntimeYields,
              RuntimeSummaryFails, RuntimeReleased, RuntimeJoinsProducer,
              RuntimeReleasedLate, ConsumerPuts, ConsumerPutsFailure, RuntimeCancelled,
              ConsumerCancelled, RuntimeFinalised
<1>4. CASE Service
  <2>1. CASE ServiceOpensRuntime
    BY <2>1 DEF ServiceOpensRuntime, ResumedAt
  <2>2. CASE ServiceWaits
    BY <2>2 DEF ServiceWaits, LoopTop, ResumedAt
  <2>3. CASE ServiceCleansUp
    BY <2>3, FinallyEnds DEF ServiceCleansUp, ResumedAt
  <2>4. CASE ServiceReturns
    BY <1>0, <2>4 DEF ServiceReturns, ServiceStates
  <2> QED
    BY <1>4, <2>1, <2>2, <2>3, <2>4 DEF Service, Yielding
<1>5. CASE DeadlinePasses
  BY <1>5 DEF DeadlinePasses
<1>6. CASE Reader \/ ReaderPings \/ ClientDisconnects \/ ResponseOver
  <2>1. CASE ReaderCancelsService
    <3>1. CASE ServiceFinally /\ service.at = "waiting"
      BY <2>1, <3>1, FinallyEnds DEF ReaderCancelsService, OutsideReader
    <3>2. CASE UNCHANGED service
      BY <2>1, <3>2 DEF ReaderCancelsService, OutsideReader
    <3> QED
      BY <2>1, <3>1, <3>2 DEF ReaderCancelsService, ResumedAt
  <2>2. CASE ReaderClosesService
    <3>1. CASE ServiceFinally /\ service.at \in AtYield
      BY <2>2, <3>1, FinallyEnds DEF ReaderClosesService, OutsideReader, AtYield
    <3>2. CASE /\ service.at \in {"created", "atSession"}
               /\ service' = [service EXCEPT !.at = "closed"]
      BY <1>0, <2>2, <3>2 DEF ReaderClosesService, OutsideReader, ServiceStates
    <3> QED
      BY <2>2, <3>1, <3>2 DEF ReaderClosesService
  <2>3. CASE ReaderPulls \/ ReaderTakes \/ ReaderSent \/ ReaderStops
               \/ ReaderSeesDisconnect \/ ReaderLeaves \/ ReaderPings
    BY <2>3 DEF ReaderPulls, ReaderTakes, ReaderSent, ReaderStops, ReaderSeesDisconnect,
                ReaderLeaves, ReaderPings, OnlyReader, OutsideReader
  <2>4. CASE ClientDisconnects
    BY <2>4 DEF ClientDisconnects, OutsideReader
  <2>5. CASE ResponseOver
    BY <2>5 DEF ResponseOver, vars
  <2> QED
    BY <1>6, <2>1, <2>2, <2>3, <2>4, <2>5 DEF Reader
<1> QED
  BY <1>1, <1>2, <1>3, <1>4, <1>5, <1>6 DEF Next

LEMMA StreamStep ==
    TypeInv /\ StreamInv /\ [Next]_vars
      => StreamInv' /\ [Contract!Next]_<<frames, service.at = "closed">>
<1> SUFFICES ASSUME TypeInv, StreamInv, [Next]_vars
             PROVE  StreamInv' /\ [Contract!Next]_<<frames, service.at = "closed">>
  OBVIOUS
<1>1. CASE Yielding
  <2>1. CASE ServiceStarts
    BY <2>1, StartStep
  <2>2. CASE ServiceDeadline
    <3>1. service.at \in {"waiting", "atEvent"} /\ YieldsError(503, TRUE)
      BY <2>2 DEF ServiceDeadline, LoopTop, ResumedAt
    <3>2. 503 \in ErrorStatuses
      BY DEF ErrorStatuses
    <3> QED
      BY <3>1, <3>2, ErrorStep
  <2>3. CASE ServiceForwards
    BY <2>3, ForwardStep
  <2>4. CASE ServiceSumsUp
    BY <2>4, SummaryStep DEF ServiceSumsUp, Takes, LoopTop, ResumedAt
  <2>5. CASE ServiceReportsFailure
    <3>1. /\ service.at \in {"waiting", "atEvent"}
          /\ YieldsError(StatusOf(Head(runtimeEvents).kind), FALSE)
      BY <2>5 DEF ServiceReportsFailure, Takes, LoopTop, ResumedAt
    <3> QED
      BY <3>1, Statuses, ErrorStep
  <2>6. CASE ServiceSumsUpFallback
    BY <2>6, SummaryStep DEF ServiceSumsUpFallback, ResumedAt
  <2>7. CASE ServiceFinishes
    BY <2>7, DoneStep
  <2> QED
    BY <1>1, <2>1, <2>2, <2>3, <2>4, <2>5, <2>6, <2>7 DEF Yielding
<1>2. CASE QuietStep
  <2>1. StreamInv'
    BY <1>2, StreamQuiet DEF QuietStep
  <2>2. UNCHANGED frames
    BY <1>2 DEF QuietStep
  <2>3. CASE service.at # "closed" /\ service'.at = "closed"
    <3>1. (service.at = "closed")' = TRUE
      BY <2>3, Zenon
    <3>2. Contract!Ends
      BY <2>2, <2>3, <3>1 DEF Contract!Ends
    <3> QED
      BY <2>1, <3>2 DEF Contract!Next
  <2>4. CASE (service.at = "closed") <=> (service'.at = "closed")
    <3>1. UNCHANGED (service.at = "closed")
      BY <2>4, Zenon
    <3> QED
      BY <2>1, <2>2, <3>1
  <2>5. (service.at # "closed" /\ service'.at = "closed")
          \/ ((service.at = "closed") <=> (service'.at = "closed"))
    <3>1. service \in ServiceStates
      BY DEF TypeInv, TypeOK
    <3> QED
      BY <1>2, <3>1 DEF QuietStep, ServiceStates
  <2> QED
    BY <2>1, <2>3, <2>4, <2>5
<1> QED
  BY <1>1, <1>2, QuietSteps

\* The turn implements its public contract: whatever the tasks, the deadline and
\* the client do, the frames it yields are those TurnContract allows, in its order.
THEOREM ContractImplemented == Spec => ImplementsContract
<1>1. Init => Contract!Init
  BY DEF Init, Contract!Init
<1> QED
  BY <1>1, StreamInit, StreamStep, TypeInit, TypeStep, PTL
     DEF Spec, ImplementsContract, Contract!Spec

-----------------------------------------------------------------------------
(* The outcome.  It stays open, and the flags that decide it follow the     *)
(* stream, until the `finally` block records it once.                       *)

OutcomeInv ==
    /\ service.at \in {"created", "atSession", "waiting", "atEvent", "atFallback",
                       "atMetadata"} =>
         /\ observed = "open" /\ ~service.doneEmitted
         /\ service.outcome = "none" /\ ~Holds("error")
    /\ service.at = "atError" =>
         /\ observed = "open" /\ ~service.doneEmitted
         /\ service.outcome = "error" /\ Holds("error")
    /\ service.at = "atDone" =>
         /\ observed = "open" /\ service.doneEmitted
         /\ service.outcome \in {"success", "error"}
         /\ service.outcome = "error" <=> Holds("error")
    /\ reader.at = "closing" => ~connected
    /\ OutcomeMatchesStream

\* The outcome is recorded only by `finally`, which runs after `done` or for a
\* reader that is leaving.
Records ==
    /\ ServiceFinally
    /\ UNCHANGED <<frames, connected>>
    /\ \/ service.at = "atDone"
       \/ reader.at = "closing" /\ service.at \in AtYield \cup {"waiting"}

LEMMA RecordedOnce == TypeInv /\ [Next]_vars => UNCHANGED observed \/ Records
<1> SUFFICES ASSUME TypeInv, [Next]_vars PROVE UNCHANGED observed \/ Records
  OBVIOUS
<1>1. CASE UNCHANGED vars
  BY <1>1 DEF vars, outcomeVars
<1>2. CASE Agent \/ ProducerPuts \/ ProducerHonoursCancel \/ Tools
  BY <1>2 DEF Agent, Tools, OutsideAgent, outcomeVars, AgentWritesToken, AgentCallsTools,
              AgentEnds, AgentDies, ProducerPuts, ProducerHonoursCancel, ToolAnnounces,
              ToolReturns, ToolReports
<1>3. CASE Runtime
  BY <1>3 DEF Runtime, OutsideRuntime, outcomeVars, RuntimeStarts, RuntimeSetupFails,
              RuntimeYields, RuntimeSummaryFails, RuntimeReleased, RuntimeJoinsProducer,
              RuntimeReleasedLate, ConsumerPuts, ConsumerPutsFailure, RuntimeCancelled,
              ConsumerCancelled, RuntimeFinalised
<1>4. CASE Service
  <2>1. CASE ServiceCleansUp
    BY <2>1 DEF ServiceCleansUp, ResumedAt, OutsideService, clientVars, Records
  <2>2. CASE Yielding \/ ServiceOpensRuntime \/ ServiceWaits \/ ServiceReturns
    BY <2>2 DEF Yielding, ServiceStarts, ServiceDeadline, ServiceForwards, ServiceSumsUp,
                ServiceReportsFailure, ServiceSumsUpFallback, ServiceFinishes,
                ServiceOpensRuntime, ServiceWaits, ServiceReturns, outcomeVars
  <2> QED
    BY <1>4, <2>1, <2>2 DEF Service, Yielding
<1>5. CASE DeadlinePasses
  BY <1>5 DEF DeadlinePasses
<1>6. CASE Reader \/ ReaderPings \/ ClientDisconnects \/ ResponseOver
  <2>1. CASE ReaderCancelsService
    BY <2>1 DEF ReaderCancelsService, ResumedAt, OutsideReader, Records
  <2>2. CASE ReaderClosesService
    BY <2>2 DEF ReaderClosesService, OutsideReader, Records
  <2>3. CASE ReaderPulls \/ ReaderTakes \/ ReaderSent \/ ReaderStops
               \/ ReaderSeesDisconnect \/ ReaderLeaves \/ ReaderPings
    BY <2>3 DEF ReaderPulls, ReaderTakes, ReaderSent, ReaderStops, ReaderSeesDisconnect,
                ReaderLeaves, ReaderPings, OnlyReader
  <2>4. CASE ClientDisconnects \/ ResponseOver
    BY <2>4 DEF ClientDisconnects, ResponseOver, vars, outcomeVars
  <2> QED
    BY <1>6, <2>1, <2>2, <2>3, <2>4 DEF Reader
<1> QED
  BY <1>1, <1>2, <1>3, <1>4, <1>5, <1>6 DEF Next

\* A client that left stays away, and only its leaving makes the reader leave.
LEMMA Leaving ==
    TypeInv /\ [Next]_vars
      => /\ connected' => connected
         /\ reader'.at = "closing" => (reader.at = "closing" \/ ~connected)
<1> SUFFICES ASSUME TypeInv, [Next]_vars
             PROVE  /\ connected' => connected
                    /\ reader'.at = "closing" => (reader.at = "closing" \/ ~connected)
  OBVIOUS
<1>0. reader \in ReaderStates
  BY DEF TypeInv, TypeOK, ReaderTypes
<1>1. CASE UNCHANGED vars
  BY <1>1 DEF vars, clientVars
<1>2. CASE Agent \/ ProducerPuts \/ ProducerHonoursCancel \/ Tools
  <2>1. UNCHANGED <<connected, reader>>
    BY <1>2 DEF Agent, Tools, OutsideAgent, clientVars, AgentWritesToken, AgentCallsTools,
                AgentEnds, AgentDies, ProducerPuts, ProducerHonoursCancel, ToolAnnounces,
                ToolReturns, ToolReports
  <2> QED
    BY <2>1
<1>3. CASE Runtime
  <2>1. UNCHANGED <<connected, reader>>
    BY <1>3 DEF Runtime, OutsideRuntime, clientVars, RuntimeStarts, RuntimeSetupFails,
                RuntimeYields, RuntimeSummaryFails, RuntimeReleased, RuntimeJoinsProducer,
                RuntimeReleasedLate, ConsumerPuts, ConsumerPutsFailure, RuntimeCancelled,
                ConsumerCancelled, RuntimeFinalised
  <2> QED
    BY <2>1
<1>4. CASE Service \/ DeadlinePasses
  <2>1. UNCHANGED connected
    BY <1>4 DEF Service, DeadlinePasses, OutsideService, clientVars, ServiceStarts,
                ServiceOpensRuntime, ServiceWaits, ServiceDeadline, ServiceForwards,
                ServiceSumsUp, ServiceReportsFailure, ServiceSumsUpFallback,
                ServiceFinishes, ServiceCleansUp, ServiceReturns
  <2>2. reader'.at = reader.at
    <3>1. CASE Yielding
      <4>1. \E f, next : Yields(f, next)
        BY <3>1 DEF Yielding, ServiceStarts, ServiceDeadline, ServiceForwards, ServiceSumsUp,
                    ServiceReportsFailure, ServiceSumsUpFallback, ServiceFinishes,
                    YieldsSummary, YieldsError
      <4> QED
        BY <1>0, <4>1 DEF Yields, ReaderStates
    <3>2. CASE ServiceCleansUp \/ ServiceReturns
      BY <1>0, <3>2 DEF ServiceCleansUp, ServiceReturns, ReaderStates
    <3>3. CASE ServiceOpensRuntime \/ ServiceWaits \/ DeadlinePasses
      BY <3>3 DEF ServiceOpensRuntime, ServiceWaits, DeadlinePasses
    <3> QED
      BY <1>4, <3>1, <3>2, <3>3 DEF Service, Yielding
  <2> QED
    BY <2>1, <2>2
<1>5. CASE Reader \/ ReaderPings \/ ClientDisconnects \/ ResponseOver
  <2>1. CASE ReaderCancelsService \/ ReaderClosesService
    BY <2>1 DEF ReaderCancelsService, ReaderClosesService
  <2>2. CASE ReaderSeesDisconnect
    BY <2>2 DEF ReaderSeesDisconnect, OnlyReader
  <2>3. CASE ReaderPulls \/ ReaderTakes \/ ReaderSent \/ ReaderStops
               \/ ReaderLeaves \/ ReaderPings
    <3>1. reader'.at # "closing"
      BY <1>0, <2>3 DEF ReaderPulls, ReaderTakes, ReaderSent, ReaderStops, ReaderLeaves,
                        ReaderPings, ReaderStates
    <3>2. UNCHANGED connected
      BY <2>3 DEF ReaderPulls, ReaderTakes, ReaderSent, ReaderStops, ReaderLeaves,
                  ReaderPings, OnlyReader
    <3> QED
      BY <3>1, <3>2
  <2>4. CASE ClientDisconnects \/ ResponseOver
    BY <2>4 DEF ClientDisconnects, ResponseOver, vars, clientVars
  <2> QED
    BY <1>5, <2>1, <2>2, <2>3, <2>4 DEF Reader
<1> QED
  BY <1>1, <1>2, <1>3, <1>4, <1>5 DEF Next

\* A frame of the right kind for where the service goes keeps the invariant.
LEMMA YieldOutcome ==
    ASSUME TypeInv, OutcomeInv, NEW f, NEW next \in ServiceStates, Yields(f, next),
           UNCHANGED <<observed>>,
           connected' => connected,
           service.at \in {"created", "atSession", "waiting", "atEvent", "atFallback",
                           "atMetadata", "atError"},
           \/ /\ service.at # "atError"
              /\ next.at \in {"atSession", "atEvent", "atFallback", "atMetadata"}
              /\ f.type # "error"
              /\ next.doneEmitted = service.doneEmitted /\ next.outcome = service.outcome
           \/ /\ service.at # "atError"
              /\ next.at = "atError" /\ f.type = "error"
              /\ next.doneEmitted = service.doneEmitted /\ next.outcome = "error"
           \/ /\ service.at \in {"atMetadata", "atError"}
              /\ next.at = "atDone" /\ f.type = "done" /\ next.doneEmitted
              /\ next.outcome = IF service.at = "atMetadata" THEN "success"
                                                            ELSE service.outcome
    PROVE  OutcomeInv'
<1>1. frames \in Seq(Frames) /\ reader \in ReaderStates
  BY DEF TypeInv, TypeOK, ReaderTypes
<1>2. frames' = Append(frames, f) /\ service' = next
  BY DEF Yields
<1>3. Holds("error")' <=> (Holds("error") \/ f.type = "error")
  BY <1>1, <1>2, Appended
<1>4. reader'.at = reader.at
  BY <1>1 DEF Yields, ReaderStates
<1>5. observed = "open" /\ observed' = "open" /\ ~service.doneEmitted
  BY DEF OutcomeInv
<1>6. OutcomeMatchesStream'
  BY <1>5 DEF OutcomeMatchesStream
<1>7. (reader.at = "closing" => ~connected)'
  BY <1>4 DEF OutcomeInv
<1>8. CASE /\ service.at # "atError"
           /\ next.at \in {"atSession", "atEvent", "atFallback", "atMetadata"}
           /\ f.type # "error"
           /\ next.doneEmitted = service.doneEmitted /\ next.outcome = service.outcome
  <2>1. service.outcome = "none" /\ ~Holds("error")
    BY <1>8 DEF OutcomeInv
  <2>2. ~next.doneEmitted /\ next.outcome = "none" /\ ~Holds("error")'
    BY <1>3, <1>5, <1>8, <2>1
  <2> QED
    BY <1>2, <1>5, <1>6, <1>7, <1>8, <2>2 DEF OutcomeInv
<1>9. CASE /\ service.at # "atError"
           /\ next.at = "atError" /\ f.type = "error"
           /\ next.doneEmitted = service.doneEmitted /\ next.outcome = "error"
  <2>1. ~next.doneEmitted /\ Holds("error")'
    BY <1>3, <1>5, <1>9
  <2> QED
    BY <1>2, <1>5, <1>6, <1>7, <1>9, <2>1 DEF OutcomeInv
<1>10. CASE /\ service.at \in {"atMetadata", "atError"}
            /\ next.at = "atDone" /\ f.type = "done" /\ next.doneEmitted
            /\ next.outcome = IF service.at = "atMetadata" THEN "success"
                                                          ELSE service.outcome
  <2>1. Holds("error")' <=> Holds("error")
    BY <1>3, <1>10
  <2>2. next.outcome \in {"success", "error"} /\ (next.outcome = "error" <=> Holds("error")')
    <3>1. CASE service.at = "atMetadata"
      BY <1>10, <2>1, <3>1 DEF OutcomeInv
    <3>2. CASE service.at = "atError"
      BY <1>10, <2>1, <3>2 DEF OutcomeInv
    <3> QED
      BY <1>10, <3>1, <3>2
  <2> QED
    BY <1>2, <1>5, <1>6, <1>7, <1>10, <2>2 DEF OutcomeInv
<1> QED
  BY <1>8, <1>9, <1>10

LEMMA OutcomeYielding ==
    ASSUME TypeInv, StreamInv, OutcomeInv, Yielding, UNCHANGED observed,
           connected' => connected
    PROVE  OutcomeInv'
<1>0. service \in ServiceStates
  BY DEF TypeInv, TypeOK
<1>1. ASSUME YieldsSummary, service.at \in {"waiting", "atEvent", "atFallback"}
      PROVE  OutcomeInv'
  <2>1. CASE service.sawToken
    <3> DEFINE f == MetadataFrame(IF service.fallback THEN "fallback" ELSE "model")
               next == [service EXCEPT !.at = "atMetadata"]
    <3>1. Yields(f, next)
      BY <1>1, <2>1 DEF YieldsSummary
    <3>2. /\ next \in ServiceStates /\ next.at = "atMetadata" /\ f.type # "error"
          /\ next.doneEmitted = service.doneEmitted /\ next.outcome = service.outcome
      BY <1>0 DEF ServiceStates, AtYield, MetadataFrame
    <3> HIDE DEF f, next
    <3> QED
      BY <1>1, <3>1, <3>2, YieldOutcome
  <2>2. CASE ~service.sawToken
    <3> DEFINE next == [service EXCEPT !.at = "atFallback", !.sawToken = TRUE,
                                       !.fallback = TRUE]
    <3>1. Yields(Token(0), next)
      BY <1>1, <2>2 DEF YieldsSummary
    <3>2. /\ next \in ServiceStates /\ next.at = "atFallback" /\ Token(0).type # "error"
          /\ next.doneEmitted = service.doneEmitted /\ next.outcome = service.outcome
      BY <1>0 DEF ServiceStates, AtYield, Token
    <3> HIDE DEF next
    <3> QED
      BY <1>1, <3>1, <3>2, YieldOutcome
  <2> QED
    BY <2>1, <2>2
<1>2. ASSUME NEW status, NEW detach \in BOOLEAN, YieldsError(status, detach),
             service.at \in {"waiting", "atEvent"}
      PROVE  OutcomeInv'
  <2> DEFINE next == [service EXCEPT !.at = "atError", !.outcome = "error",
                                     !.detached = detach]
  <2>1. Yields(ErrorFrame(status), next)
    BY <1>2 DEF YieldsError
  <2>2. /\ next \in ServiceStates /\ next.at = "atError"
        /\ next.doneEmitted = service.doneEmitted /\ next.outcome = "error"
    BY <1>0, <1>2 DEF ServiceStates, AtYield
  <2>3. ErrorFrame(status).type = "error"
    BY DEF ErrorFrame
  <2> HIDE DEF next
  <2> QED
    BY <1>2, <2>1, <2>2, <2>3, YieldOutcome
<1>3. CASE ServiceStarts
  <2> DEFINE next == [service EXCEPT !.at = "atSession"]
  <2>1. Yields(SessionFrame, next) /\ service.at = "created"
    BY <1>3 DEF ServiceStarts, ResumedAt
  <2>2. /\ next \in ServiceStates /\ next.at = "atSession" /\ SessionFrame.type # "error"
        /\ next.doneEmitted = service.doneEmitted /\ next.outcome = service.outcome
    BY <1>0 DEF ServiceStates, AtYield, SessionFrame
  <2> HIDE DEF next
  <2> QED
    BY <2>1, <2>2, YieldOutcome
<1>4. CASE ServiceDeadline
  <2>1. YieldsError(503, TRUE) /\ service.at \in {"waiting", "atEvent"}
    BY <1>4 DEF ServiceDeadline, LoopTop, ResumedAt
  <2> QED
    BY <1>2, <2>1
<1>5. CASE ServiceForwards
  <2> DEFINE f == Head(runtimeEvents)
             next == [service EXCEPT !.at = "atEvent", !.sawToken = @ \/ f.type = "token"]
  <2>1. Yields(f, next) /\ f \in PublicItems /\ service.at \in {"waiting", "atEvent"}
    BY <1>5 DEF ServiceForwards, Takes, LoopTop, ResumedAt
  <2>2. /\ next \in ServiceStates /\ next.at = "atEvent"
        /\ next.doneEmitted = service.doneEmitted /\ next.outcome = service.outcome
    BY <1>0 DEF ServiceStates, AtYield
  <2>3. f.type # "error"
    BY <2>1, PublicKinds
  <2> HIDE DEF f, next
  <2> QED
    BY <2>1, <2>2, <2>3, YieldOutcome
<1>6. CASE ServiceSumsUp
  BY <1>1, <1>6 DEF ServiceSumsUp, Takes, LoopTop, ResumedAt
<1>7. CASE ServiceReportsFailure
  <2>1. YieldsError(StatusOf(Head(runtimeEvents).kind), FALSE)
          /\ service.at \in {"waiting", "atEvent"}
    BY <1>7 DEF ServiceReportsFailure, Takes, LoopTop, ResumedAt
  <2> QED
    BY <1>2, <2>1
<1>8. CASE ServiceSumsUpFallback
  BY <1>1, <1>8 DEF ServiceSumsUpFallback, ResumedAt
<1>9. CASE ServiceFinishes
  <2> DEFINE next == [service EXCEPT !.at = "atDone", !.doneEmitted = TRUE,
                        !.outcome = IF service.at = "atMetadata" THEN "success" ELSE @]
  <2>1. Yields(DoneFrame, next) /\ service.at \in {"atMetadata", "atError"}
    BY <1>9 DEF ServiceFinishes, ResumedAt
  <2>2. /\ next \in ServiceStates /\ next.at = "atDone" /\ next.doneEmitted
        /\ next.outcome = IF service.at = "atMetadata" THEN "success" ELSE service.outcome
    BY <1>0 DEF ServiceStates, AtYield
  <2>3. DoneFrame.type = "done"
    BY DEF DoneFrame
  <2> HIDE DEF next
  <2> QED
    BY <2>1, <2>2, <2>3, YieldOutcome
<1> QED
  BY <1>3, <1>4, <1>5, <1>6, <1>7, <1>8, <1>9 DEF Yielding

\* Before `done` the last frame is another one.
LEMMA NotYetFinished ==
    ASSUME TypeInv, StreamInv,
           service.at \in {"created", "atSession", "waiting", "atEvent", "atFallback",
                           "atMetadata", "atError"}
    PROVE  ~Finished
<1>1. CASE frames = <<>>
  BY <1>1 DEF Finished
<1>2. CASE frames = <<SessionFrame>>
  BY <1>2 DEF Finished, Last, SessionFrame, DoneFrame
<1>3. CASE frames # <<>> /\ Last(frames) \in PublicItems
  BY <1>3, PublicKinds DEF Finished, DoneFrame
<1>4. CASE frames # <<>> /\ Last(frames) = Token(0)
  BY <1>4 DEF Finished, Token, DoneFrame
<1>5. CASE frames # <<>> /\ Last(frames).type \in {"metadata", "error"}
  BY <1>5 DEF Finished, DoneFrame
<1> QED
  BY <1>1, <1>2, <1>3, <1>4, <1>5 DEF StreamInv

LEMMA OutcomeRecording ==
    ASSUME TypeInv, StreamInv, OutcomeInv, Records,
           connected' => connected,
           reader'.at = "closing" => (reader.at = "closing" \/ ~connected)
    PROVE  OutcomeInv'
<1>1. service'.at \in {"joining", "closed"}
  BY FinallyEnds DEF Records
<1>2. (reader.at = "closing" => ~connected)'
  BY DEF OutcomeInv
<1>3. UNCHANGED frames /\ (Finished' <=> Finished) /\ (Holds("error")' <=> Holds("error"))
  BY DEF Records, Finished, Holds
<1>4. OutcomeMatchesStream'
  <2>1. CASE service.at = "atDone"
    <3>1. /\ service.doneEmitted /\ service.outcome \in {"success", "error"}
          /\ service.outcome = "error" <=> Holds("error")
      BY <2>1 DEF OutcomeInv
    <3>2. observed' = service.outcome
      BY <3>1 DEF Records, ServiceFinally
    <3>3. Finished
      BY <2>1 DEF StreamInv
    <3> QED
      BY <1>3, <3>1, <3>2, <3>3 DEF OutcomeMatchesStream
  <2>2. CASE service.at # "atDone"
    <3>1. service.at \in {"waiting", "atSession", "atEvent", "atFallback", "atMetadata",
                          "atError"}
      BY <2>2 DEF Records, AtYield
    <3>2. ~service.doneEmitted
      BY <3>1 DEF OutcomeInv
    <3>3. observed' = "cancelled"
      BY <3>2 DEF Records, ServiceFinally
    <3>4. ~Finished
      BY <3>1, NotYetFinished
    <3>5. ~connected'
      BY <2>2 DEF Records, OutcomeInv
    <3> QED
      BY <1>3, <3>3, <3>4, <3>5 DEF OutcomeMatchesStream
  <2> QED
    BY <2>1, <2>2
<1> QED
  BY <1>1, <1>2, <1>4 DEF OutcomeInv

LEMMA OutcomeQuiet ==
    ASSUME TypeInv, OutcomeInv, QuietStep, UNCHANGED observed,
           connected' => connected,
           reader'.at = "closing" => (reader.at = "closing" \/ ~connected)
    PROVE  OutcomeInv'
<1>0. service \in ServiceStates
  BY DEF TypeInv, TypeOK
<1>1. (reader.at = "closing" => ~connected)'
  BY DEF OutcomeInv
<1>2. UNCHANGED frames /\ (Finished' <=> Finished) /\ (Holds("error")' <=> Holds("error"))
  BY DEF QuietStep, Finished, Holds
<1>3. OutcomeMatchesStream'
  BY <1>2 DEF OutcomeInv, OutcomeMatchesStream
<1>4. CASE UNCHANGED service
  BY <1>1, <1>2, <1>3, <1>4 DEF OutcomeInv
<1>5. CASE service'.at \in {"joining", "closed"}
  BY <1>1, <1>3, <1>5 DEF OutcomeInv
<1>6. CASE /\ service.at \in {"atSession", "atEvent"}
           /\ service' = [service EXCEPT !.at = "waiting"]
  <2>1. /\ service'.at = "waiting" /\ service'.doneEmitted = service.doneEmitted
        /\ service'.outcome = service.outcome
    BY <1>0, <1>6 DEF ServiceStates
  <2>2. /\ observed = "open" /\ ~service.doneEmitted
        /\ service.outcome = "none" /\ ~Holds("error")
    BY <1>6 DEF OutcomeInv
  <2> QED
    BY <1>1, <1>2, <1>3, <2>1, <2>2 DEF OutcomeInv
<1> QED
  BY <1>4, <1>5, <1>6 DEF QuietStep

LEMMA OutcomeStep == TypeInv /\ StreamInv /\ OutcomeInv /\ [Next]_vars => OutcomeInv'
<1> SUFFICES ASSUME TypeInv, StreamInv, OutcomeInv, [Next]_vars PROVE OutcomeInv'
  OBVIOUS
<1>1. /\ connected' => connected
      /\ reader'.at = "closing" => (reader.at = "closing" \/ ~connected)
  BY Leaving
<1>2. CASE Records
  BY <1>1, <1>2, OutcomeRecording
<1>3. CASE UNCHANGED observed /\ Yielding
  BY <1>1, <1>3, OutcomeYielding
<1>4. CASE UNCHANGED observed /\ QuietStep
  BY <1>1, <1>4, OutcomeQuiet
<1> QED
  BY <1>2, <1>3, <1>4, RecordedOnce, QuietSteps

LEMMA OutcomeInit == Init => OutcomeInv
BY DEF Init, OutcomeInv, OutcomeMatchesStream, Holds

\* The outcome recorded for a turn is the one its reader was told, in every
\* interleaving of the tasks with the deadline and the client's leaving.
THEOREM OutcomeTruthful == Spec => []OutcomeMatchesStream
<1>1. OutcomeInv => OutcomeMatchesStream
  BY DEF OutcomeInv
<1> QED
  BY <1>1, TypeInit, StreamInit, OutcomeInit, TypeStep, StreamStep, OutcomeStep, PTL
     DEF Spec

-----------------------------------------------------------------------------
(* The summary.  What the frames of the contract say of each other, whatever *)
(* the service is doing: before the summary there is neither a summary nor   *)
(* an error, and the fallback, if it is there, is the last frame and the     *)
(* only token.                                                               *)

Unsummed == frames = <<>> \/ Last(frames).type \in {"session", "token", "tool"}
EndsIn(type) == frames # <<>> /\ Last(frames).type = type
FilledIn == frames # <<>> /\ Last(frames) = Token(0)
Tokens == {i \in 1..Len(frames) : frames[i].type = "token"}
FromModel == \A i \in Tokens : frames[i].n > 0

UnsummedInv ==
    Unsummed => /\ ~Holds("metadata") /\ ~Holds("error")
                /\ FilledIn => Tokens \subseteq {Len(frames)}
                /\ ~FilledIn => FromModel
SummedInv ==
    /\ EndsIn("metadata") => Holds("metadata") /\ ~Holds("error")
    /\ EndsIn("error") => Holds("error") /\ ~Holds("metadata")
    /\ EndsIn("done") => (Holds("metadata") <=> ~Holds("error"))
FramesInv == UnsummedInv /\ SummedInv /\ AnswerSourceTruthful

LEMMA FramesInit == Init => FramesInv
BY DEF Init, FramesInv, UnsummedInv, SummedInv, EndsIn, Holds, FilledIn, FromModel,
       Tokens, AnswerSourceTruthful

\* A frame added at the end leaves the earlier summaries true, and is true itself
\* when it is not a summary or says what the tokens before it say.
LEMMA SourceStep ==
    ASSUME frames \in Seq(Frames), AnswerSourceTruthful, NEW f, frames' = Append(frames, f),
           f.type = "metadata" =>
             (f.source = "model" <=> \E j \in Tokens : frames[j].n > 0)
    PROVE  AnswerSourceTruthful'
<1>1. /\ Len(frames) \in Nat /\ Len(frames') = Len(frames) + 1
      /\ \A i \in 1..Len(frames) : frames'[i] = frames[i]
      /\ frames'[Len(frames) + 1] = f
  OBVIOUS
<1> SUFFICES ASSUME NEW i \in 1..Len(frames'), frames'[i].type = "metadata"
             PROVE  frames'[i].source = "model"
                      <=> \E j \in 1..(i - 1) : frames'[j].type = "token" /\ frames'[j].n > 0
  BY DEF AnswerSourceTruthful
<1>2. CASE i \in 1..Len(frames)
  <2>1. frames[i].source = "model"
          <=> \E j \in 1..(i - 1) : frames[j].type = "token" /\ frames[j].n > 0
    BY <1>1, <1>2 DEF AnswerSourceTruthful
  <2>2. \A j \in 1..(i - 1) : frames'[j] = frames[j]
    BY <1>1, <1>2
  <2> QED
    BY <1>1, <1>2, <2>1, <2>2
<1>3. CASE i = Len(frames) + 1
  <2>1. i - 1 = Len(frames) /\ frames'[i] = f
    BY <1>1, <1>3
  <2>2. f.source = "model" <=> \E j \in Tokens : frames[j].n > 0
    BY <2>1
  <2>3. (\E j \in Tokens : frames[j].n > 0)
          <=> \E j \in 1..Len(frames) : frames'[j].type = "token" /\ frames'[j].n > 0
    BY <1>1 DEF Tokens
  <2> QED
    BY <2>1, <2>2, <2>3
<1> QED
  BY <1>1, <1>2, <1>3

\* The tokens after a frame is added.
LEMMA TokensStep ==
    ASSUME frames \in Seq(Frames), NEW f, frames' = Append(frames, f)
    PROVE  /\ Tokens' = Tokens \cup (IF f.type = "token" THEN {Len(frames')} ELSE {})
           /\ \A i \in Tokens : frames'[i] = frames[i]
           /\ frames'[Len(frames')] = f
           /\ Holds("token") <=> Tokens # {}
<1>1. /\ Len(frames) \in Nat /\ Len(frames') = Len(frames) + 1
      /\ \A i \in 1..Len(frames) : frames'[i] = frames[i]
      /\ frames'[Len(frames) + 1] = f
  OBVIOUS
<1>2. \A i : i \in 1..Len(frames') <=> (i \in 1..Len(frames) \/ i = Len(frames) + 1)
  BY <1>1
<1>3. Tokens' = Tokens \cup (IF f.type = "token" THEN {Len(frames')} ELSE {})
  BY <1>1, <1>2 DEF Tokens
<1>4. Holds("token") <=> Tokens # {}
  BY DEF Holds, Tokens
<1> QED
  BY <1>1, <1>3, <1>4 DEF Tokens

\* A step of the contract keeps what the frames say of each other.
LEMMA FramesStep ==
    ASSUME frames \in Seq(Frames), FramesInv,
           [Contract!Next]_<<frames, service.at = "closed">>
    PROVE  FramesInv'
<1>0. UNCHANGED frames => FramesInv'
  BY DEF FramesInv, UnsummedInv, SummedInv, Unsummed, EndsIn, FilledIn, FromModel,
         Tokens, Holds, AnswerSourceTruthful
<1> DEFINE Adds(f) == frames' = Append(frames, f)
<1>1. ASSUME NEW f, Adds(f)
      PROVE  /\ frames' # <<>> /\ Last(frames') = f
             /\ \A type : Holds(type)' <=> (Holds(type) \/ f.type = type)
  BY <1>1, Appended
<1>2. ASSUME NEW f, Adds(f), f.type \in {"session", "token", "tool"}, Unsummed,
             f.type = "token" => (f = Token(0) /\ Tokens = {}) \/ f.n > 0,
             f # Token(0) => ~FilledIn
      PROVE  FramesInv'
  <2>1. /\ ~Holds("metadata") /\ ~Holds("error")
        /\ FilledIn => Tokens \subseteq {Len(frames)}
        /\ ~FilledIn => FromModel
    BY <1>2 DEF FramesInv, UnsummedInv
  <2>2. ~Holds("metadata")' /\ ~Holds("error")'
    BY <1>1, <1>2, <2>1
  <2>3. AnswerSourceTruthful'
    BY <1>2, SourceStep DEF FramesInv
  <2>4. SummedInv'
    BY <1>1, <1>2 DEF SummedInv, EndsIn
  <2>5. CASE f = Token(0)
    <3>1. f.type = "token" /\ ~(f.n > 0)
      BY <2>5 DEF Token
    <3>2. Tokens' = {Len(frames')}
      BY <1>2, <3>1, TokensStep
    <3>3. FilledIn'
      BY <1>1, <1>2, <2>5 DEF FilledIn
    <3> QED
      BY <2>2, <2>3, <2>4, <3>2, <3>3 DEF FramesInv, UnsummedInv
  <2>6. CASE f # Token(0)
    <3>1. FromModel'
      BY <1>2, <2>1, <2>6, TokensStep DEF FromModel
    <3>2. ~FilledIn'
      BY <1>1, <1>2, <2>6 DEF FilledIn
    <3> QED
      BY <2>2, <2>3, <2>4, <3>1, <3>2 DEF FramesInv, UnsummedInv
  <2> QED
    BY <2>5, <2>6
<1>3. ASSUME NEW f, Adds(f), f.type \in {"metadata", "error", "done"}
      PROVE  UnsummedInv'
  BY <1>1, <1>3 DEF UnsummedInv, Unsummed
<1>4. CASE Contract!Opens
  <2>1. Adds(Contract!Session) /\ frames = <<>>
    BY <1>4 DEF Contract!Opens, Contract!Yields
  <2>2. /\ Contract!Session.type = "session" /\ Contract!Session # Token(0)
        /\ Unsummed /\ ~FilledIn
    BY <2>1 DEF Contract!Session, Token, Unsummed, FilledIn
  <2> QED
    BY <1>2, <2>1, <2>2
<1>5. CASE Contract!Answers
  <2>1. PICK f \in PublicItems : Adds(f)
    BY <1>5 DEF Contract!Answers, Contract!Yields
  <2>2. Unsummed /\ ~FilledIn
    BY <1>5, ContractTerms DEF Contract!Answers, Unsummed, FilledIn
  <2>3. f.type \in {"token", "tool"} /\ (f.type = "token" => f.n > 0)
    BY MaxTokensAssumption DEF PublicItems, Token, ToolEvent
  <2> QED
    BY <1>2, <2>1, <2>2, <2>3
<1>6. CASE Contract!FillsEmptyAnswer
  <2>1. Adds(Token(0))
    BY <1>6 DEF Contract!FillsEmptyAnswer, Contract!Yields, Contract!Fallback, Token
  <2>2. Unsummed /\ ~Holds("token")
    BY <1>6, ContractTerms DEF Contract!FillsEmptyAnswer, Unsummed
  <2>3. Tokens = {} /\ Token(0).type = "token"
    BY <2>2 DEF Holds, Tokens, Token
  <2> QED
    BY <1>2, <2>1, <2>2, <2>3
<1>7. CASE Contract!SumsUp
  <2> DEFINE source == IF FilledIn THEN "fallback" ELSE "model"
             f == Contract!Summary(source)
  <2>1. Adds(f)
    BY <1>7, ContractTerms DEF Contract!SumsUp, Contract!Yields, FilledIn
  <2>2. f.type = "metadata" /\ f.source = source
    BY DEF Contract!Summary
  <2>3. Unsummed /\ Holds("token")
    BY <1>7, ContractTerms DEF Contract!SumsUp, Unsummed
  <2>4. /\ ~Holds("metadata") /\ ~Holds("error")
        /\ FilledIn => Tokens \subseteq {Len(frames)}
        /\ ~FilledIn => FromModel
    BY <2>3 DEF FramesInv, UnsummedInv
  <2>5. f.source = "model" <=> \E j \in Tokens : frames[j].n > 0
    <3>1. CASE FilledIn
      <4>1. frames[Len(frames)] = Token(0) /\ ~(Token(0).n > 0)
        BY <3>1 DEF FilledIn, Last, Token
      <4> QED
        BY <2>2, <2>4, <3>1, <4>1
    <3>2. CASE ~FilledIn
      BY <2>2, <2>3, <2>4, <3>2 DEF Holds, Tokens, FromModel
    <3> QED
      BY <3>1, <3>2
  <2> HIDE DEF f
  <2>6. AnswerSourceTruthful'
    BY <2>1, <2>5, SourceStep DEF FramesInv
  <2>7. SummedInv'
    BY <1>1, <2>1, <2>2, <2>4 DEF SummedInv, EndsIn
  <2> QED
    BY <1>3, <2>1, <2>2, <2>6, <2>7 DEF FramesInv
<1>8. CASE Contract!Fails
  <2>1. PICK s \in ErrorStatuses : Adds(Contract!Failure(s))
    BY <1>8 DEF Contract!Fails, Contract!Yields
  <2> DEFINE f == Contract!Failure(s)
  <2>2. f.type = "error"
    BY DEF Contract!Failure
  <2>3. ~Holds("metadata")
    BY <1>8, ContractTerms DEF Contract!Fails, Unsummed, FramesInv, UnsummedInv
  <2> HIDE DEF f
  <2>4. Adds(f)
    BY <2>1 DEF f
  <2>5. AnswerSourceTruthful'
    BY <2>2, <2>4, SourceStep DEF FramesInv
  <2>6. SummedInv'
    BY <1>1, <2>2, <2>3, <2>4 DEF SummedInv, EndsIn
  <2> QED
    BY <1>3, <2>2, <2>4, <2>5, <2>6 DEF FramesInv
<1>9. CASE Contract!Finishes
  <2> DEFINE f == Contract!Done
  <2>1. Adds(f) /\ f.type = "done"
    BY <1>9 DEF Contract!Finishes, Contract!Yields, Contract!Done
  <2>2. EndsIn("metadata") \/ EndsIn("error")
    BY <1>9, ContractTerms DEF Contract!Finishes, EndsIn
  <2> HIDE DEF f
  <2>3. Holds("metadata") <=> ~Holds("error")
    BY <2>2 DEF FramesInv, SummedInv
  <2>4. AnswerSourceTruthful'
    BY <2>1, SourceStep DEF FramesInv
  <2>5. SummedInv'
    BY <1>1, <2>1, <2>3 DEF SummedInv, EndsIn
  <2> QED
    BY <1>3, <2>1, <2>4, <2>5 DEF FramesInv
<1>10. Contract!Ends => UNCHANGED frames
  BY DEF Contract!Ends
<1> QED
  BY <1>0, <1>4, <1>5, <1>6, <1>7, <1>8, <1>9, <1>10 DEF Contract!Next

LEMMA FramesInvariant == Spec => []FramesInv
<1>1. TypeInv => frames \in Seq(Frames)
  BY DEF TypeInv, TypeOK, ReaderTypes
<1>2. TypeInv /\ StreamInv /\ FramesInv /\ [Next]_vars => FramesInv'
  BY <1>1, StreamStep, FramesStep
<1> QED
  BY <1>2, FramesInit, TypeInit, TypeStep, StreamInit, StreamStep, PTL DEF Spec

\* The source the summary names, and the client shows as an answer or as none, is
\* the model exactly when the model wrote a token of that answer.
THEOREM SourceAlwaysTruthful == Spec => []AnswerSourceTruthful
<1>1. FramesInv => AnswerSourceTruthful
  BY DEF FramesInv
<1> QED
  BY <1>1, FramesInvariant, PTL

-----------------------------------------------------------------------------
(* The end of the service generator.  Pending is a service that has not      *)
(* reached its `finally` block; past it nothing is yielded any more.         *)

Pending == service.at \notin {"joining", "closed"}
Unopened == service.at \in {"created", "atSession"}

\* The agent and its tools act on the agent's side alone.
LEMMA AgentOutside ==
    Agent \/ ProducerPuts \/ ProducerHonoursCancel \/ Tools => UNCHANGED OutsideAgent
<1>1. Agent \/ ProducerPuts \/ ProducerHonoursCancel => UNCHANGED OutsideAgent
  BY Zenon DEF Agent, AgentWritesToken, AgentCallsTools, AgentEnds, AgentDies, ProducerPuts,
               ProducerHonoursCancel
<1>2. Tools => UNCHANGED OutsideAgent
  BY Zenon DEF Tools, ToolAnnounces, ToolReturns, ToolReports
<1> QED
  BY <1>1, <1>2

LEMMA YieldingPending == TypeInv /\ Yielding => Pending /\ Pending'
<1> SUFFICES ASSUME TypeInv, Yielding PROVE Pending /\ Pending'
  OBVIOUS
<1>1. service \in ServiceStates
  BY DEF TypeInv, TypeOK
<1>2. Pending
  BY DEF Yielding, Pending, ServiceStarts, ServiceDeadline, ServiceForwards, ServiceSumsUp,
         ServiceReportsFailure, ServiceSumsUpFallback, ServiceFinishes, Takes, LoopTop,
         ResumedAt
<1>3. Pending'
  BY <1>1 DEF Yielding, Pending, ServiceStarts, ServiceDeadline, ServiceForwards,
         ServiceSumsUp, ServiceReportsFailure, ServiceSumsUpFallback, ServiceFinishes,
         YieldsSummary, YieldsError, Yields, ServiceStates
<1> QED
  BY <1>2, <1>3

LEMMA Over == TypeInv /\ [Next]_vars /\ ~Pending => ~Pending' /\ UNCHANGED frames
<1> SUFFICES ASSUME TypeInv, [Next]_vars, ~Pending PROVE ~Pending' /\ UNCHANGED frames
  OBVIOUS
<1>1. QuietStep
  BY QuietSteps, YieldingPending
<1> QED
  BY <1>1 DEF QuietStep, Pending

\* How a service generator ends, and that it never starts anew.
LEMMA ServiceEnds ==
    TypeInv /\ [Next]_vars =>
      /\ Unopened' => Unopened
      /\ service'.at = "closed" =>
           UNCHANGED service \/ service'.detached \/ consumer.at = "over" \/ Unopened
      /\ Pending /\ ~Pending' => service.at = "atDone" \/ reader.at = "closing"
<1> SUFFICES ASSUME TypeInv, [Next]_vars
             PROVE  /\ Unopened' => Unopened
                    /\ service'.at = "closed" =>
                         UNCHANGED service \/ service'.detached \/ consumer.at = "over"
                           \/ Unopened
                    /\ Pending /\ ~Pending' => service.at = "atDone" \/ reader.at = "closing"
  OBVIOUS
<1>0. service \in ServiceStates
  BY DEF TypeInv, TypeOK
<1>1. CASE UNCHANGED service
  BY <1>1 DEF Unopened, Pending
<1>2. ASSUME ServiceFinally
      PROVE  /\ service'.at = "closed" => service'.detached
             /\ service'.at \in {"joining", "closed"}
  BY <1>0, <1>2 DEF ServiceFinally, ServiceStates
<1>3. CASE Yielding
  <2>1. Pending'
    BY <1>3, YieldingPending
  <2>2. service'.at \in {"created", "atSession"} => service.at = "created"
    BY <1>0, <1>3 DEF Yielding, ServiceStarts, ServiceDeadline, ServiceForwards, ServiceSumsUp,
         ServiceReportsFailure, ServiceSumsUpFallback, ServiceFinishes, ResumedAt,
         YieldsSummary, YieldsError, Yields, ServiceStates
  <2> QED
    BY <2>1, <2>2 DEF Pending, Unopened
<1>4. CASE ServiceOpensRuntime \/ ServiceWaits
  BY <1>0, <1>4 DEF ServiceOpensRuntime, ServiceWaits, ServiceStates, Unopened, Pending
<1>5. CASE ServiceCleansUp
  BY <1>2, <1>5 DEF ServiceCleansUp, ResumedAt, Unopened, Pending
<1>6. CASE ServiceReturns
  BY <1>0, <1>6 DEF ServiceReturns, ServiceStates, Unopened, Pending
<1>7. CASE ReaderCancelsService
  BY <1>1, <1>2, <1>7 DEF ReaderCancelsService, Unopened, Pending
<1>8. CASE ReaderClosesService
  <2>1. CASE ServiceFinally
    BY <1>2, <1>8, <2>1 DEF ReaderClosesService, Unopened, Pending
  <2>2. CASE service.at \in {"created", "atSession"} /\ service' = [service EXCEPT !.at = "closed"]
    BY <1>0, <1>8, <2>2 DEF ReaderClosesService, Unopened, Pending, ServiceStates
  <2> QED
    BY <1>8, <2>1, <2>2 DEF ReaderClosesService
<1>9. CASE Agent \/ ProducerPuts \/ ProducerHonoursCancel \/ Tools
  BY <1>1, <1>9, AgentOutside DEF OutsideAgent
<1>10. CASE Runtime
  <2>1. UNCHANGED service
    BY <1>10 DEF Runtime, OutsideRuntime, RuntimeStarts, RuntimeSetupFails, RuntimeYields,
                 RuntimeSummaryFails, RuntimeReleased, RuntimeJoinsProducer,
                 RuntimeReleasedLate, ConsumerPuts, ConsumerPutsFailure, RuntimeCancelled,
                 ConsumerCancelled, RuntimeFinalised
  <2> QED
    BY <1>1, <2>1
<1>11. CASE DeadlinePasses \/ ReaderPulls \/ ReaderTakes \/ ReaderSent \/ ReaderStops
              \/ ReaderSeesDisconnect \/ ReaderLeaves \/ ReaderPings \/ ClientDisconnects
              \/ ResponseOver
  <2>1. UNCHANGED service
    BY <1>11 DEF DeadlinePasses, ReaderPulls, ReaderTakes, ReaderSent, ReaderStops,
                 ReaderSeesDisconnect, ReaderLeaves, ReaderPings, OnlyReader,
                 ClientDisconnects, ResponseOver, vars
  <2> QED
    BY <1>1, <2>1
<1>12. UNCHANGED vars => UNCHANGED service
  BY DEF vars
<1> QED
  BY <1>1, <1>3, <1>4, <1>5, <1>6, <1>7, <1>8, <1>9, <1>10, <1>11, <1>12
     DEF Next, Service, Reader, Yielding

-----------------------------------------------------------------------------
(* The consume task.  It exists once the service has opened the runtime, and *)
(* when it is over it stays over.                                            *)

ConsumerInv == (Unopened => consumer.at = "none") /\ NoOrphanConsumer

LEMMA ConsumerEnds ==
    TypeInv /\ [Next]_vars
      => \/ ServiceOpensRuntime
         \/ consumer.at \in {"none", "over"} => consumer'.at = consumer.at
<1> SUFFICES ASSUME TypeInv, [Next]_vars, consumer.at \in {"none", "over"}
             PROVE  ServiceOpensRuntime \/ consumer'.at = consumer.at
  OBVIOUS
<1>0. consumer \in ConsumerStates
  BY DEF TypeInv, TypeOK, ConsumerTypes
<1>1. CASE Agent \/ ProducerPuts \/ ProducerHonoursCancel \/ Tools
  BY <1>1, AgentOutside DEF OutsideAgent, innerVars
<1>2. CASE Runtime
  BY <1>2 DEF Runtime, RuntimeStarts, RuntimeSetupFails, RuntimeYields, RuntimeSummaryFails,
              RuntimeReleased, RuntimeJoinsProducer, RuntimeReleasedLate, ConsumerPuts,
              ConsumerPutsFailure, RuntimeCancelled, ConsumerCancelled, RuntimeFinalised,
              RuntimeRunsAt, RuntimeAt
<1>3. ASSUME ServiceFinally PROVE consumer'.at = consumer.at
  BY <1>0, <1>3 DEF ServiceFinally, ConsumerStates
<1>4. CASE Service \/ DeadlinePasses
  <2>1. CASE ServiceCleansUp
    BY <1>3, <2>1 DEF ServiceCleansUp
  <2>2. CASE ServiceDeadline
    BY <1>0, <2>2 DEF ServiceDeadline, ConsumerStates
  <2>3. CASE ServiceStarts \/ ServiceWaits \/ ServiceForwards \/ ServiceSumsUp
               \/ ServiceReportsFailure \/ ServiceSumsUpFallback \/ ServiceFinishes
               \/ ServiceReturns \/ DeadlinePasses
    BY <2>3 DEF ServiceStarts, ServiceWaits, ServiceForwards, ServiceSumsUp,
                ServiceReportsFailure, ServiceSumsUpFallback, ServiceFinishes, ServiceReturns,
                DeadlinePasses, innerVars
  <2> QED
    BY <1>4, <2>1, <2>2, <2>3 DEF Service
<1>5. CASE Reader \/ ReaderPings \/ ClientDisconnects \/ ResponseOver
  <2>1. CASE ReaderCancelsService
    BY <1>0, <1>3, <2>1 DEF ReaderCancelsService, ConsumerStates
  <2>2. CASE ReaderClosesService
    BY <1>3, <2>2 DEF ReaderClosesService
  <2>3. CASE ReaderPulls \/ ReaderTakes \/ ReaderSent \/ ReaderStops \/ ReaderSeesDisconnect
               \/ ReaderLeaves \/ ReaderPings \/ ClientDisconnects \/ ResponseOver
    BY <2>3 DEF ReaderPulls, ReaderTakes, ReaderSent, ReaderStops, ReaderSeesDisconnect,
                ReaderLeaves, ReaderPings, OnlyReader, ClientDisconnects, ResponseOver, vars,
                innerVars
  <2> QED
    BY <1>5, <2>1, <2>2, <2>3 DEF Reader
<1>6. UNCHANGED vars => UNCHANGED consumer
  BY DEF vars, innerVars
<1> QED
  BY <1>1, <1>2, <1>4, <1>5, <1>6 DEF Next

LEMMA ConsumerInit == Init => ConsumerInv
BY DEF Init, ConsumerInv, NoOrphanConsumer

LEMMA ConsumerStep == TypeInv /\ ConsumerInv /\ [Next]_vars => ConsumerInv'
<1> SUFFICES ASSUME TypeInv, ConsumerInv, [Next]_vars PROVE ConsumerInv'
  OBVIOUS
<1>1. CASE ServiceOpensRuntime
  <2>1. service'.at = "waiting"
    BY <1>1 DEF ServiceOpensRuntime, TypeInv, TypeOK, ServiceStates
  <2> QED
    BY <2>1 DEF ConsumerInv, Unopened, NoOrphanConsumer
<1>2. CASE consumer.at \in {"none", "over"} => consumer'.at = consumer.at
  <2>1. Unopened' => consumer'.at = "none"
    BY <1>2, ServiceEnds DEF ConsumerInv
  <2>2. NoOrphanConsumer'
    BY <1>2, ServiceEnds DEF ConsumerInv, NoOrphanConsumer
  <2> QED
    BY <2>1, <2>2 DEF ConsumerInv
<1> QED
  BY <1>1, <1>2, ConsumerEnds

\* Only a turn that its deadline ended leaves a consume task behind: for every
\* other one the task is over when the service generator is.
THEOREM ConsumerAlwaysAwaited == Spec => []NoOrphanConsumer
<1>1. ConsumerInv => NoOrphanConsumer
  BY DEF ConsumerInv
<1> QED
  BY <1>1, TypeInit, TypeStep, ConsumerInit, ConsumerStep, PTL DEF Spec

-----------------------------------------------------------------------------
(* The span.  While the outcome is pending the runtime's span is open, or it *)
(* was never opened, or the runtime ended by itself.  The deadline is the    *)
(* only one to cancel the consume task of a pending turn, and it does so     *)
(* once: the runtime honours that cancellation at one await, and the wait    *)
(* for completion_event that follows is not cut.                             *)

CutShort == runtime.at = "holding" \/ (runtime.at = "joining" /\ ~runtime.completed)
SpanHeld ==
    /\ ~completion
    /\ Unopened => runtime.at = "none"
    /\ runtime.at \in {"none", "setup"} => producer.at = "none"
    /\ runtime.span \/ producer.at = "none" \/ runtime.completed
    /\ consumer.cancelled => service.detached
    /\ CutShort => service.detached /\ ~consumer.cancelled
    /\ service.detached => service.at \in {"atError", "atDone"}
SpanInv == Pending => SpanHeld

LEMMA SpanInit == Init => SpanInv
BY DEF Init, SpanInv, SpanHeld, CutShort, Unopened

\* The agent's steps: they end a producer and start none.
LEMMA SpanAgent ==
    ASSUME TypeInv, SpanHeld, Agent \/ ProducerPuts \/ ProducerHonoursCancel \/ Tools
    PROVE  SpanHeld'
<1>1. UNCHANGED <<runtime, consumer, service, completion>>
  BY AgentOutside DEF OutsideAgent, innerVars, outcomeVars
<1>2. producer'.at = "none" <=> producer.at = "none"
  <2>0. producer \in ProducerStates
    BY DEF TypeInv, TypeOK, AgentTypes
  <2>1. CASE Agent
    <3>1. producer.at = "iterating"
      BY <2>1, Zenon DEF Agent, AgentWritesToken, AgentCallsTools, AgentEnds, AgentDies, AgentRuns
    <3>2. CASE AgentWritesToken
      BY <2>0, <3>1, <3>2 DEF AgentWritesToken, ProducerStates
    <3>3. CASE AgentCallsTools
      BY <3>3 DEF AgentCallsTools
    <3>4. CASE AgentEnds
      <4>1. PICK item : producer' = [producer EXCEPT !.at = "putting", !.item = item]
        BY <3>4, Zenon DEF AgentEnds
      <4> QED
        BY <2>0, <3>1, <4>1 DEF ProducerStates
    <3>5. CASE AgentDies
      BY <2>0, <3>1, <3>5 DEF AgentDies, ProducerStates
    <3> QED
      BY <2>1, <3>2, <3>3, <3>4, <3>5 DEF Agent
  <2>2. CASE ProducerPuts \/ ProducerHonoursCancel
    BY <2>0, <2>2 DEF ProducerPuts, ProducerHonoursCancel, ProducerStates
  <2>3. CASE Tools
    <3>1. UNCHANGED producer
      BY <2>3, Zenon DEF Tools, ToolAnnounces, ToolReturns, ToolReports
    <3> QED
      BY <3>1
  <2> QED
    BY <2>1, <2>2, <2>3
<1> QED
  BY <1>1, <1>2 DEF SpanHeld, CutShort, Unopened

\* The steps of the consume task.
LEMMA SpanRuntime ==
    ASSUME TypeInv, ConsumerInv, Pending, SpanHeld, Runtime
    PROVE  SpanHeld'
<1>0. /\ runtime \in RuntimeStates /\ consumer \in ConsumerStates
      /\ producer \in ProducerStates /\ service \in ServiceStates
  BY DEF TypeInv, TypeOK, AgentTypes, ConsumerTypes
<1>1. UNCHANGED <<service, completion>>
  BY DEF Runtime, OutsideRuntime, outcomeVars, RuntimeStarts, RuntimeSetupFails, RuntimeYields,
         RuntimeSummaryFails, RuntimeReleased, RuntimeJoinsProducer, RuntimeReleasedLate,
         ConsumerPuts, ConsumerPutsFailure, RuntimeCancelled, ConsumerCancelled,
         RuntimeFinalised
<1>2. ~Unopened
  <2>1. Unopened => consumer.at = "none" /\ runtime.at = "none"
    BY DEF ConsumerInv, SpanHeld
  <2> QED
    BY <2>1 DEF Runtime, RuntimeStarts, RuntimeSetupFails, RuntimeYields,
         RuntimeSummaryFails, RuntimeReleased, RuntimeJoinsProducer, RuntimeReleasedLate,
         ConsumerPuts, ConsumerPutsFailure, RuntimeCancelled, ConsumerCancelled,
         RuntimeFinalised, RuntimeRunsAt, RuntimeAt
<1> USE DEF SpanHeld, CutShort, Unopened
<1>3. ASSUME NEW raises, RuntimeLeaves(raises), UNCHANGED producer,
             producer.at = "none" \/ runtime.completed
      PROVE  SpanHeld'
  <2>1. /\ runtime'.at = "closed" /\ runtime'.completed = runtime.completed
        /\ ~consumer'.cancelled
    BY <1>0, <1>3 DEF RuntimeLeaves, RuntimeStates, ConsumerStates
  <2> QED
    BY <1>1, <1>2, <1>3, <2>1
<1>4. ASSUME NEW raises, NEW completed \in BOOLEAN, RuntimeFinally(raises, completed),
             completed \/ (service.detached /\ ~consumer'.cancelled),
             runtime.completed => completed,
             consumer'.cancelled => consumer.cancelled
      PROVE  SpanHeld'
  <2>1. /\ runtime'.at = "joining" /\ runtime'.completed = completed
        /\ runtime'.span = runtime.span
        /\ producer'.at = producer.at
    BY <1>0, <1>4 DEF RuntimeFinally, RuntimeStates, ProducerStates
  <2> QED
    BY <1>1, <1>2, <1>4, <2>1
<1>5. CASE RuntimeStarts
  <2>1. runtime'.at = "getting" /\ runtime'.span /\ UNCHANGED consumer
    BY <1>0, <1>5 DEF RuntimeStarts, RuntimeStates
  <2> QED
    BY <1>1, <1>2, <2>1
<1>6. CASE RuntimeSetupFails
  BY <1>3, <1>6 DEF RuntimeSetupFails, RuntimeRunsAt, RuntimeAt
<1>7. CASE RuntimeYields
  <2>1. /\ runtime.at = "getting" /\ runtime'.at = "yielded"
        /\ runtime'.span = runtime.span /\ runtime'.completed = runtime.completed
        /\ consumer'.cancelled = consumer.cancelled /\ UNCHANGED producer
    BY <1>0, <1>7 DEF RuntimeYields, RuntimeRunsAt, RuntimeAt, RuntimeStates, ConsumerStates
  <2> QED
    BY <1>1, <1>2, <2>1
<1>8. CASE RuntimeSummaryFails
  BY <1>4, <1>8 DEF RuntimeSummaryFails
<1>9. CASE RuntimeReleased
  BY <1>9 DEF RuntimeReleased
<1>10. CASE RuntimeJoinsProducer
  <2>1. CASE runtime.completed
    BY <1>3, <1>10, <2>1 DEF RuntimeJoinsProducer
  <2>2. CASE ~runtime.completed
    <3>1. /\ runtime.at = "joining" /\ runtime'.at = "holding"
          /\ runtime'.span = runtime.span /\ runtime'.completed = runtime.completed
          /\ UNCHANGED <<consumer, producer>>
      BY <1>0, <1>10, <2>2 DEF RuntimeJoinsProducer, RuntimeRunsAt, RuntimeAt, RuntimeStates
    <3> QED
      BY <1>1, <1>2, <2>2, <3>1
  <2> QED
    BY <2>1, <2>2
<1>11. CASE RuntimeReleasedLate
  BY <1>11 DEF RuntimeReleasedLate
<1>12. CASE ConsumerPuts
  <2>1. /\ runtime'.at \in {"getting", "awaiting"}
        /\ runtime'.span = runtime.span /\ runtime'.completed = runtime.completed
        /\ consumer'.cancelled = consumer.cancelled /\ UNCHANGED producer
    BY <1>0, <1>12 DEF ConsumerPuts, RuntimeStates, ConsumerStates
  <2> QED
    BY <1>1, <1>2, <2>1
<1>13. CASE ConsumerPutsFailure
  <2>1. consumer'.cancelled = consumer.cancelled /\ UNCHANGED <<runtime, producer>>
    BY <1>0, <1>13 DEF ConsumerPutsFailure, ConsumerStates
  <2> QED
    BY <1>1, <1>2, <2>1
<1>14. CASE RuntimeCancelled
  <2>1. service.detached /\ runtime.at # "holding"
    BY <1>14 DEF RuntimeCancelled
  <2>2. CASE RuntimeAt("setup") /\ RuntimeLeaves("cancelled") /\ UNCHANGED producer
    BY <1>3, <2>2 DEF RuntimeAt
  <2> DEFINE completed == runtime.completed \/ RuntimeAt("joining")
  <2>3. CASE /\ RuntimeFinally("cancelled", completed)
             /\ consumer' = [consumer EXCEPT !.cancelled = FALSE]
    <3>1. ~consumer'.cancelled /\ completed \in BOOLEAN /\ (runtime.completed => completed)
      BY <1>0, <2>3 DEF ConsumerStates, RuntimeStates, RuntimeAt
    <3> HIDE DEF completed
    <3> QED
      BY <1>4, <2>1, <2>3, <3>1
  <2> QED
    BY <1>14, <2>1, <2>2, <2>3 DEF RuntimeCancelled, RuntimeAt
<1>15. CASE ConsumerCancelled
  <2>1. /\ ~consumer'.cancelled /\ UNCHANGED producer
        /\ runtime'.at = runtime.at \/ runtime'.at = "abandoned"
        /\ runtime'.span = runtime.span /\ runtime'.completed = runtime.completed
    BY <1>0, <1>15 DEF ConsumerCancelled, RuntimeStates
  <2>2. service.detached
    BY <1>15 DEF ConsumerCancelled
  <2> QED
    BY <1>1, <1>2, <2>1, <2>2
<1>16. CASE RuntimeFinalised
  BY <1>16 DEF RuntimeFinalised, Pending
<1> QED
  BY <1>5, <1>6, <1>7, <1>8, <1>9, <1>10, <1>11, <1>12, <1>13, <1>14, <1>15, <1>16 DEF Runtime

\* The steps of the service that leave the outcome pending.
LEMMA SpanService ==
    ASSUME TypeInv, ConsumerInv, SpanHeld, Pending', Service
    PROVE  SpanHeld'
<1>0. /\ runtime \in RuntimeStates /\ consumer \in ConsumerStates
      /\ service \in ServiceStates
  BY DEF TypeInv, TypeOK, ConsumerTypes
<1>1. UNCHANGED producer
  BY DEF Service, OutsideService, agentVars, ServiceStarts, ServiceOpensRuntime, ServiceWaits,
         ServiceDeadline, ServiceForwards, ServiceSumsUp, ServiceReportsFailure,
         ServiceSumsUpFallback, ServiceFinishes, ServiceCleansUp, ServiceReturns
<1> USE DEF SpanHeld, CutShort, Unopened
<1>2. CASE ServiceStarts
  <2>1. service.at = "created" /\ service'.at = "atSession"
          /\ service'.detached = service.detached
    BY <1>0, <1>2 DEF ServiceStarts, ResumedAt, Yields, ServiceStates
  <2>2. UNCHANGED <<runtime, consumer, completion>>
    BY <1>2 DEF ServiceStarts, innerVars, outcomeVars
  <2> QED
    BY <1>1, <2>1, <2>2
<1>3. CASE ServiceOpensRuntime
  <2>1. /\ service.at = "atSession" /\ service'.at = "waiting"
        /\ service'.detached = service.detached
        /\ runtime'.at = "setup" /\ runtime'.span = runtime.span
        /\ runtime'.completed = runtime.completed
        /\ consumer'.cancelled = consumer.cancelled /\ UNCHANGED completion
    BY <1>0, <1>3 DEF ServiceOpensRuntime, ResumedAt, ServiceStates, RuntimeStates,
                      ConsumerStates, outcomeVars
  <2> QED
    BY <1>1, <2>1
<1>4. CASE ServiceDeadline
  <2>1. /\ service.at \in {"waiting", "atEvent"}
        /\ service'.at = "atError" /\ service'.detached
        /\ UNCHANGED <<runtime, completion>>
    BY <1>0, <1>4 DEF ServiceDeadline, LoopTop, ResumedAt, YieldsError, Yields, ServiceStates,
                      outcomeVars
  <2>2. ~CutShort
    BY <2>1
  <2> QED
    BY <1>1, <2>1, <2>2
<1>5. CASE \/ ServiceWaits \/ ServiceForwards \/ ServiceSumsUp \/ ServiceReportsFailure
           \/ ServiceSumsUpFallback \/ ServiceFinishes
  <2>1. UNCHANGED <<runtime, consumer, completion>>
    BY <1>5 DEF ServiceWaits, ServiceForwards, ServiceSumsUp, ServiceReportsFailure,
                ServiceSumsUpFallback, ServiceFinishes, innerVars, outcomeVars
  <2>2. service.at \in {"waiting", "atEvent", "atFallback", "atMetadata", "atError"}
    BY <1>5 DEF ServiceWaits, ServiceForwards, ServiceSumsUp, ServiceReportsFailure, Takes,
                ServiceSumsUpFallback, ServiceFinishes, LoopTop, ResumedAt
  <2>3. /\ service'.at \in {"waiting", "atEvent", "atFallback", "atMetadata", "atError", "atDone"}
        /\ service'.detached => service.detached
        /\ service'.detached \/ ~service.detached
        /\ service'.detached => service'.at = "atDone"
    <3>1. CASE ServiceFinishes
      BY <1>0, <3>1 DEF ServiceFinishes, ResumedAt, Yields, ServiceStates
    <3>2. CASE ServiceReportsFailure
      BY <1>0, <3>2 DEF ServiceReportsFailure, Takes, LoopTop, ResumedAt, YieldsError, Yields,
                        ServiceStates
    <3>3. CASE ServiceWaits \/ ServiceForwards
      BY <1>0, <3>3 DEF ServiceWaits, ServiceForwards, Takes, LoopTop, ResumedAt, Yields,
                        ServiceStates
    <3>4. CASE ServiceSumsUp \/ ServiceSumsUpFallback
      BY <1>0, <3>4 DEF ServiceSumsUp, ServiceSumsUpFallback, Takes, LoopTop, ResumedAt,
                        YieldsSummary, Yields, ServiceStates
    <3> QED
      BY <1>5, <3>1, <3>2, <3>3, <3>4
  <2> QED
    BY <1>1, <2>1, <2>2, <2>3
<1>6. CASE ServiceCleansUp
  BY <1>6, FinallyEnds DEF ServiceCleansUp, Pending
<1>7. CASE ServiceReturns
  BY <1>0, <1>7 DEF ServiceReturns, ServiceStates, Pending
<1> QED
  BY <1>2, <1>3, <1>4, <1>5, <1>6, <1>7 DEF Service

LEMMA SpanStep == TypeInv /\ ConsumerInv /\ SpanInv /\ [Next]_vars => SpanInv'
<1> SUFFICES ASSUME TypeInv, ConsumerInv, SpanInv, [Next]_vars, Pending' PROVE SpanHeld'
  BY DEF SpanInv
<1>1. Pending /\ SpanHeld
  BY Over DEF SpanInv
<1>2. CASE UNCHANGED <<producer, runtime, consumer, service, completion>>
  BY <1>1, <1>2 DEF SpanHeld, CutShort, Unopened
<1>3. UNCHANGED vars => UNCHANGED <<producer, runtime, consumer, service, completion>>
  BY DEF vars, agentVars, innerVars, outcomeVars
<1>4. CASE Agent \/ ProducerPuts \/ ProducerHonoursCancel \/ Tools
  BY <1>1, <1>4, SpanAgent
<1>5. CASE Runtime
  BY <1>1, <1>5, SpanRuntime
<1>6. CASE Service
  BY <1>1, <1>6, SpanService
<1>7. CASE ReaderCancelsService
  <2>1. ~ServiceFinally
    BY FinallyEnds DEF Pending
  <2>2. service.at = "joining"
    BY <1>7, <2>1 DEF ReaderCancelsService, ResumedAt
  <2> QED
    BY <1>1, <2>2 DEF Pending
<1>8. CASE ReaderClosesService
  <2>1. ~ServiceFinally
    BY FinallyEnds DEF Pending
  <2>2. service' = [service EXCEPT !.at = "closed"]
    BY <1>8, <2>1 DEF ReaderClosesService
  <2> QED
    BY <2>2 DEF Pending, TypeInv, TypeOK, ServiceStates
<1>9. CASE ReaderPulls \/ ReaderTakes \/ ReaderSent \/ ReaderStops \/ ReaderSeesDisconnect
             \/ ReaderLeaves \/ ReaderPings
  <2>1. OnlyReader
    BY <1>9 DEF ReaderPulls, ReaderTakes, ReaderSent, ReaderStops, ReaderSeesDisconnect,
                ReaderLeaves, ReaderPings
  <2> QED
    BY <1>2, <2>1 DEF OnlyReader, OutsideReader, agentVars
<1>10. CASE ClientDisconnects \/ DeadlinePasses
  BY <1>2, <1>10 DEF ClientDisconnects, DeadlinePasses, OutsideReader, OutsideService, agentVars,
                     innerVars
<1> QED
  BY <1>3, <1>2, <1>4, <1>5, <1>6, <1>7, <1>8, <1>9, <1>10 DEF Next, Reader, ResponseOver

\* The outcome is recorded once, and on a span that is open: the runtime holds it
\* for as long as the service has not recorded, whatever cut the turn short.
THEOREM OutcomeAlwaysInsideSpan == Spec => OutcomeInsideSpan
<1> DEFINE Inside == \/ runtime.span
                     \/ producer.at = "none"
                     \/ runtime.completed
           OnceInside == observed' # observed => observed = "open" /\ Inside
<1>1. TypeInv /\ OutcomeInv /\ SpanInv /\ [Next]_vars => [OnceInside]_vars
  <2> SUFFICES ASSUME TypeInv, OutcomeInv, SpanInv, [Next]_vars, observed' # observed
               PROVE  observed = "open" /\ Inside
    OBVIOUS
  <2>1. service.at = "atDone" \/ service.at \in AtYield \cup {"waiting"}
    BY RecordedOnce DEF Records
  <2>2. Pending
    BY <2>1 DEF Pending, AtYield
  <2>3. observed = "open"
    BY <2>1 DEF OutcomeInv, AtYield
  <2>4. Inside
    BY <2>2 DEF SpanInv, SpanHeld
  <2> QED
    BY <2>3, <2>4
<1> QED
  BY <1>1, TypeInit, StreamInit, OutcomeInit, ConsumerInit, SpanInit, TypeStep, StreamStep,
     OutcomeStep, ConsumerStep, SpanStep, PTL DEF Spec, OutcomeInsideSpan

-----------------------------------------------------------------------------
(* The reader.  It has asked for a frame, or holds one, and never both; past *)
(* its reading loop nothing is added to what it has taken.                   *)

ReaderInv ==
    /\ reader.pulling => ~reader.pending
    /\ reader.at \in {"top", "sending"} => ~reader.pulling /\ ~reader.pending
    /\ reader.at \in {"awaiting", "pinging"} =>
         reader.pulling \/ reader.pending \/ service.at = "closed"
    /\ service.at = "waiting" => reader.pulling
    /\ reader.at = "closed" => service.at = "closed"
RouteInv ==
    /\ route = "json" => connected
    /\ ~Pending /\ connected => Finished
    /\ reader.reply # 0 => reader.at = "closed"

LEMMA ReaderInit == Init => ReaderInv /\ RouteInv
BY DEF Init, ReaderInv, RouteInv, Pending

\* A yield hands a frame to the reader that asked for it.
Delivers == /\ Pending /\ reader.pulling
            /\ reader' = [reader EXCEPT !.pulling = FALSE, !.pending = TRUE]

LEMMA YieldReader == TypeInv /\ ReaderInv /\ Yielding => Delivers
<1> SUFFICES ASSUME TypeInv, ReaderInv, Yielding PROVE Delivers
  OBVIOUS
<1>1. reader.pulling
  BY DEF Yielding, ReaderInv, ServiceStarts, ServiceDeadline, ServiceForwards, ServiceSumsUp,
         ServiceReportsFailure, ServiceSumsUpFallback, ServiceFinishes, Takes, LoopTop,
         ResumedAt
<1>2. reader' = [reader EXCEPT !.pulling = FALSE, !.pending = TRUE]
  BY DEF Yielding, ServiceStarts, ServiceDeadline, ServiceForwards, ServiceSumsUp,
         ServiceReportsFailure, ServiceSumsUpFallback, ServiceFinishes, YieldsSummary,
         YieldsError, Yields
<1> QED
  BY <1>1, <1>2, YieldingPending DEF Delivers

\* The steps that neither yield nor move the reader out of its place.
LEMMA QuietReader ==
    TypeInv /\ [Next]_vars /\ ~Yielding
      => \/ UNCHANGED reader
         \/ Reader \/ ReaderPings
         \/ ServiceCleansUp \/ ServiceReturns
<1> SUFFICES ASSUME [Next]_vars, ~Yielding
             PROVE  \/ UNCHANGED reader
                    \/ Reader \/ ReaderPings
                    \/ ServiceCleansUp \/ ServiceReturns
  OBVIOUS
<1>1. CASE Agent \/ ProducerPuts \/ ProducerHonoursCancel \/ Tools
  BY <1>1, AgentOutside DEF OutsideAgent
<1>2. CASE Runtime
  BY <1>2 DEF Runtime, OutsideRuntime, RuntimeStarts, RuntimeSetupFails, RuntimeYields,
              RuntimeSummaryFails, RuntimeReleased, RuntimeJoinsProducer,
              RuntimeReleasedLate, ConsumerPuts, ConsumerPutsFailure, RuntimeCancelled,
              ConsumerCancelled, RuntimeFinalised
<1>3. CASE ServiceOpensRuntime \/ ServiceWaits \/ DeadlinePasses \/ ClientDisconnects
  BY <1>3 DEF ServiceOpensRuntime, ServiceWaits, DeadlinePasses, ClientDisconnects
<1>4. CASE UNCHANGED vars
  BY <1>4 DEF vars
<1> QED
  BY <1>1, <1>2, <1>3, <1>4 DEF Next, Service, Yielding, ResponseOver

LEMMA ReaderStep == TypeInv /\ ReaderInv /\ [Next]_vars => ReaderInv'
<1> SUFFICES ASSUME TypeInv, ReaderInv, [Next]_vars PROVE ReaderInv'
  OBVIOUS
<1>0. reader \in ReaderStates /\ service \in ServiceStates
  BY DEF TypeInv, TypeOK, ReaderTypes
<1> USE DEF ReaderInv
<1>1. CASE Yielding
  <2>1. /\ ~reader'.pulling /\ reader'.pending /\ reader'.at = reader.at
        /\ reader.pulling /\ reader.at # "closed"
    BY <1>0, <1>1, YieldReader DEF Delivers, ReaderStates, Pending
  <2>2. service'.at # "waiting"
    BY <1>0, <1>1 DEF Yielding, ServiceStarts, ServiceDeadline, ServiceForwards, ServiceSumsUp,
         ServiceReportsFailure, ServiceSumsUpFallback, ServiceFinishes, YieldsSummary,
         YieldsError, Yields, ServiceStates
  <2> QED
    BY <2>1, <2>2
<1>2. CASE ~Yielding /\ UNCHANGED reader
  <2>1. /\ service.at = "closed" => service'.at = "closed"
        /\ service'.at = "waiting" => service.at = "waiting" \/ reader.pulling
    <3>1. service'.at = "waiting" => service.at = "waiting" \/ ServiceOpensRuntime \/ ServiceWaits
      <4>1. CASE Service
        BY <1>0, <1>2, <4>1, FinallyEnds DEF Service, Yielding, ServiceCleansUp, ServiceReturns,
                                             ServiceStates
      <4>2. CASE Reader
        <5>1. CASE ReaderCancelsService
          BY <5>1, FinallyEnds DEF ReaderCancelsService
        <5>2. CASE ReaderClosesService
          BY <1>0, <5>2, FinallyEnds DEF ReaderClosesService, ServiceStates
        <5>3. CASE ReaderPulls \/ ReaderTakes \/ ReaderSent \/ ReaderStops
                     \/ ReaderSeesDisconnect \/ ReaderLeaves
          BY <5>3 DEF ReaderPulls, ReaderTakes, ReaderSent, ReaderStops, ReaderSeesDisconnect,
                      ReaderLeaves, OnlyReader
        <5> QED
          BY <4>2, <5>1, <5>2, <5>3 DEF Reader
      <4>3. CASE Agent \/ ProducerPuts \/ ProducerHonoursCancel \/ Tools
        BY <4>3, AgentOutside DEF OutsideAgent
      <4>4. CASE Runtime
        BY <4>4 DEF Runtime, OutsideRuntime, RuntimeStarts, RuntimeSetupFails, RuntimeYields,
              RuntimeSummaryFails, RuntimeReleased, RuntimeJoinsProducer,
              RuntimeReleasedLate, ConsumerPuts, ConsumerPutsFailure, RuntimeCancelled,
              ConsumerCancelled, RuntimeFinalised
      <4>5. CASE DeadlinePasses \/ ReaderPings \/ ClientDisconnects
        BY <4>5 DEF DeadlinePasses, ReaderPings, OnlyReader, ClientDisconnects
      <4>6. UNCHANGED vars => UNCHANGED service
        BY DEF vars
      <4> QED
        BY <4>1, <4>2, <4>3, <4>4, <4>5, <4>6 DEF Next, ResponseOver
    <3>2. ServiceOpensRuntime \/ ServiceWaits => reader.pulling
      BY DEF ServiceOpensRuntime, ServiceWaits, LoopTop, ResumedAt
    <3>3. service.at = "closed" => service'.at = "closed"
      BY <1>2, QuietSteps DEF QuietStep
    <3> QED
      BY <3>1, <3>2, <3>3
  <2> QED
    BY <1>2, <2>1
<1>3. CASE ServiceCleansUp
  <2>1. /\ reader.pulling /\ reader'.at = reader.at /\ reader'.pending = reader.pending
        /\ reader'.pulling = ~service.detached
        /\ service.at = "atDone"
    BY <1>0, <1>3 DEF ServiceCleansUp, ResumedAt, ReaderStates
  <2>2. service'.at = IF service.detached THEN "closed" ELSE "joining"
    BY <1>0, <1>3 DEF ServiceCleansUp, ServiceFinally, ServiceStates
  <2> QED
    BY <2>1, <2>2
<1>4. CASE ServiceReturns
  <2>1. service'.at = "closed" /\ reader'.at = reader.at /\ reader'.pending = reader.pending
          /\ ~reader'.pulling
    BY <1>0, <1>4 DEF ServiceReturns, ServiceStates, ReaderStates
  <2> QED
    BY <2>1
<1>5. CASE ReaderCancelsService
  <2>1. reader'.at = "closing" /\ ~reader'.pulling /\ reader'.pending = reader.pending
    BY <1>0, <1>5 DEF ReaderCancelsService, ReaderStates
  <2>2. service'.at # "waiting"
    BY <1>5, FinallyEnds DEF ReaderCancelsService, ResumedAt
  <2> QED
    BY <2>1, <2>2
<1>6. CASE ReaderClosesService
  <2>1. reader.at = "closing" /\ ~reader.pulling /\ UNCHANGED reader
    BY <1>6 DEF ReaderClosesService
  <2>2. service'.at # "waiting"
    BY <1>0, <1>6, FinallyEnds DEF ReaderClosesService, ServiceStates
  <2> QED
    BY <2>1, <2>2
<1>7. CASE ReaderPulls \/ ReaderTakes \/ ReaderSent \/ ReaderStops \/ ReaderSeesDisconnect
             \/ ReaderLeaves \/ ReaderPings
  <2>1. UNCHANGED service
    BY <1>7 DEF ReaderPulls, ReaderTakes, ReaderSent, ReaderStops, ReaderSeesDisconnect,
                ReaderLeaves, ReaderPings, OnlyReader
  <2>2. CASE ReaderPulls \/ ReaderTakes
    BY <1>0, <2>1, <2>2 DEF ReaderPulls, ReaderTakes, ReaderStates
  <2>3. CASE ReaderSent \/ ReaderPings
    BY <1>0, <2>1, <2>3 DEF ReaderSent, ReaderPings, ReaderStates
  <2>4. CASE ReaderStops
    <3>1. /\ reader.at = "awaiting" /\ ~reader.pulling /\ ~reader.pending
          /\ reader'.at = "closed" /\ ~reader'.pulling /\ ~reader'.pending
      BY <1>0, <2>4 DEF ReaderStops, ReaderStates
    <3> QED
      BY <2>1, <3>1
  <2>5. CASE ReaderSeesDisconnect \/ ReaderLeaves
    <3>1. /\ reader'.pulling = reader.pulling /\ reader'.pending = reader.pending
          /\ reader'.at = "closing" \/ (reader'.at = "closed" /\ service.at = "closed")
      BY <1>0, <2>5 DEF ReaderSeesDisconnect, ReaderLeaves, ReaderStates
    <3> QED
      BY <2>1, <3>1
  <2> QED
    BY <1>7, <2>2, <2>3, <2>4, <2>5
<1> QED
  BY <1>1, <1>2, <1>3, <1>4, <1>5, <1>6, <1>7, QuietReader DEF Reader

\* What is put in front of a reader that is leaving, or has left, is not taken.
LEMMA NothingTaken ==
    ASSUME TypeInv, ReaderInv, [Next]_vars, reader.at \in {"closing", "closed"}
    PROVE  Taken' = Taken
<1>0. reader \in ReaderStates /\ frames \in Seq(Frames)
  BY DEF TypeInv, TypeOK, ReaderTypes
<1>1. CASE Yielding
  <2>1. reader.pulling /\ ~reader.pending /\ reader'.pending
    BY <1>0, <1>1, YieldReader DEF Delivers, ReaderInv, ReaderStates
  <2>2. \E f : frames' = Append(frames, f)
    BY <1>1 DEF Yielding, ServiceStarts, ServiceDeadline, ServiceForwards, ServiceSumsUp,
         ServiceReportsFailure, ServiceSumsUpFallback, ServiceFinishes, YieldsSummary,
         YieldsError, Yields
  <2>3. Len(frames') = Len(frames) + 1 /\ Len(frames) \in Nat
    BY <1>0, <2>2
  <2> QED
    BY <2>1, <2>3 DEF Taken
<1>2. CASE ~Yielding
  <2>1. UNCHANGED frames
    BY <1>2, QuietSteps DEF QuietStep
  <2>2. reader'.pending = reader.pending
    <3>1. CASE ServiceCleansUp \/ ServiceReturns
      BY <1>0, <3>1 DEF ServiceCleansUp, ServiceReturns, ReaderStates
    <3>2. CASE ReaderCancelsService \/ ReaderClosesService
      BY <1>0, <3>2 DEF ReaderCancelsService, ReaderClosesService, ReaderStates
    <3>3. CASE ReaderSeesDisconnect \/ ReaderLeaves
      BY <1>0, <3>3 DEF ReaderSeesDisconnect, ReaderLeaves, ReaderStates
    <3>4. ~(ReaderPulls \/ ReaderTakes \/ ReaderSent \/ ReaderStops \/ ReaderPings)
      BY DEF ReaderPulls, ReaderTakes, ReaderSent, ReaderStops, ReaderPings
    <3> QED
      BY <1>2, <3>1, <3>2, <3>3, <3>4, QuietReader DEF Reader
  <2> QED
    BY <2>1, <2>2 DEF Taken
<1> QED
  BY <1>1, <1>2

LEMMA ReaderInvariant == Spec => []ReaderInv
BY TypeInit, TypeStep, ReaderInit, ReaderStep, PTL DEF Spec

\* ADR-0049: once the reader has seen the disconnect it hands over no further
\* frame, the one that was on its way to it included.
THEOREM AlwaysSilentAfterDisconnect == Spec => SilentAfterDisconnect
<1>1. TypeInv /\ ReaderInv /\ [Next]_vars
        => [reader.at \in {"closing", "closed"} => (Taken' = Taken)]_vars
  BY NothingTaken
<1> QED
  BY <1>1, TypeInvariant, ReaderInvariant, PTL DEF Spec, SilentAfterDisconnect

\* Only the SSE client leaves, and only a stream that went through `done`, or a
\* leaving client, brings the service to its end.
LEMMA RouteStep ==
    TypeInv /\ StreamInv /\ OutcomeInv /\ ReaderInv /\ RouteInv /\ [Next]_vars => RouteInv'
<1> SUFFICES ASSUME TypeInv, StreamInv, OutcomeInv, ReaderInv, RouteInv, [Next]_vars
             PROVE  RouteInv'
  OBVIOUS
<1>0. reader \in ReaderStates /\ service \in ServiceStates
  BY DEF TypeInv, TypeOK, ReaderTypes
<1>1. UNCHANGED route /\ (UNCHANGED connected \/ route = "sse")
  <2>1. CASE Agent \/ ProducerPuts \/ ProducerHonoursCancel \/ Tools
    BY <2>1, AgentOutside DEF OutsideAgent, clientVars
  <2>2. CASE Runtime
    BY <2>2 DEF Runtime, OutsideRuntime, clientVars, RuntimeStarts, RuntimeSetupFails,
                RuntimeYields, RuntimeSummaryFails, RuntimeReleased, RuntimeJoinsProducer,
                RuntimeReleasedLate, ConsumerPuts, ConsumerPutsFailure, RuntimeCancelled,
                ConsumerCancelled, RuntimeFinalised
  <2>3. CASE Service \/ DeadlinePasses
    BY <2>3 DEF Service, DeadlinePasses, OutsideService, clientVars, ServiceStarts,
                ServiceOpensRuntime, ServiceWaits, ServiceDeadline, ServiceForwards,
                ServiceSumsUp, ServiceReportsFailure, ServiceSumsUpFallback,
                ServiceFinishes, ServiceCleansUp, ServiceReturns
  <2>4. CASE Reader \/ ReaderPings \/ ClientDisconnects
    BY <2>4 DEF Reader, ReaderPulls, ReaderTakes, ReaderSent, ReaderStops, ReaderSeesDisconnect,
                ReaderLeaves, ReaderPings, OnlyReader, ReaderCancelsService, ReaderClosesService,
                ClientDisconnects, OutsideReader
  <2>5. UNCHANGED vars => UNCHANGED <<route, connected>>
    BY DEF vars, clientVars
  <2> QED
    BY <2>1, <2>2, <2>3, <2>4, <2>5 DEF Next, ResponseOver
<1>2. connected' => connected
  BY Leaving
<1>3. ~Pending' /\ connected' => Finished'
  <2> SUFFICES ASSUME ~Pending', connected' PROVE Finished'
    OBVIOUS
  <2>1. CASE ~Pending
    <3>1. Finished /\ UNCHANGED frames
      BY <1>2, <2>1, Over DEF RouteInv
    <3> QED
      BY <3>1 DEF Finished
  <2>2. CASE Pending
    <3>1. service.at = "atDone" \/ reader.at = "closing"
      BY <2>2, ServiceEnds
    <3>2. reader.at # "closing"
      BY <1>2 DEF OutcomeInv
    <3>3. Finished
      BY <3>1, <3>2 DEF StreamInv
    <3>4. UNCHANGED frames
      BY YieldingPending, QuietSteps DEF QuietStep
    <3> QED
      BY <3>3, <3>4 DEF Finished
  <2> QED
    BY <2>1, <2>2
<1>4. reader'.reply # 0 => reader'.at = "closed"
  <2>1. CASE Yielding
    BY <1>0, <2>1, YieldReader DEF Delivers, RouteInv, ReaderStates
  <2>2. CASE ServiceCleansUp \/ ServiceReturns
    BY <1>0, <2>2 DEF ServiceCleansUp, ServiceReturns, ReaderStates, RouteInv
  <2>3. CASE ReaderStops
    BY <1>0, <2>3 DEF ReaderStops, ReaderStates
  <2>4. CASE ReaderPulls \/ ReaderTakes \/ ReaderSent \/ ReaderPings
    BY <1>0, <2>4 DEF ReaderPulls, ReaderTakes, ReaderSent, ReaderPings, ReaderStates, RouteInv
  <2>5. CASE ReaderSeesDisconnect \/ ReaderLeaves \/ ReaderCancelsService \/ ReaderClosesService
    BY <1>0, <2>5 DEF ReaderSeesDisconnect, ReaderLeaves, ReaderCancelsService,
                      ReaderClosesService, ReaderStates, RouteInv
  <2>6. CASE UNCHANGED reader
    BY <2>6 DEF RouteInv
  <2> QED
    BY <2>1, <2>2, <2>3, <2>4, <2>5, <2>6, QuietReader DEF Reader
<1> QED
  BY <1>1, <1>3, <1>4 DEF RouteInv

-----------------------------------------------------------------------------
(* The JSON reply, folded from the frames of a finished turn.               *)

LEMMA FoldedReply ==
    ASSUME TypeInv, FramesInv, Finished, FoldedStatus # 0
    PROVE  /\ FoldedStatus = 200 <=> Holds("metadata")
           /\ FoldedStatus # 200 =>
                \E i \in 1..Len(frames) : frames[i] = ErrorFrame(FoldedStatus)
<1> DEFINE errors == {i \in 1..Len(frames) : frames[i].type = "error"}
<1>1. Holds("error") <=> errors # {}
  BY DEF Holds
<1>2. Holds("metadata") <=> ~Holds("error")
  BY DEF FramesInv, SummedInv, EndsIn, Finished, DoneFrame
<1>3. CASE errors = {}
  <2>1. FoldedStatus = 200
    BY <1>3 DEF FoldedStatus
  <2> QED
    BY <1>1, <1>2, <1>3, <2>1
<1>4. CASE errors # {}
  <2> DEFINE i == CHOOSE j \in errors : TRUE
  <2>1. i \in errors
    BY <1>4
  <2>2. FoldedStatus = frames[i].status
    BY <1>4 DEF FoldedStatus
  <2>3. i \in 1..Len(frames) /\ frames[i].type = "error" /\ frames[i] \in Frames
    BY <2>1 DEF TypeInv, TypeOK, ReaderTypes
  <2> HIDE DEF i, errors
  <2>4. frames[i] = ErrorFrame(frames[i].status)
    BY <2>3 DEF Frames, PublicItems, Token, ToolEvent, SessionFrame, MetadataFrame, ErrorFrame,
                DoneFrame
  <2>5. frames[i].status # 200
    BY <2>3, ErrorStatus DEF ErrorStatuses
  <2> QED
    BY <1>1, <1>2, <1>4, <2>2, <2>3, <2>4, <2>5
<1> QED
  BY <1>3, <1>4

LEMMA ReplyStep ==
    TypeInv /\ ReaderInv /\ RouteInv /\ FramesInv /\ ReplyMatchesStream /\ [Next]_vars
      => ReplyMatchesStream'
<1> SUFFICES ASSUME TypeInv, ReaderInv, RouteInv, FramesInv, ReplyMatchesStream, [Next]_vars,
                    reader'.reply # 0
             PROVE  /\ Finished'
                    /\ reader'.reply = 200 <=> Holds("metadata")'
                    /\ reader'.reply # 200 =>
                         \E i \in 1..Len(frames') : frames'[i] = ErrorFrame(reader'.reply)
  BY DEF ReplyMatchesStream
<1>0. reader \in ReaderStates
  BY DEF TypeInv, TypeOK, ReaderTypes
<1>1. CASE reader'.reply = reader.reply
  <2>1. service.at = "closed"
    BY <1>1 DEF ReaderInv, RouteInv
  <2>2. UNCHANGED frames
    BY <2>1, Over DEF Pending
  <2> QED
    BY <1>1, <2>2 DEF ReplyMatchesStream, Finished, Holds
<1>2. CASE reader'.reply # reader.reply
  <2>1. ReaderStops
    <3>1. ~Yielding
      BY <1>0, <1>2, YieldReader DEF Delivers, ReaderStates
    <3>2. ~(ServiceCleansUp \/ ServiceReturns)
      BY <1>0, <1>2 DEF ServiceCleansUp, ServiceReturns, ReaderStates
    <3>3. ~(ReaderPulls \/ ReaderTakes \/ ReaderSent \/ ReaderPings)
      BY <1>0, <1>2 DEF ReaderPulls, ReaderTakes, ReaderSent, ReaderPings, ReaderStates
    <3>4. ~(ReaderSeesDisconnect \/ ReaderLeaves \/ ReaderCancelsService \/ ReaderClosesService)
      BY <1>0, <1>2 DEF ReaderSeesDisconnect, ReaderLeaves, ReaderCancelsService,
                        ReaderClosesService, ReaderStates
    <3> QED
      BY <1>2, <3>1, <3>2, <3>3, <3>4, QuietReader DEF Reader
  <2>2. /\ reader.at = "awaiting" /\ ~reader.pulling /\ ~reader.pending
        /\ reader'.reply = IF route = "json" THEN FoldedStatus ELSE 0
        /\ UNCHANGED frames
    BY <1>0, <2>1 DEF ReaderStops, ReaderStates, OnlyReader, OutsideReader
  <2>3. route = "json" /\ reader'.reply = FoldedStatus
    BY <2>2
  <2>4. Finished
    <3>1. service.at = "closed" /\ connected
      BY <2>2, <2>3 DEF ReaderInv, RouteInv
    <3> QED
      BY <3>1 DEF RouteInv, Pending
  <2>5. /\ FoldedStatus = 200 <=> Holds("metadata")
        /\ FoldedStatus # 200 =>
             \E i \in 1..Len(frames) : frames[i] = ErrorFrame(FoldedStatus)
    BY <2>3, <2>4, FoldedReply
  <2> QED
    BY <2>2, <2>3, <2>4, <2>5 DEF Finished, Holds
<1> QED
  BY <1>1, <1>2

\* The JSON route answers after `done` only: 200 for a turn that was summed up, and
\* for any other the status of the error its stream reported.
THEOREM ReplyAlwaysMatchesStream == Spec => []ReplyMatchesStream
<1>1. Init => ReplyMatchesStream
  BY DEF Init, ReplyMatchesStream
<1> QED
  BY <1>1, ReplyStep, TypeInit, TypeStep, StreamInit, StreamStep, OutcomeInit, OutcomeStep,
     ReaderInit, ReaderStep, RouteStep, FramesInvariant, PTL DEF Spec

-----------------------------------------------------------------------------
(* The answer in order.  While the service still forwards, what the agent    *)
(* has put is what was yielded, then what the service's slot, the consume    *)
(* task and the runtime's slot hold, at most one public item each.  Past     *)
(* that what is in flight may be lost, and what was yielded stays the        *)
(* beginning of what was put.                                                *)

Forwarding == service.at \in {"created", "atSession", "waiting", "atEvent"}
Count(q) == IF q # <<>> /\ Head(q) \in PublicItems THEN 1 ELSE 0
Held == IF consumer.item \in PublicItems THEN 1 ELSE 0
Shown == Rank(Len(frames))
Queued == Shown + Count(runtimeEvents)

\* The agent has no more to put.
Quiet == /\ \/ producer.at = "over"
            \/ producer.at = "none" /\ runtime.at = "closed"
         /\ ~ToolsActive

SlotInv == Len(events) <= 1 /\ Len(runtimeEvents) <= 1
ItemInv ==
    /\ consumer.at \notin {"putting", "puttingFailure"} => consumer.item = NoItem
    /\ consumer.at = "puttingFailure" => consumer.item \in Failures /\ runtime.at = "closed"
    /\ consumer.at = "putting" => consumer.item # Exhausted /\ runtime.at = "yielded"
AgentInv ==
    /\ runtime.at \in {"none", "setup"} => producer.at = "none"
    /\ producer.at = "none" =>
         /\ emitted = <<>>
         /\ events = <<>>
         /\ \A c \in Calls : tool[c] = "idle"
    /\ producer.at = "putting" => producer.item.type # "tool"
    /\ (producer.at = "putting" /\ producer.item = Completed) => ~ToolsActive
    /\ (events # <<>> /\ Head(events) = Completed) => (producer.at = "over" /\ ~ToolsActive)
DeliveredInv ==
    /\ \A i \in Delivered(Len(frames)) : frames[i] = emitted[Rank(i)]
    /\ \A n \in 1..Shown : \E i \in Delivered(Len(frames)) : Rank(i) = n
    /\ Shown <= Len(emitted)
FlowInv ==
    Forwarding =>
      /\ Len(emitted) = Queued + Held + Count(events)
      /\ Count(runtimeEvents) = 1 => Head(runtimeEvents) = emitted[Queued]
      /\ Held = 1 => consumer.item = emitted[Queued + 1]
      /\ Count(events) = 1 => Head(events) = emitted[Queued + Held + 1]

\* How the pipeline of a turn that still forwards ends: whatever makes the
\* service sum the turn up comes when the agent has no more to put and nothing
\* is queued behind it.
EndInv ==
    Forwarding =>
      /\ runtime.at \in {"none", "setup"} => runtimeEvents = <<>>
      /\ runtime.at = "joining" => runtime.raises \in FailureKinds
      /\ consumer.item = Metadata => Quiet /\ events = <<>>
      /\ runtimeEvents = <<Metadata>> =>
           Quiet /\ events = <<>> /\ consumer.at = "next" /\ runtime.at = "awaiting"
      /\ runtimeEvents = <<Exhausted>> => consumer.at = "over"
      /\ consumer.at = "over" =>
           \/ \E f \in Failures : runtimeEvents = <<f>>
           \/ Quiet /\ events = <<>> /\ runtimeEvents \in {<<>>, <<Exhausted>>}

SummedUp == service.at = "atFallback" \/ Holds("metadata")
SummaryInv == SummedUp => Quiet /\ Shown = Len(emitted) /\ ~Forwarding

CardOn(c) == {i \in 1..Len(emitted) : emitted[i].type = "tool" /\ emitted[i].call = c}
CardsInv ==
    \A c \in Calls :
      /\ tool[c] \in {"idle", "announcing"} => CardOn(c) = {}
      /\ tool[c] \in {"executing", "ok", "error"} =>
           CardOn(c) # {} /\ \A i \in CardOn(c) : emitted[i].status = "running"
      /\ \A i, j \in CardOn(c) :
           i < j => emitted[i].status = "running" /\ emitted[j].status # "running"
      /\ \A j \in CardOn(c) : emitted[j].status # "running" => \E i \in CardOn(c) : i < j

-----------------------------------------------------------------------------
\* A slot of a queue: a put fills it and a get leaves it empty.
LEMMA SlotPut ==
    ASSUME NEW S, NEW q \in Seq(S), ~Full(q), NEW x
    PROVE  /\ q = <<>> /\ Append(q, x) # <<>> /\ Head(Append(q, x)) = x
           /\ Len(Append(q, x)) = 1 /\ Append(q, x) = <<x>>
<1>1. q = <<>>
  BY DEF Full
<1>2. Append(q, x) = <<x>>
  BY <1>1
<1> QED
  BY <1>1, <1>2

LEMMA SlotTaken ==
    ASSUME NEW S, NEW q \in Seq(S), Len(q) <= 1, q # <<>>
    PROVE  Tail(q) = <<>> /\ Len(q) = 1 /\ Head(q) \in S /\ q = <<Head(q)>>
<1>0. Len(q) \in Nat /\ (Len(q) = 0 => q = <<>>)
  OBVIOUS
<1>1. Len(q) = 1 /\ Head(q) \in S
  BY <1>0
<1>2. Tail(q) \in Seq(S) /\ Len(Tail(q)) = 0
  BY <1>1
<1>3. Tail(q) = <<>>
  BY <1>2
<1>4. q = <<Head(q)>>
  BY <1>1
<1> QED
  BY <1>1, <1>3, <1>4

LEMMA Counts ==
    /\ \A q : Count(q) \in {0, 1}
    /\ Held \in {0, 1}
    /\ Count(<<>>) = 0
BY DEF Count, Held

\* None of the pipeline's marks is a public item.
LEMMA Marks ==
    /\ Completed \notin PublicItems /\ Metadata \notin PublicItems
    /\ Exhausted \notin PublicItems /\ NoItem \notin PublicItems
    /\ \A f \in Failures : f \notin PublicItems
    /\ SessionFrame \notin PublicItems /\ DoneFrame \notin PublicItems
    /\ Token(0) \notin PublicItems
    /\ \A s : MetadataFrame(s) \notin PublicItems
    /\ \A s : ErrorFrame(s) \notin PublicItems
<1>1. \A f \in PublicItems : f.type \in {"token", "tool"} /\ f # Token(0)
  BY PublicKinds
<1>2. \A f \in Failures : f.type = "failed"
  BY DEF Failures, Failed
<1>3. \A s : MetadataFrame(s).type = "metadata" /\ ErrorFrame(s).type = "error"
  BY DEF MetadataFrame, ErrorFrame
<1> QED
  BY <1>1, <1>2, <1>3 DEF Completed, Metadata, Exhausted, NoItem, SessionFrame, DoneFrame

\* Ranks: they count, and a frame appended to the history leaves the ranks of
\* the earlier ones and adds one for itself when it is public.
LEMMA Ranks ==
    /\ \A i \in Nat : IsFiniteSet(Delivered(i)) /\ Rank(i) \in Nat
    /\ \A i, j \in Nat : i <= j => Delivered(i) \subseteq Delivered(j) /\ Rank(i) <= Rank(j)
    /\ \A i, j \in Nat : i < j /\ j \in Delivered(j) => Rank(i) < Rank(j)
    /\ \A i \in Nat : i \in Delivered(i) => Rank(i) >= 1
<1>1. \A i \in Nat : IsFiniteSet(Delivered(i)) /\ Rank(i) \in Nat
  <2> SUFFICES ASSUME NEW i \in Nat PROVE IsFiniteSet(Delivered(i)) /\ Rank(i) \in Nat
    OBVIOUS
  <2>1. IsFiniteSet(1..i)
    BY FS_Interval
  <2>2. IsFiniteSet(Delivered(i))
    BY <2>1, FS_Subset DEF Delivered
  <2> QED
    BY <2>2, FS_CardinalityType DEF Rank
<1>2. \A i, j \in Nat : i <= j => Delivered(i) \subseteq Delivered(j) /\ Rank(i) <= Rank(j)
  <2> SUFFICES ASSUME NEW i \in Nat, NEW j \in Nat, i <= j
               PROVE  Delivered(i) \subseteq Delivered(j) /\ Rank(i) <= Rank(j)
    OBVIOUS
  <2>1. Delivered(i) \subseteq Delivered(j)
    BY DEF Delivered
  <2> QED
    BY <1>1, <2>1, FS_Subset DEF Rank
<1>3. \A i, j \in Nat : i < j /\ j \in Delivered(j) => Rank(i) < Rank(j)
  <2> SUFFICES ASSUME NEW i \in Nat, NEW j \in Nat, i < j, j \in Delivered(j)
               PROVE  Rank(i) < Rank(j)
    OBVIOUS
  <2>1. Delivered(i) \subseteq Delivered(j) \ {j}
    BY DEF Delivered
  <2>2. Cardinality(Delivered(j) \ {j}) = Rank(j) - 1 /\ IsFiniteSet(Delivered(j) \ {j})
    BY <1>1, FS_RemoveElement DEF Rank
  <2>3. Rank(i) <= Rank(j) - 1
    BY <2>1, <2>2, FS_Subset DEF Rank
  <2> QED
    BY <1>1, <2>3
<1>4. \A i \in Nat : i \in Delivered(i) => Rank(i) >= 1
  <2> SUFFICES ASSUME NEW i \in Nat, i \in Delivered(i) PROVE Rank(i) >= 1
    OBVIOUS
  <2>1. Rank(i) # 0
    BY <1>1, FS_EmptySet DEF Rank
  <2> QED
    BY <1>1, <2>1
<1> QED
  BY <1>1, <1>2, <1>3, <1>4

LEMMA RankAppended ==
    ASSUME frames \in Seq(Frames), NEW f, frames' = Append(frames, f)
    PROVE  /\ \A i \in 0..Len(frames) : Delivered(i)' = Delivered(i) /\ Rank(i)' = Rank(i)
           /\ Delivered(Len(frames))' =
                Delivered(Len(frames)) \cup (IF f \in PublicItems THEN {Len(frames) + 1} ELSE {})
           /\ Shown' = Shown + (IF f \in PublicItems THEN 1 ELSE 0)
<1>1. /\ Len(frames') = Len(frames) + 1
      /\ frames'[Len(frames) + 1] = f
      /\ \A j \in 1..Len(frames) : frames'[j] = frames[j]
      /\ Len(frames) \in Nat
  OBVIOUS
<1>2. \A i \in 0..Len(frames) : Delivered(i)' = Delivered(i) /\ Rank(i)' = Rank(i)
  <2> SUFFICES ASSUME NEW i \in 0..Len(frames)
               PROVE  Delivered(i)' = Delivered(i) /\ Rank(i)' = Rank(i)
    OBVIOUS
  <2>1. \A j \in 1..i : frames'[j] = frames[j]
    BY <1>1
  <2>2. Delivered(i)' = Delivered(i)
    BY <2>1 DEF Delivered
  <2> QED
    BY <2>2 DEF Rank
<1>3. Delivered(Len(frames))' =
        Delivered(Len(frames)) \cup (IF f \in PublicItems THEN {Len(frames) + 1} ELSE {})
  BY <1>1 DEF Delivered
<1>4. IsFiniteSet(Delivered(Len(frames))) /\ Len(frames) + 1 \notin Delivered(Len(frames))
  BY <1>1, Ranks DEF Delivered
<1>5. Cardinality(Delivered(Len(frames)) \cup {Len(frames) + 1})
        = Cardinality(Delivered(Len(frames))) + 1
  BY <1>4, FS_AddElement
<1>6. Shown' = Shown + (IF f \in PublicItems THEN 1 ELSE 0)
  <2>1. Shown' = Cardinality(Delivered(Len(frames))')
    BY DEF Shown, Rank
  <2>2. Shown = Cardinality(Delivered(Len(frames))) /\ Shown \in Nat
    BY Ranks, <1>1 DEF Shown, Rank
  <2>3. CASE f \in PublicItems
    BY <2>1, <2>2, <2>3, <1>3, <1>5
  <2>4. CASE f \notin PublicItems
    BY <2>1, <2>2, <2>4, <1>3
  <2> QED
    BY <2>3, <2>4
<1> QED
  BY <1>2, <1>3, <1>6
-----------------------------------------------------------------------------
(* The steps, by what they do to the pipeline.                              *)

AgentSide == Agent \/ ProducerPuts \/ ProducerHonoursCancel \/ Tools

\* The agent's side puts at most one item, in a free slot.
LEMMA AgentPuts ==
    ASSUME TypeInv, AgentSide
    PROVE  /\ UNCHANGED OutsideAgent
           /\ \/ UNCHANGED <<events, emitted>>
              \/ \E item \in EventItems : Puts(item)
<1>1. UNCHANGED OutsideAgent
  BY AgentOutside DEF AgentSide
<1>2. CASE Agent \/ ProducerHonoursCancel
  BY <1>2 DEF Agent, AgentWritesToken, AgentCallsTools, AgentEnds, AgentDies,
              ProducerHonoursCancel
<1>3. CASE ProducerPuts
  <2>1. producer.item \in EventItems
    BY <1>3 DEF ProducerPuts, TypeInv, PutTypes
  <2> QED
    BY <1>3, <2>1 DEF ProducerPuts
<1>4. ASSUME NEW c \in Calls, ToolAnnounces(c) \/ ToolReturns(c) \/ ToolReports(c)
      PROVE  UNCHANGED <<events, emitted>> \/ \E item \in EventItems : Puts(item)
  <2>1. CASE ToolAnnounces(c)
    BY <2>1, MadeItems, Items DEF ToolAnnounces
  <2>2. CASE ToolReturns(c)
    BY <2>2 DEF ToolReturns
  <2>3. CASE ToolReports(c)
    <3>1. ToolEvent(c, tool[c]) \in EventItems
      BY <2>3, MadeItems, Items DEF ToolReports
    <3> QED
      BY <2>3, <3>1 DEF ToolReports
  <2> QED
    BY <1>4, <2>1, <2>2, <2>3
<1> QED
  BY <1>1, <1>2, <1>3, <1>4 DEF AgentSide, Tools

\* The steps that yield: one forwards the item at the head of the service's
\* slot, the others yield a frame that is no public item; none touches the agent.
LEMMA FrameSteps ==
    ASSUME TypeInv, [Next]_vars
    PROVE  \/ UNCHANGED frames
           \/ ServiceForwards
           \/ /\ UNCHANGED agentVars
              /\ \E f \in Frames \ PublicItems : frames' = Append(frames, f)
<1>1. CASE QuietStep
  BY <1>1 DEF QuietStep
<1>2. CASE ServiceForwards
  BY <1>2
<1>3. ASSUME YieldsSummary
      PROVE  \E f \in Frames \ PublicItems : frames' = Append(frames, f)
  BY <1>3, MadeItems, Marks DEF YieldsSummary, Yields
<1>4. ASSUME NEW status \in ErrorStatuses, NEW detach, YieldsError(status, detach)
      PROVE  \E f \in Frames \ PublicItems : frames' = Append(frames, f)
  BY <1>4, MadeItems, Marks DEF YieldsError, Yields
<1>5. CASE ServiceStarts
  BY <1>5, MadeItems, Marks DEF ServiceStarts, Yields, OutsideService
<1>6. CASE ServiceDeadline
  <2>1. 503 \in ErrorStatuses /\ YieldsError(503, TRUE) /\ UNCHANGED agentVars
    BY <1>6 DEF ServiceDeadline, OutsideService, ErrorStatuses
  <2> QED
    BY <2>1, <1>4
<1>7. CASE ServiceSumsUp
  BY <1>7, <1>3 DEF ServiceSumsUp, OutsideService
<1>8. CASE ServiceReportsFailure
  BY <1>8, <1>4, Statuses DEF ServiceReportsFailure, OutsideService
<1>9. CASE ServiceSumsUpFallback
  BY <1>9, <1>3 DEF ServiceSumsUpFallback, OutsideService
<1>10. CASE ServiceFinishes
  BY <1>10, MadeItems, Marks DEF ServiceFinishes, Yields, OutsideService
<1> QED
  BY <1>1, <1>2, <1>5, <1>6, <1>7, <1>8, <1>9, <1>10, QuietSteps DEF Yielding

\* What a service that still forwards has just done, and did before.
LEMMA ForwardingSteps ==
    ASSUME TypeInv, [Next]_vars, Forwarding'
    PROVE  /\ Forwarding
           /\ \/ AgentSide
              \/ Runtime
              \/ ServiceStarts
              \/ ServiceOpensRuntime
              \/ ServiceForwards
              \/ UNCHANGED <<frames, agentVars, innerVars>>
<1>0. service \in ServiceStates
  BY DEF TypeInv, TypeOK
<1>1. CASE UNCHANGED service
  <2>1. Forwarding
    BY <1>1 DEF Forwarding
  <2>2. CASE Service
    BY <1>0, <1>1, <2>2
       DEF Service, ServiceStarts, ServiceOpensRuntime, ServiceWaits, ServiceDeadline,
           ServiceForwards, ServiceSumsUp, ServiceReportsFailure, ServiceSumsUpFallback,
           ServiceFinishes, ServiceCleansUp, ServiceReturns, ServiceFinally, ResumedAt,
           YieldsError, YieldsSummary, Yields, Takes, LoopTop, ServiceStates, Forwarding,
           AtYield
  <2>3. CASE DeadlinePasses
    BY <2>1, <2>3 DEF DeadlinePasses, OutsideService
  <2>4. CASE Reader
    BY <1>0, <1>1, <2>1, <2>4
       DEF Reader, ReaderPulls, ReaderTakes, ReaderSent, ReaderStops, ReaderSeesDisconnect,
           ReaderCancelsService, ReaderClosesService, ReaderLeaves, OnlyReader, OutsideReader,
           ResumedAt, ServiceFinally, ServiceStates, Forwarding, innerVars, agentVars
  <2>5. CASE ReaderPings \/ ClientDisconnects \/ ResponseOver \/ UNCHANGED vars
    BY <2>1, <2>5 DEF ReaderPings, OnlyReader, OutsideReader, ClientDisconnects, ResponseOver, vars,
                innerVars
  <2> QED
    BY <2>1, <2>2, <2>3, <2>4, <2>5 DEF Next, AgentSide
<1>2. CASE service' # service
  <2>1. CASE Service
    <3>1. Forwarding
      BY <1>0, <2>1
         DEF Service, ServiceStarts, ServiceOpensRuntime, ServiceWaits, ServiceDeadline,
             ServiceForwards, ServiceSumsUp, ServiceReportsFailure, ServiceSumsUpFallback,
             ServiceFinishes, ServiceCleansUp, ServiceReturns, ServiceFinally, ResumedAt,
             YieldsError, YieldsSummary, Yields, Takes, LoopTop, ServiceStates, Forwarding
    <3>2. CASE ServiceWaits
      BY <3>1, <3>2 DEF ServiceWaits, OutsideService
    <3>3. \/ ServiceStarts \/ ServiceOpensRuntime \/ ServiceForwards \/ ServiceWaits
      BY <1>0, <2>1
         DEF Service, ServiceDeadline, ServiceSumsUp, ServiceReportsFailure,
             ServiceSumsUpFallback, ServiceFinishes, ServiceCleansUp, ServiceReturns,
             ServiceFinally, YieldsError, YieldsSummary, Yields, ServiceStates, Forwarding
    <3> QED
      BY <3>1, <3>2, <3>3
  <2>2. CASE ReaderCancelsService \/ ReaderClosesService
    BY <1>0, <1>2, <2>2
       DEF ReaderCancelsService, ReaderClosesService, ServiceFinally, ServiceStates, Forwarding
  <2>3. CASE AgentSide \/ Runtime
    <3>1. AgentSide => UNCHANGED service
      BY AgentOutside DEF AgentSide, OutsideAgent
    <3>2. Runtime => UNCHANGED service
      BY DEF Runtime, OutsideRuntime, RuntimeStarts, RuntimeSetupFails, RuntimeYields,
             RuntimeSummaryFails, RuntimeReleased, RuntimeJoinsProducer, RuntimeReleasedLate,
             ConsumerPuts, ConsumerPutsFailure, RuntimeCancelled, ConsumerCancelled,
             RuntimeFinalised
    <3> QED
      BY <1>2, <2>3, <3>1, <3>2
  <2>4. \/ Service \/ ReaderCancelsService \/ ReaderClosesService \/ AgentSide \/ Runtime
    BY <1>2 DEF Next, DeadlinePasses, Reader, ReaderPulls, ReaderTakes, ReaderSent, ReaderStops,
                ReaderSeesDisconnect, ReaderLeaves, OnlyReader, ReaderPings, ClientDisconnects,
                ResponseOver, vars, AgentSide
  <2> QED
    BY <2>1, <2>2, <2>3, <2>4
<1> QED
  BY <1>1, <1>2
\* What the steps outside the agent do to the agent's variables.
LEMMA AgentAlone ==
    ASSUME TypeInv, [Next]_vars
    PROVE  \/ AgentSide
           \/ /\ UNCHANGED <<tokens, tool, emitted>>
              /\ \/ UNCHANGED events
                 \/ events # <<>> /\ events' = Tail(events)
              /\ \/ RuntimeStarts /\ UNCHANGED events
                 \/ producer'.at = producer.at /\ producer'.item = producer.item
<1>0. producer \in ProducerStates
  BY DEF TypeInv, TypeOK, AgentTypes
<1> DEFINE Same == \/ RuntimeStarts /\ UNCHANGED events
                   \/ producer'.at = producer.at /\ producer'.item = producer.item
           Get == UNCHANGED events \/ (events # <<>> /\ events' = Tail(events))
<1>1. ASSUME NEW raises, NEW completed, RuntimeFinally(raises, completed)
      PROVE  producer'.at = producer.at /\ producer'.item = producer.item
  BY <1>0, <1>1 DEF RuntimeFinally, ProducerStates
<1>2. CASE Runtime
  <2>1. UNCHANGED <<tokens, tool, emitted>>
    BY <1>2 DEF Runtime, OutsideRuntime, RuntimeStarts, RuntimeSetupFails, RuntimeYields,
           RuntimeSummaryFails, RuntimeReleased, RuntimeJoinsProducer, RuntimeReleasedLate,
           ConsumerPuts, ConsumerPutsFailure, RuntimeCancelled, ConsumerCancelled,
           RuntimeFinalised
  <2>2. CASE RuntimeStarts \/ RuntimeSetupFails \/ RuntimeYields \/ RuntimeJoinsProducer
               \/ RuntimeReleasedLate \/ ConsumerPuts \/ ConsumerPutsFailure
               \/ ConsumerCancelled \/ RuntimeFinalised
    <3>1. Get
      BY <2>2 DEF RuntimeStarts, RuntimeSetupFails, RuntimeYields, RuntimeJoinsProducer,
             RuntimeReleasedLate, ConsumerPuts, ConsumerPutsFailure, ConsumerCancelled,
             RuntimeFinalised
    <3>2. Same
      BY <2>2 DEF RuntimeStarts, RuntimeSetupFails, RuntimeYields, RuntimeJoinsProducer,
             RuntimeReleasedLate, ConsumerPuts, ConsumerPutsFailure, ConsumerCancelled,
             RuntimeFinalised
    <3> QED
      BY <2>1, <3>1, <3>2
  <2>3. CASE RuntimeSummaryFails
    BY <2>1, <2>3, <1>1 DEF RuntimeSummaryFails
  <2>4. CASE RuntimeReleased
    BY <2>1, <2>4, <1>1 DEF RuntimeReleased
  <2>5. CASE RuntimeCancelled
    BY <2>1, <2>5, <1>1 DEF RuntimeCancelled
  <2> QED
    BY <1>2, <2>2, <2>3, <2>4, <2>5 DEF Runtime
<1>3. CASE Service
  <2>1. UNCHANGED agentVars
    BY <1>3 DEF Service, OutsideService, ServiceStarts, ServiceOpensRuntime, ServiceWaits,
           ServiceDeadline, ServiceForwards, ServiceSumsUp, ServiceReportsFailure,
           ServiceSumsUpFallback, ServiceFinishes, ServiceCleansUp, ServiceReturns
  <2> QED
    BY <2>1 DEF agentVars
<1>4. CASE DeadlinePasses \/ Reader \/ ReaderPings \/ ClientDisconnects \/ ResponseOver
             \/ UNCHANGED vars
  <2>1. UNCHANGED agentVars
    BY <1>4 DEF DeadlinePasses, OutsideService, Reader, ReaderPulls, ReaderTakes, ReaderSent,
           ReaderStops, ReaderSeesDisconnect, ReaderCancelsService, ReaderClosesService,
           ReaderLeaves, ReaderPings, OnlyReader, OutsideReader, ClientDisconnects,
           ResponseOver, vars
  <2> QED
    BY <2>1 DEF agentVars
<1> QED
  BY <1>2, <1>3, <1>4 DEF Next, AgentSide

\* A closed runtime stays closed, and one that has started does not start anew.
LEMMA RuntimeOnce ==
    ASSUME TypeInv, SpanInv, ItemInv, [Next]_vars
    PROVE  /\ runtime.at = "closed" => runtime'.at = "closed"
           /\ runtime'.at \in {"none", "setup"} => runtime.at \in {"none", "setup"}
<1>0. runtime \in RuntimeStates
  BY DEF TypeInv, TypeOK
<1>1. CASE AgentSide
  BY <1>1, AgentPuts DEF OutsideAgent, innerVars
<1>2. CASE Runtime
  <2>1. runtime.at = "closed" => runtime'.at = "closed"
    <3>1. runtime.at = "closed" =>
            /\ ~RuntimeSummaryFails /\ ~RuntimeReleased /\ ~RuntimeYields /\ ~RuntimeStarts
            /\ ~RuntimeSetupFails /\ ~RuntimeJoinsProducer /\ ~RuntimeReleasedLate
            /\ ~RuntimeCancelled /\ ~RuntimeFinalised /\ ~ConsumerPuts
      BY DEF RuntimeStarts, RuntimeSetupFails, RuntimeYields, RuntimeSummaryFails, ItemInv,
         RuntimeReleased, RuntimeJoinsProducer, RuntimeReleasedLate, RuntimeCancelled,
         RuntimeFinalised, RuntimeRunsAt, RuntimeAt, ConsumerPuts
    <3>2. CASE ConsumerPutsFailure \/ ConsumerCancelled
      BY <1>0, <3>2 DEF ConsumerPutsFailure, ConsumerCancelled, RuntimeStates
    <3> QED
      BY <1>2, <3>1, <3>2 DEF Runtime
  <2>2. ASSUME NEW r, RuntimeLeaves(r) PROVE runtime'.at = "closed"
    BY <1>0, <2>2 DEF RuntimeLeaves, RuntimeStates
  <2>3. ASSUME NEW r, NEW d, RuntimeFinally(r, d) PROVE runtime'.at = "joining"
    BY <1>0, <2>3 DEF RuntimeFinally, RuntimeStates
  <2>4. CASE RuntimeSetupFails \/ RuntimeSummaryFails \/ RuntimeReleased
               \/ RuntimeJoinsProducer \/ RuntimeReleasedLate \/ RuntimeCancelled
    <3>1. CASE RuntimeSetupFails \/ RuntimeReleasedLate
      BY <2>1, <2>2, <3>1 DEF RuntimeSetupFails, RuntimeReleasedLate
    <3>2. CASE RuntimeSummaryFails \/ RuntimeReleased
      BY <2>1, <2>3, <3>2 DEF RuntimeSummaryFails, RuntimeReleased
    <3>3. CASE RuntimeJoinsProducer
      BY <1>0, <2>1, <2>2, <3>3 DEF RuntimeJoinsProducer, RuntimeStates
    <3>4. CASE RuntimeCancelled
      BY <2>1, <2>2, <2>3, <3>4 DEF RuntimeCancelled
    <3> QED
      BY <2>4, <3>1, <3>2, <3>3, <3>4
  <2>5. CASE RuntimeStarts \/ RuntimeYields \/ ConsumerPuts \/ ConsumerPutsFailure
               \/ ConsumerCancelled \/ RuntimeFinalised
    <3>1. runtime'.at \in {"none", "setup"} => runtime.at \in {"none", "setup"}
      BY <1>0, <2>5 DEF RuntimeStarts, RuntimeYields, ConsumerPuts, ConsumerPutsFailure,
         ConsumerCancelled, RuntimeFinalised, RuntimeStates
    <3> QED
      BY <2>1, <3>1
  <2> QED
    BY <1>2, <2>1, <2>4, <2>5 DEF Runtime
<1>3. CASE Service
  <2>1. ServiceOpensRuntime => runtime.at = "none"
    BY DEF ServiceOpensRuntime, ResumedAt, SpanInv, SpanHeld, Pending, Unopened
  <2> QED
    BY <1>3, <2>1 DEF Service, innerVars, ServiceStarts, ServiceOpensRuntime, ServiceWaits,
           ServiceDeadline, ServiceForwards, ServiceSumsUp, ServiceReportsFailure,
           ServiceSumsUpFallback, ServiceFinishes, ServiceCleansUp, ServiceReturns
<1>4. CASE DeadlinePasses \/ Reader \/ ReaderPings \/ ClientDisconnects \/ ResponseOver
             \/ UNCHANGED vars
  BY <1>4 DEF DeadlinePasses, Reader, ReaderPulls, ReaderTakes, ReaderSent, innerVars,
         ReaderStops, ReaderSeesDisconnect, ReaderCancelsService, ReaderClosesService,
         ReaderLeaves, ReaderPings, OnlyReader, OutsideReader, ClientDisconnects,
         ResponseOver, vars
<1> QED
  BY <1>1, <1>2, <1>3, <1>4 DEF Next, AgentSide

-----------------------------------------------------------------------------
LEMMA SlotStep == TypeInv /\ SlotInv /\ [Next]_vars => SlotInv'
<1> SUFFICES ASSUME TypeInv, SlotInv, [Next]_vars PROVE SlotInv'
  OBVIOUS
<1>0. events \in Seq(EventItems) /\ runtimeEvents \in Seq(RuntimeItems)
  BY DEF TypeInv, TypeOK, AgentTypes, ConsumerTypes
<1>1. Len(events') <= 1
  <2>1. CASE AgentSide
    <3>1. CASE UNCHANGED events
      BY <3>1 DEF SlotInv
    <3>2. ASSUME NEW item \in EventItems, Puts(item) PROVE Len(events') <= 1
      <4>1. ~Full(events) /\ events' = Append(events, item)
        BY <3>2 DEF Puts
      <4> QED
        BY <1>0, <4>1, SlotPut
    <3> QED
      BY <2>1, <3>1, <3>2, AgentPuts
  <2>2. CASE UNCHANGED events
    BY <2>2 DEF SlotInv
  <2>3. CASE events # <<>> /\ events' = Tail(events)
    <3>1. Tail(events) = <<>>
      BY <1>0, <2>3, SlotTaken DEF SlotInv
    <3>2. events' = <<>>
      BY <2>3, <3>1
    <3> QED
      BY <3>2
  <2> QED
    BY <2>1, <2>2, <2>3, AgentAlone
<1>2. Len(runtimeEvents') <= 1
  <2>1. CASE UNCHANGED runtimeEvents
    BY <2>1 DEF SlotInv
  <2>2. CASE runtimeEvents # <<>> /\ runtimeEvents' = Tail(runtimeEvents)
    <3>1. Tail(runtimeEvents) = <<>>
      BY <1>0, <2>2, SlotTaken DEF SlotInv
    <3>2. runtimeEvents' = <<>>
      BY <2>2, <3>1
    <3> QED
      BY <3>2
  <2>3. ASSUME NEW item, ~Full(runtimeEvents), runtimeEvents' = Append(runtimeEvents, item)
        PROVE  Len(runtimeEvents') <= 1
    BY <1>0, <2>3, SlotPut
  <2>4. CASE runtimeEvents' = OfferSentinel
    BY <2>1, <2>3, <2>4 DEF OfferSentinel
  <2>5. CASE AgentSide
    BY <2>1, <2>5, AgentPuts DEF OutsideAgent, innerVars
  <2>6. ASSUME NEW r, RuntimeLeaves(r) PROVE UNCHANGED runtimeEvents \/ runtimeEvents' = OfferSentinel
    BY <2>6 DEF RuntimeLeaves
  <2>7. CASE RuntimeSetupFails \/ RuntimeJoinsProducer \/ RuntimeReleasedLate \/ RuntimeCancelled
    BY <2>1, <2>4, <2>6, <2>7 DEF RuntimeSetupFails, RuntimeJoinsProducer, RuntimeReleasedLate,
         RuntimeCancelled
  <2>8. CASE RuntimeStarts \/ RuntimeYields \/ RuntimeSummaryFails \/ RuntimeReleased
               \/ RuntimeFinalised
    BY <2>1, <2>8 DEF RuntimeStarts, RuntimeYields, RuntimeSummaryFails, RuntimeReleased,
         RuntimeFinalised
  <2>9. CASE ConsumerPuts \/ ConsumerPutsFailure
    BY <2>3, <2>9 DEF ConsumerPuts, ConsumerPutsFailure, PutReturns
  <2>10. CASE ConsumerCancelled
    BY <2>4, <2>10 DEF ConsumerCancelled
  <2>11. ASSUME NEW items, Takes(items)
         PROVE  runtimeEvents # <<>> /\ runtimeEvents' = Tail(runtimeEvents)
    BY <2>11 DEF Takes
  <2>12. CASE Service
    BY <1>0, <2>1, <2>2, <2>11, <2>12 DEF Service, innerVars, ServiceStarts,
         ServiceOpensRuntime, ServiceWaits, ServiceDeadline, ServiceForwards, ServiceSumsUp,
         ServiceReportsFailure, ServiceSumsUpFallback, ServiceFinishes, ServiceCleansUp,
         ServiceReturns
  <2>13. CASE DeadlinePasses \/ Reader \/ ReaderPings \/ ClientDisconnects \/ ResponseOver
             \/ UNCHANGED vars
    <3>1. UNCHANGED runtimeEvents
      BY <2>13 DEF DeadlinePasses, Reader, ReaderPulls, ReaderTakes, ReaderSent, innerVars,
         ReaderStops, ReaderSeesDisconnect, ReaderCancelsService, ReaderClosesService,
         ReaderLeaves, ReaderPings, OnlyReader, OutsideReader, ClientDisconnects,
         ResponseOver, vars
    <3> QED
      BY <2>1, <3>1
  <2> QED
    BY <2>5, <2>7, <2>8, <2>9, <2>10, <2>12, <2>13 DEF Next, AgentSide, Runtime
<1> QED
  BY <1>1, <1>2 DEF SlotInv

LEMMA ItemStep == TypeInv /\ ConsumerInv /\ ItemInv /\ [Next]_vars => ItemInv'
<1> SUFFICES ASSUME TypeInv, ConsumerInv, ItemInv, [Next]_vars PROVE ItemInv'
  OBVIOUS
<1>0. consumer \in ConsumerStates /\ runtime \in RuntimeStates
  BY DEF TypeInv, TypeOK, ConsumerTypes
<1> DEFINE Same == /\ consumer'.at = consumer.at
                   /\ consumer'.item = consumer.item
                   /\ \/ UNCHANGED runtime
                      \/ consumer.at \notin {"putting", "puttingFailure"}
<1>1. CASE Same
  BY <1>1 DEF ItemInv
<1>2. CASE AgentSide
  BY <1>1, <1>2, AgentPuts DEF OutsideAgent, innerVars
<1>3. ASSUME NEW r, RuntimeLeaves(r), consumer.at = "next" PROVE ItemInv'
  <2>1. consumer.item = NoItem
    BY <1>3 DEF ItemInv
  <2>2. runtime'.at = "closed"
    BY <1>0, <1>3 DEF RuntimeLeaves, RuntimeStates
  <2>3. CASE r \in FailureKinds
    BY <1>0, <1>3, <2>2, <2>3, MadeItems DEF RuntimeLeaves, ConsumerStates, ItemInv
  <2>4. CASE r \notin FailureKinds
    BY <1>0, <1>3, <2>1, <2>2, <2>4 DEF RuntimeLeaves, ConsumerStates, ItemInv
  <2> QED
    BY <2>3, <2>4
<1>4. CASE RuntimeSetupFails \/ RuntimeJoinsProducer \/ RuntimeReleasedLate
  BY <1>1, <1>3, <1>4 DEF RuntimeSetupFails, RuntimeJoinsProducer, RuntimeReleasedLate,
       RuntimeRunsAt, RuntimeAt
<1>5. CASE RuntimeCancelled
  <2>1. CASE RuntimeLeaves("cancelled")
    BY <1>3, <1>5, <2>1 DEF RuntimeCancelled, RuntimeAt
  <2>2. CASE consumer' = [consumer EXCEPT !.cancelled = FALSE]
    BY <1>0, <1>1, <1>5, <2>2 DEF ConsumerStates, RuntimeCancelled, RuntimeAt
  <2> QED
    BY <1>5, <2>1, <2>2 DEF RuntimeCancelled
<1>6. CASE RuntimeStarts \/ RuntimeSummaryFails \/ RuntimeReleased \/ RuntimeFinalised
  <2>1. CASE RuntimeFinalised
    BY <2>1 DEF RuntimeFinalised, ItemInv
  <2>2. CASE RuntimeStarts \/ RuntimeSummaryFails \/ RuntimeReleased
    BY <1>1, <2>2 DEF RuntimeStarts, RuntimeSummaryFails, RuntimeReleased, RuntimeRunsAt,
         RuntimeAt
  <2> QED
    BY <1>6, <2>1, <2>2
<1>7. CASE RuntimeYields \/ ConsumerPuts \/ ConsumerPutsFailure \/ ConsumerCancelled
  <2>1. CASE RuntimeYields
    <3>1. events # <<>> /\ Head(events) \in EventItems
      BY <2>1 DEF RuntimeYields, TypeInv, TypeOK, AgentTypes
    <3>2. Head(events) # Exhausted
      BY <3>1, Marks DEF EventItems, Failures, Failed, Exhausted, Completed
    <3> QED
      BY <1>0, <2>1, <3>2 DEF RuntimeYields, ConsumerStates, RuntimeStates, ItemInv, Metadata,
                              Exhausted
  <2>2. CASE ConsumerPuts
    BY <1>0, <2>2 DEF ConsumerPuts, ConsumerStates, ItemInv
  <2>3. CASE ConsumerPutsFailure
    BY <1>0, <2>3 DEF ConsumerPutsFailure, ConsumerStates, ItemInv
  <2>4. CASE ConsumerCancelled
    BY <1>0, <2>4 DEF ConsumerCancelled, ItemInv
  <2> QED
    BY <1>7, <2>1, <2>2, <2>3, <2>4
<1>8. ASSUME ServiceFinally PROVE consumer'.at = consumer.at /\ consumer'.item = consumer.item
  BY <1>8, FinallyTypes
<1>9. CASE ServiceOpensRuntime
  <2>1. consumer.at = "none" /\ consumer.item = NoItem
    BY <1>9 DEF ServiceOpensRuntime, ResumedAt, ConsumerInv, Unopened, ItemInv
  <2> QED
    BY <1>0, <1>9, <2>1 DEF ServiceOpensRuntime, ConsumerStates, ItemInv
<1>10. CASE ServiceStarts \/ ServiceWaits \/ ServiceForwards \/ ServiceSumsUp
              \/ ServiceReportsFailure \/ ServiceSumsUpFallback \/ ServiceFinishes
              \/ ServiceReturns
  BY <1>1, <1>10 DEF innerVars, ServiceStarts, ServiceWaits, ServiceForwards, ServiceSumsUp,
       ServiceReportsFailure, ServiceSumsUpFallback, ServiceFinishes, ServiceReturns
<1>11. CASE ServiceDeadline
  BY <1>1, <1>11, CancelTypes DEF ServiceDeadline
<1>12. CASE ServiceCleansUp
  BY <1>1, <1>8, <1>12 DEF ServiceCleansUp
<1>13. CASE ReaderCancelsService
  <2>0. UNCHANGED runtime
    BY <1>13 DEF ReaderCancelsService, OutsideReader
  <2>1. CASE ServiceFinally
    BY <1>1, <1>8, <2>0, <2>1
  <2>2. CASE consumer' = [consumer EXCEPT !.cancelled = consumer.at # "over"]
    BY <1>1, <2>0, <2>2, CancelTypes
  <2> QED
    BY <1>13, <2>1, <2>2 DEF ReaderCancelsService
<1>14. CASE ReaderClosesService
  BY <1>1, <1>8, <1>14 DEF ReaderClosesService, OutsideReader
<1>15. CASE DeadlinePasses \/ ReaderPulls \/ ReaderTakes \/ ReaderSent \/ ReaderStops
              \/ ReaderSeesDisconnect \/ ReaderLeaves \/ ReaderPings \/ ClientDisconnects
              \/ ResponseOver \/ UNCHANGED vars
  BY <1>1, <1>15 DEF DeadlinePasses, ReaderPulls, ReaderTakes, ReaderSent, ReaderStops,
       ReaderSeesDisconnect, ReaderLeaves, ReaderPings, OnlyReader, OutsideReader,
       ClientDisconnects, ResponseOver, vars, innerVars
<1> QED
  BY <1>2, <1>4, <1>5, <1>6, <1>7, <1>9, <1>10, <1>11, <1>12, <1>13, <1>14, <1>15
     DEF Next, AgentSide, Runtime, Service, Reader

LEMMA AgentInvStep ==
    TypeInv /\ SpanInv /\ ItemInv /\ SlotInv /\ AgentInv /\ [Next]_vars => AgentInv'
<1> SUFFICES ASSUME TypeInv, SpanInv, ItemInv, SlotInv, AgentInv, [Next]_vars PROVE AgentInv'
  OBVIOUS
<1>0. /\ producer \in ProducerStates /\ events \in Seq(EventItems)
      /\ tool \in [Calls -> {"idle", "announcing", "executing", "ok", "error", "over"}]
  BY DEF TypeInv, TypeOK, AgentTypes
<1>e. runtime'.at \in {"none", "setup"} => producer.at = "none"
  BY RuntimeOnce DEF AgentInv
<1>1. CASE Agent
  <2>1. UNCHANGED <<events, emitted>> /\ producer.at = "iterating"
    BY <1>1 DEF Agent, AgentWritesToken, AgentCallsTools, AgentEnds, AgentDies, AgentRuns
  <2>2. ~(events # <<>> /\ Head(events) = Completed)
    BY <2>1 DEF AgentInv
  <2>3. producer'.at # "none"
    BY <1>0, <1>1, <2>1 DEF Agent, AgentWritesToken, AgentCallsTools, AgentEnds, AgentDies,
                            ProducerStates
  <2>4. (producer'.at = "putting" /\ producer'.item = Completed) => ~ToolsActive'
    <3>1. CASE AgentEnds
      BY <1>0, <3>1 DEF AgentEnds, ToolsActive, ProducerStates
    <3>2. CASE AgentWritesToken
      BY <1>0, <3>2 DEF AgentWritesToken, ToolsActive, ProducerStates, Token, Completed
    <3>3. CASE AgentCallsTools \/ AgentDies
      BY <1>0, <2>1, <3>3 DEF AgentCallsTools, AgentDies, ProducerStates
    <3> QED
      BY <1>1, <3>1, <3>2, <3>3 DEF Agent
  <2>5. producer'.at = "putting" => producer'.item.type # "tool"
    <3>1. \A f \in Failures \cup {Completed} : f.type # "tool"
      BY DEF Failures, Failed, Completed
    <3>2. CASE AgentEnds
      BY <1>0, <3>1, <3>2 DEF AgentEnds, ProducerStates
    <3>3. CASE AgentWritesToken
      BY <1>0, <3>3 DEF AgentWritesToken, ProducerStates, Token
    <3>4. CASE AgentCallsTools \/ AgentDies
      BY <1>0, <2>1, <3>4 DEF AgentCallsTools, AgentDies, ProducerStates
    <3> QED
      BY <1>1, <3>2, <3>3, <3>4 DEF Agent
  <2> QED
    BY <1>e, <2>1, <2>2, <2>3, <2>4, <2>5 DEF AgentInv
<1>2. ASSUME NEW item \in EventItems, Puts(item) PROVE events' = <<item>> /\ Head(events') = item
  BY <1>0, <1>2, SlotPut DEF Puts
<1>3. CASE ProducerPuts
  <2>1. /\ producer'.at \in {"iterating", "over"}
        /\ producer.item = Completed => producer'.at = "over"
    BY <1>0, <1>3, Marks DEF ProducerPuts, ProducerStates
  <2>2. Head(events') = producer.item /\ UNCHANGED tool
    BY <1>2, <1>3 DEF ProducerPuts, TypeInv, PutTypes
  <2> QED
    BY <1>e, <1>3, <2>1, <2>2 DEF AgentInv, ToolsActive, ProducerPuts
<1>4. CASE ProducerHonoursCancel
  <2>1. producer'.at = "over" /\ ~ToolsActive'
    BY <1>0, <1>4 DEF ProducerHonoursCancel, ProducerStates, ToolsActive
  <2>2. producer.at # "none"
    BY <1>4 DEF ProducerHonoursCancel
  <2> QED
    BY <1>e, <1>4, <2>1, <2>2 DEF AgentInv
<1>5. CASE Tools
  <2>1. PICK c \in Calls : ToolAnnounces(c) \/ ToolReturns(c) \/ ToolReports(c)
    BY <1>5 DEF Tools
  <2>2. tool[c] \in {"announcing", "executing", "ok", "error"} /\ UNCHANGED producer
    BY <2>1 DEF ToolAnnounces, ToolReturns, ToolReports
  <2>3. producer.at # "none" /\ ToolsActive
    BY <2>2 DEF AgentInv, ToolsActive
  <2>4. ~(producer.at = "putting" /\ producer.item = Completed)
    BY <2>3 DEF AgentInv
  <2>5. ~(events # <<>> /\ Head(events) = Completed)
    BY <2>3 DEF AgentInv
  <2>6. ~(events' # <<>> /\ Head(events') = Completed)
    <3>1. CASE ToolAnnounces(c)
      BY <1>2, <3>1, MadeItems, Items, Marks DEF ToolAnnounces
    <3>2. CASE ToolReturns(c)
      BY <2>5, <3>2 DEF ToolReturns
    <3>3. CASE ToolReports(c)
      <4>1. ToolEvent(c, tool[c]) \in PublicItems
        BY <3>3, MadeItems DEF ToolReports
      <4> QED
        BY <1>2, <3>3, <4>1, Items, Marks DEF ToolReports
    <3> QED
      BY <2>1, <3>1, <3>2, <3>3
  <2> QED
    BY <1>e, <2>2, <2>3, <2>4, <2>6 DEF AgentInv
<1>6. CASE /\ UNCHANGED <<tokens, tool, emitted>>
           /\ \/ UNCHANGED events
              \/ events # <<>> /\ events' = Tail(events)
           /\ \/ RuntimeStarts /\ UNCHANGED events
              \/ producer'.at = producer.at /\ producer'.item = producer.item
  <2>1. UNCHANGED events \/ events' = <<>>
    BY <1>0, <1>6, SlotTaken DEF SlotInv
  <2>2. UNCHANGED ToolsActive
    BY <1>6 DEF ToolsActive
  <2>3. CASE RuntimeStarts /\ UNCHANGED events
    <3>1. producer'.at = "iterating" /\ runtime.at = "setup"
      BY <1>0, <2>3 DEF RuntimeStarts, RuntimeRunsAt, RuntimeAt, ProducerStates
    <3>2. producer.at = "none" /\ events' = <<>>
      BY <2>3, <3>1 DEF AgentInv
    <3>3. runtime'.at \notin {"none", "setup"}
      BY <2>3 DEF RuntimeStarts, TypeInv, TypeOK, RuntimeStates
    <3> QED
      BY <3>1, <3>2, <3>3 DEF AgentInv
  <2>4. CASE producer'.at = producer.at /\ producer'.item = producer.item
    BY <1>e, <1>6, <2>1, <2>2, <2>4 DEF AgentInv
  <2> QED
    BY <1>6, <2>3, <2>4
<1> QED
  BY <1>1, <1>3, <1>4, <1>5, <1>6, AgentAlone DEF AgentSide
\* Once the agent has no more to put, it stays so.
LEMMA QuietStays ==
    ASSUME TypeInv, SpanInv, ItemInv, AgentInv, SlotInv, Quiet, [Next]_vars
    PROVE  /\ Quiet'
           /\ emitted' = emitted
           /\ events = <<>> => events' = <<>>
<1>0. /\ producer \in ProducerStates
      /\ tool \in [Calls -> {"idle", "announcing", "executing", "ok", "error", "over"}]
  BY DEF TypeInv, TypeOK, AgentTypes
<1>1. CASE AgentSide
  <2>1. ~Agent /\ ~ProducerPuts
    BY DEF Quiet, Agent, AgentWritesToken, AgentCallsTools, AgentEnds, AgentDies, AgentRuns,
           ProducerPuts
  <2>2. ~ProducerHonoursCancel
    BY DEF Quiet, ProducerHonoursCancel
  <2>3. ~Tools
    BY DEF Quiet, ToolsActive, Tools, ToolAnnounces, ToolReturns, ToolReports
  <2> QED
    BY <1>1, <2>1, <2>2, <2>3 DEF AgentSide
<1>2. CASE /\ UNCHANGED <<tokens, tool, emitted>>
           /\ UNCHANGED events \/ (events # <<>> /\ events' = Tail(events))
           /\ \/ RuntimeStarts /\ UNCHANGED events
              \/ producer'.at = producer.at /\ producer'.item = producer.item
  <2>1. ~RuntimeStarts
    BY DEF RuntimeStarts, RuntimeRunsAt, RuntimeAt, Quiet, AgentInv
  <2>2. Quiet'
    BY <1>2, <2>1, RuntimeOnce DEF Quiet, ToolsActive
  <2> QED
    BY <1>2, <2>2
<1> QED
  BY <1>1, <1>2, AgentAlone

\* The agent's history only grows, and not in the steps that yield.
LEMMA EmittedSteps ==
    ASSUME TypeInv, [Next]_vars
    PROVE  \/ UNCHANGED emitted
           \/ UNCHANGED frames /\ \E x \in PublicItems : emitted' = Append(emitted, x)
<1>1. CASE AgentSide
  <2>1. UNCHANGED frames
    BY <1>1, AgentPuts DEF OutsideAgent
  <2>2. ASSUME NEW item \in EventItems, Puts(item)
        PROVE  UNCHANGED emitted \/ \E x \in PublicItems : emitted' = Append(emitted, x)
    BY <2>2 DEF Puts
  <2> QED
    BY <1>1, <2>1, <2>2, AgentPuts
<1> QED
  BY <1>1, AgentAlone

\* The pipeline's invariant at work: the frame about to be forwarded is the next
\* one in the order of the agent.
LEMMA NextForwarded ==
    ASSUME TypeInv, SlotInv, DeliveredInv, FlowInv, ServiceForwards
    PROVE  /\ Forwarding
           /\ Head(runtimeEvents) \in PublicItems
           /\ Count(runtimeEvents) = 1 /\ runtimeEvents' = <<>>
           /\ Shown + 1 <= Len(emitted)
           /\ Head(runtimeEvents) = emitted[Shown + 1]
           /\ frames' = Append(frames, Head(runtimeEvents))
           /\ UNCHANGED <<agentVars, runtime, consumer>>
<1>1. /\ service.at \in {"waiting", "atEvent"}
      /\ runtimeEvents # <<>> /\ Head(runtimeEvents) \in PublicItems
      /\ runtimeEvents' = Tail(runtimeEvents)
  BY DEF ServiceForwards, Takes, LoopTop, ResumedAt
<1>2. Forwarding /\ Count(runtimeEvents) = 1
  BY <1>1 DEF Forwarding, Count
<1>3. runtimeEvents' = <<>>
  BY <1>1, SlotTaken DEF SlotInv, TypeInv, TypeOK, ConsumerTypes
<1>4. Shown \in Nat /\ Held \in {0, 1} /\ Count(events) \in {0, 1}
  BY Counts, Ranks DEF Shown, TypeInv, TypeOK, ReaderTypes
<1>5. Queued = Shown + 1
  BY <1>2 DEF Queued
<1>6. Shown + 1 <= Len(emitted) /\ Head(runtimeEvents) = emitted[Shown + 1]
  BY <1>2, <1>4, <1>5 DEF FlowInv
<1>7. frames' = Append(frames, Head(runtimeEvents)) /\ UNCHANGED <<agentVars, runtime, consumer>>
  BY DEF ServiceForwards, Yields, OutsideService
<1> QED
  BY <1>1, <1>2, <1>3, <1>6, <1>7

LEMMA DeliveredStep ==
    TypeInv /\ SlotInv /\ FlowInv /\ DeliveredInv /\ [Next]_vars => DeliveredInv'
<1> SUFFICES ASSUME TypeInv, SlotInv, FlowInv, DeliveredInv, [Next]_vars
             PROVE  DeliveredInv'
  OBVIOUS
<1>0. /\ frames \in Seq(Frames) /\ Len(frames) \in Nat
      /\ emitted \in Seq(PublicItems) /\ Len(emitted) \in Nat
      /\ Shown \in Nat
  <2>1. frames \in Seq(Frames) /\ emitted \in Seq(PublicItems)
    BY DEF TypeInv, TypeOK, AgentTypes, ReaderTypes
  <2>2. Len(frames) \in Nat /\ Len(emitted) \in Nat
    BY <2>1
  <2> QED
    BY <2>1, <2>2, Ranks DEF Shown
<1>1. \A i \in Delivered(Len(frames)) :
        i \in 1..Len(frames) /\ Rank(i) \in Nat /\ 1 <= Rank(i) /\ Rank(i) <= Shown
  <2> SUFFICES ASSUME NEW i \in Delivered(Len(frames))
               PROVE  i \in 1..Len(frames) /\ Rank(i) \in Nat /\ 1 <= Rank(i) /\ Rank(i) <= Shown
    OBVIOUS
  <2>1. i \in 1..Len(frames) /\ i \in Nat /\ i \in Delivered(i)
    BY <1>0 DEF Delivered
  <2> QED
    BY <1>0, <2>1, Ranks DEF Shown
<1>2. CASE UNCHANGED frames
  <2>1. /\ Delivered(Len(frames))' = Delivered(Len(frames)) /\ Shown' = Shown
        /\ \A i : Rank(i)' = Rank(i)
    BY <1>2 DEF Delivered, Shown, Rank
  <2>2. Len(emitted') >= Len(emitted) /\ \A n \in 1..Len(emitted) : emitted'[n] = emitted[n]
    BY <1>0, EmittedSteps
  <2>3. \A i \in Delivered(Len(frames)) : frames[i] = emitted'[Rank(i)]
    BY <1>0, <1>1, <2>2 DEF DeliveredInv
  <2>4. Shown <= Len(emitted')
    BY <1>0, <2>2 DEF DeliveredInv
  <2> QED
    BY <1>2, <2>1, <2>3, <2>4 DEF DeliveredInv
<1>3. ASSUME NEW f, frames' = Append(frames, f), UNCHANGED emitted,
             f \in PublicItems => Shown + 1 <= Len(emitted) /\ f = emitted[Shown + 1]
      PROVE  DeliveredInv'
  <2>1. /\ \A i \in 0..Len(frames) : Rank(i)' = Rank(i)
        /\ Delivered(Len(frames))' =
             Delivered(Len(frames)) \cup (IF f \in PublicItems THEN {Len(frames) + 1} ELSE {})
        /\ Shown' = Shown + (IF f \in PublicItems THEN 1 ELSE 0)
    BY <1>0, <1>3, RankAppended
  <2>2. /\ Len(frames') = Len(frames) + 1
        /\ frames'[Len(frames) + 1] = f
        /\ \A j \in 1..Len(frames) : frames'[j] = frames[j]
    BY <1>0, <1>3
  <2>3. \A i \in Delivered(Len(frames)) : frames'[i] = emitted'[Rank(i)'] /\ Rank(i)' = Rank(i)
    BY <1>0, <1>1, <1>3, <2>1, <2>2 DEF DeliveredInv
  <2>4. CASE f \notin PublicItems
    <3>1. Delivered(Len(frames))' = Delivered(Len(frames)) /\ Shown' = Shown
      BY <1>0, <2>1, <2>4
    <3> QED
      BY <1>3, <2>3, <3>1 DEF DeliveredInv
  <2>5. CASE f \in PublicItems
    <3>1. /\ Delivered(Len(frames))' = Delivered(Len(frames)) \cup {Len(frames) + 1}
          /\ Shown' = Shown + 1
      BY <2>1, <2>5
    <3>2. \A i : i = Len(frames) + 1 => Rank(i)' = Shown'
      BY <2>2 DEF Shown, Rank
    <3>3. \A i \in Delivered(Len(frames))' : frames'[i] = emitted'[Rank(i)']
      BY <1>3, <2>2, <2>3, <2>5, <3>1, <3>2
    <3>4. ASSUME NEW n \in 1..Shown' PROVE \E i \in Delivered(Len(frames))' : Rank(i)' = n
      <4>1. CASE n = Shown + 1
        BY <3>1, <3>2, <4>1
      <4>2. CASE n \in 1..Shown
        BY <2>3, <3>1, <4>2 DEF DeliveredInv
      <4> QED
        BY <1>0, <3>1, <4>1, <4>2
    <3>5. Shown' <= Len(emitted')
      BY <1>3, <2>5, <3>1
    <3> QED
      BY <3>3, <3>4, <3>5 DEF DeliveredInv
  <2> QED
    BY <2>4, <2>5
<1>4. CASE ServiceForwards
  <2>1. /\ frames' = Append(frames, Head(runtimeEvents)) /\ UNCHANGED emitted
        /\ Shown + 1 <= Len(emitted) /\ Head(runtimeEvents) = emitted[Shown + 1]
    BY <1>4, NextForwarded DEF agentVars
  <2> QED
    BY <2>1, <1>3
<1>5. CASE UNCHANGED agentVars /\ \E f \in Frames \ PublicItems : frames' = Append(frames, f)
  BY <1>3, <1>5 DEF agentVars
<1> QED
  BY <1>2, <1>4, <1>5, FrameSteps
-----------------------------------------------------------------------------
LEMMA FlowAgent ==
    ASSUME TypeInv, SlotInv, DeliveredInv, FlowInv, Forwarding, AgentSide
    PROVE  FlowInv'
<1>0. /\ Shown \in Nat /\ Queued \in Nat
      /\ Held \in {0, 1} /\ Count(events) \in {0, 1} /\ Count(runtimeEvents) \in {0, 1}
      /\ events \in Seq(EventItems) /\ emitted \in Seq(PublicItems)
  <2>1. frames \in Seq(Frames) /\ events \in Seq(EventItems) /\ emitted \in Seq(PublicItems)
    BY DEF TypeInv, TypeOK, AgentTypes, ReaderTypes
  <2>2. Shown \in Nat
    BY <2>1, Ranks DEF Shown
  <2> QED
    BY <2>1, <2>2, Counts DEF Queued
<1>1. /\ UNCHANGED <<frames, service, consumer, runtimeEvents>>
      /\ Shown' = Shown /\ Queued' = Queued /\ Held' = Held
      /\ Count(runtimeEvents)' = Count(runtimeEvents)
  <2>1. UNCHANGED <<frames, service, consumer, runtimeEvents>>
    BY AgentPuts DEF OutsideAgent, innerVars
  <2> QED
    BY <2>1 DEF Shown, Queued, Held, Count, Rank, Delivered
<1>2. CASE UNCHANGED <<events, emitted>>
  <2>1. Count(events)' = Count(events)
    BY <1>2 DEF Count
  <2> QED
    BY <1>1, <1>2, <2>1 DEF FlowInv
<1>3. ASSUME NEW item \in EventItems, Puts(item) PROVE FlowInv'
  <2>1. events = <<>> /\ events' # <<>> /\ Head(events') = item
    <3>1. ~Full(events) /\ events' = Append(events, item)
      BY <1>3 DEF Puts
    <3> QED
      BY <1>0, <3>1, SlotPut
  <2>2. Count(events) = 0 /\ Len(emitted) = Queued + Held
    BY <1>0, <2>1, Counts DEF FlowInv
  <2>3. \A n \in 1..Len(emitted) : emitted'[n] = emitted[n]
    BY <1>0, <1>3 DEF Puts
  <2>4. /\ Count(runtimeEvents) = 1 => Queued \in 1..Len(emitted)
        /\ Held = 1 => Queued + 1 \in 1..Len(emitted)
    BY <1>0, <2>2 DEF Queued
  <2>5. /\ Count(runtimeEvents) = 1 => Head(runtimeEvents) = emitted'[Queued]
        /\ Held = 1 => consumer.item = emitted'[Queued + 1]
    BY <2>3, <2>4 DEF FlowInv
  <2>6. CASE item \in PublicItems
    <3>1. Count(events)' = 1
      BY <2>1, <2>6 DEF Count
    <3>2. emitted' = Append(emitted, item)
      BY <1>3, <2>6 DEF Puts
    <3>3. Len(emitted') = Queued + Held + 1 /\ emitted'[Queued + Held + 1] = item
      BY <1>0, <2>2, <3>2
    <3> QED
      BY <1>1, <2>1, <2>5, <3>1, <3>3 DEF FlowInv
  <2>7. CASE item \notin PublicItems
    <3>1. Count(events)' = 0
      BY <2>1, <2>7 DEF Count
    <3>2. emitted' = emitted
      BY <1>3, <2>7 DEF Puts
    <3> QED
      BY <1>0, <1>1, <2>2, <2>5, <3>1, <3>2 DEF FlowInv
  <2> QED
    BY <2>6, <2>7
<1> QED
  BY <1>2, <1>3, AgentPuts

\* What the slots and the consume task hold after a step of the runtime that a
\* forwarding turn can take.
LEMMA RuntimeMoves ==
    ASSUME TypeInv, SpanInv, SlotInv, ItemInv, Forwarding, Runtime
    PROVE  /\ UNCHANGED <<frames, emitted, service>>
           /\ \/ UNCHANGED <<events, runtimeEvents>> /\ consumer'.item = consumer.item
              \/ /\ consumer.item = NoItem
                 /\ UNCHANGED events
                 /\ consumer'.item \notin PublicItems
                 /\ \/ UNCHANGED runtimeEvents
                    \/ runtimeEvents = <<>> /\ runtimeEvents' = <<Exhausted>>
              \/ /\ RuntimeYields
                 /\ consumer.item = NoItem /\ UNCHANGED runtimeEvents
                 /\ events # <<>> /\ events' = <<>>
                 /\ Head(events) = Completed => consumer'.item = Metadata
                 /\ Head(events) # Completed => consumer'.item = Head(events)
              \/ /\ events # <<>> /\ events' = <<>>
                 /\ Head(events) = Completed
                 /\ UNCHANGED <<runtimeEvents, consumer>>
              \/ /\ ConsumerPuts \/ ConsumerPutsFailure
                 /\ UNCHANGED events
                 /\ runtimeEvents = <<>> /\ runtimeEvents' = <<consumer.item>>
                 /\ consumer'.item = NoItem
           /\ ~RuntimeReleased /\ ~RuntimeReleasedLate /\ ~RuntimeCancelled
           /\ ~ConsumerCancelled /\ ~RuntimeFinalised
<1>0. /\ consumer \in ConsumerStates
      /\ events \in Seq(EventItems) /\ runtimeEvents \in Seq(RuntimeItems)
  BY DEF TypeInv, TypeOK, AgentTypes, ConsumerTypes
<1>1. ~completion /\ ~consumer.cancelled /\ service.at # "closed"
  BY DEF SpanInv, SpanHeld, Pending, Forwarding
<1>2. UNCHANGED <<frames, emitted, service>>
  BY DEF Runtime, OutsideRuntime, RuntimeStarts, RuntimeSetupFails, RuntimeYields,
         RuntimeSummaryFails, RuntimeReleased, RuntimeJoinsProducer, RuntimeReleasedLate,
         ConsumerPuts, ConsumerPutsFailure, RuntimeCancelled, ConsumerCancelled,
         RuntimeFinalised
<1>3. /\ ~RuntimeReleased /\ ~RuntimeReleasedLate /\ ~RuntimeCancelled
      /\ ~ConsumerCancelled /\ ~RuntimeFinalised
  BY <1>1 DEF RuntimeReleased, RuntimeReleasedLate, RuntimeCancelled, ConsumerCancelled,
              RuntimeFinalised
<1>4. ASSUME NEW r, RuntimeLeaves(r), consumer.at = "next"
      PROVE  /\ consumer.item = NoItem
             /\ consumer'.item \notin PublicItems
             /\ \/ UNCHANGED runtimeEvents
                \/ runtimeEvents = <<>> /\ runtimeEvents' = <<Exhausted>>
  <2>1. consumer.item = NoItem
    BY <1>4 DEF ItemInv
  <2>2. CASE r \in FailureKinds
    BY <1>0, <1>4, <2>1, <2>2, MadeItems, Marks DEF RuntimeLeaves, ConsumerStates
  <2>3. CASE r \notin FailureKinds
    <3>1. consumer'.item = NoItem
      BY <1>0, <1>4, <2>1, <2>3 DEF RuntimeLeaves, ConsumerStates
    <3>2. runtimeEvents' = OfferSentinel
      BY <1>4, <2>3 DEF RuntimeLeaves
    <3>3. \/ UNCHANGED runtimeEvents
          \/ runtimeEvents = <<>> /\ runtimeEvents' = <<Exhausted>>
      BY <1>0, <3>2, SlotPut DEF OfferSentinel
    <3> QED
      BY <2>1, <3>1, <3>3, Marks
  <2> QED
    BY <2>2, <2>3
<1>5. CASE RuntimeStarts
  BY <1>2, <1>3, <1>5 DEF RuntimeStarts
<1>6. CASE RuntimeSetupFails
  <2>1. PICK r : RuntimeLeaves(r)
    BY <1>6 DEF RuntimeSetupFails
  <2>2. consumer.at = "next" /\ UNCHANGED events
    BY <1>6 DEF RuntimeSetupFails, RuntimeRunsAt, RuntimeAt
  <2> QED
    BY <1>2, <1>3, <1>4, <2>1, <2>2
<1>7. CASE RuntimeJoinsProducer
  <2>1. consumer.at = "next" /\ UNCHANGED events
    BY <1>7 DEF RuntimeJoinsProducer, RuntimeRunsAt, RuntimeAt
  <2>2. CASE runtime.completed
    BY <1>2, <1>3, <1>4, <1>7, <2>1, <2>2 DEF RuntimeJoinsProducer
  <2>3. CASE ~runtime.completed
    BY <1>2, <1>3, <1>7, <2>1, <2>3 DEF RuntimeJoinsProducer
  <2> QED
    BY <2>2, <2>3
<1>8. CASE RuntimeYields
  <2>1. consumer.at = "next" /\ events # <<>> /\ events' = Tail(events) /\ UNCHANGED runtimeEvents
    BY <1>8 DEF RuntimeYields, RuntimeRunsAt, RuntimeAt
  <2>2. consumer.item = NoItem /\ events' = <<>>
    BY <1>0, <2>1, SlotTaken DEF ItemInv, SlotInv
  <2>3. consumer'.item = IF Head(events) = Completed THEN Metadata ELSE Head(events)
    BY <1>0, <1>8 DEF RuntimeYields, ConsumerStates
  <2> QED
    BY <1>2, <1>3, <1>8, <2>1, <2>2, <2>3
<1>9. CASE RuntimeSummaryFails
  <2>1. /\ events # <<>> /\ events' = Tail(events) /\ Head(events) = Completed
        /\ UNCHANGED <<runtimeEvents, consumer>>
    BY <1>9 DEF RuntimeSummaryFails
  <2>2. events' = <<>>
    BY <1>0, <2>1, SlotTaken DEF SlotInv
  <2> QED
    BY <1>2, <1>3, <2>1, <2>2
<1>10. CASE ConsumerPuts \/ ConsumerPutsFailure
  <2>1. /\ ~Full(runtimeEvents) /\ runtimeEvents' = Append(runtimeEvents, consumer.item)
        /\ UNCHANGED events
    BY <1>10 DEF ConsumerPuts, ConsumerPutsFailure, PutReturns
  <2>2. runtimeEvents = <<>> /\ runtimeEvents' = <<consumer.item>>
    BY <1>0, <2>1, SlotPut
  <2>3. consumer'.item = NoItem
    <3>1. CASE ConsumerPuts
      BY <1>0, <3>1 DEF ConsumerPuts, ConsumerStates
    <3>2. CASE ConsumerPutsFailure
      BY <1>0, <3>2 DEF ConsumerPutsFailure, ConsumerStates
    <3> QED
      BY <1>10, <3>1, <3>2
  <2> QED
    BY <1>2, <1>3, <1>10, <2>1, <2>2, <2>3
<1> QED
  BY <1>3, <1>5, <1>6, <1>7, <1>8, <1>9, <1>10 DEF Runtime

LEMMA FlowRuntime ==
    ASSUME TypeInv, SpanInv, SlotInv, ItemInv, DeliveredInv, FlowInv, Forwarding, Runtime
    PROVE  FlowInv'
<1>0. Shown \in Nat /\ Shown' = Shown
  <2>1. frames \in Seq(Frames) /\ frames' = frames
    BY RuntimeMoves DEF TypeInv, TypeOK, ReaderTypes
  <2>2. Len(frames) \in Nat
    BY <2>1
  <2>3. Shown \in Nat
    BY <2>2, Ranks DEF Shown
  <2>4. Shown' = Shown
    BY <2>1 DEF Shown, Rank, Delivered
  <2> QED
    BY <2>3, <2>4
<1>1. /\ \A x : x \in PublicItems => Count(<<x>>) = 1 /\ Head(<<x>>) = x
      /\ \A x : x \notin PublicItems => Count(<<x>>) = 0
      /\ Count(<<>>) = 0
  BY DEF Count
<1>2. emitted' = emitted /\ Forwarding'
  BY RuntimeMoves DEF Forwarding
<1>3. /\ Count(events)' = Count(events') /\ Count(runtimeEvents)' = Count(runtimeEvents')
      /\ Queued' = Shown + Count(runtimeEvents')
  BY <1>0 DEF Count, Queued
<1>4. CASE UNCHANGED <<events, runtimeEvents>> /\ consumer'.item = consumer.item
  BY <1>0, <1>2, <1>4 DEF FlowInv, Queued, Count, Held
<1>5. CASE /\ consumer.item = NoItem
           /\ UNCHANGED events
           /\ consumer'.item \notin PublicItems
           /\ \/ UNCHANGED runtimeEvents
              \/ runtimeEvents = <<>> /\ runtimeEvents' = <<Exhausted>>
  <2>1. Held = 0 /\ Held' = 0
    BY <1>5, Marks DEF Held
  <2>2. Count(runtimeEvents') = Count(runtimeEvents) /\
          (Count(runtimeEvents) = 1 => UNCHANGED runtimeEvents)
    BY <1>1, <1>5, Marks
  <2> QED
    BY <1>2, <1>3, <1>5, <2>1, <2>2 DEF FlowInv, Queued
<1>6. CASE /\ consumer.item = NoItem /\ UNCHANGED runtimeEvents
           /\ events # <<>> /\ events' = <<>>
           /\ Head(events) = Completed => consumer'.item = Metadata
           /\ Head(events) # Completed => consumer'.item = Head(events)
  <2>1. Held = 0 /\ Held' = Count(events) /\ Count(events') = 0
    BY <1>1, <1>6, Marks DEF Held, Count
  <2>2. Held' = 1 => consumer'.item = Head(events)
    BY <1>6, Marks DEF Held
  <2> QED
    BY <1>0, <1>2, <1>3, <1>6, <2>1, <2>2, Counts DEF FlowInv, Queued
<1>7. CASE /\ events # <<>> /\ events' = <<>>
           /\ Head(events) = Completed
           /\ UNCHANGED <<runtimeEvents, consumer>>
  <2>1. Count(events) = 0 /\ Count(events') = 0
    BY <1>1, <1>7, Marks DEF Count
  <2> QED
    BY <1>2, <1>3, <1>7, <2>1 DEF FlowInv, Held, Queued
<1>8. CASE /\ UNCHANGED events
           /\ runtimeEvents = <<>> /\ runtimeEvents' = <<consumer.item>>
           /\ consumer'.item = NoItem
  <2>1. /\ Count(runtimeEvents) = 0 /\ Count(runtimeEvents') = Held /\ Held' = 0
        /\ Held = 1 => Head(runtimeEvents') = consumer.item
    BY <1>1, <1>8, Marks DEF Held
  <2> QED
    BY <1>0, <1>2, <1>3, <1>8, <2>1, Counts DEF FlowInv, Queued
<1> QED
  BY <1>4, <1>5, <1>6, <1>7, <1>8, RuntimeMoves

LEMMA FlowStep ==
    TypeInv /\ SpanInv /\ SlotInv /\ ItemInv /\ DeliveredInv /\ FlowInv /\ [Next]_vars
      => FlowInv'
<1> SUFFICES ASSUME TypeInv, SpanInv, SlotInv, ItemInv, DeliveredInv, FlowInv, [Next]_vars,
                    Forwarding'
             PROVE  FlowInv'
  BY DEF FlowInv
<1>0. Forwarding
  BY ForwardingSteps
<1>1. CASE AgentSide
  BY <1>0, <1>1, FlowAgent
<1>2. CASE Runtime
  BY <1>0, <1>2, FlowRuntime
<1>3. CASE UNCHANGED <<frames, agentVars, innerVars>>
  BY <1>0, <1>3 DEF FlowInv, agentVars, innerVars, Shown, Queued, Held, Count, Rank, Delivered
<1>4. frames \in Seq(Frames) /\ consumer \in ConsumerStates
  BY DEF TypeInv, TypeOK, ConsumerTypes, ReaderTypes
<1>5. CASE ServiceStarts
  <2>1. frames' = Append(frames, SessionFrame) /\ UNCHANGED <<agentVars, innerVars>>
    BY <1>5 DEF ServiceStarts, Yields, OutsideService
  <2>2. Shown' = Shown
    BY <1>4, <2>1, RankAppended, Marks, Ranks DEF Shown
  <2> QED
    BY <1>0, <2>1, <2>2 DEF FlowInv, agentVars, innerVars, Queued, Held, Count
<1>6. CASE ServiceOpensRuntime
  <2>1. /\ UNCHANGED <<frames, agentVars, runtimeEvents>>
        /\ consumer'.item = consumer.item
    BY <1>4, <1>6 DEF ServiceOpensRuntime, OutsideService, ConsumerStates
  <2> QED
    BY <1>0, <2>1 DEF FlowInv, agentVars, Shown, Queued, Held, Count, Rank, Delivered
<1>7. CASE ServiceForwards
  <2>1. /\ Head(runtimeEvents) \in PublicItems
        /\ Count(runtimeEvents) = 1 /\ runtimeEvents' = <<>>
        /\ frames' = Append(frames, Head(runtimeEvents))
        /\ UNCHANGED <<agentVars, runtime, consumer>>
    BY <1>7, NextForwarded
  <2>2. Shown' = Shown + 1
    BY <1>4, <2>1, RankAppended
  <2>3. /\ Queued' = Queued /\ Held' = Held /\ Count(events)' = Count(events)
        /\ Count(runtimeEvents)' = 0
    <3>1. Count(runtimeEvents)' = 0 /\ Count(events)' = Count(events)
      BY <2>1 DEF Count, agentVars
    <3>2. Shown \in Nat
      BY <1>4, Ranks DEF Shown
    <3> QED
      BY <2>1, <2>2, <3>1, <3>2 DEF Queued, Held
  <2> QED
    BY <1>0, <2>1, <2>3 DEF FlowInv, agentVars
<1> QED
  BY <1>1, <1>2, <1>3, <1>5, <1>6, <1>7, ForwardingSteps
-----------------------------------------------------------------------------
LEMMA EndRuntime ==
    ASSUME TypeInv, SpanInv, SlotInv, ItemInv, AgentInv, EndInv, Forwarding, Runtime, [Next]_vars
    PROVE  EndInv'
<1>0. /\ consumer \in ConsumerStates /\ runtime \in RuntimeStates
      /\ events \in Seq(EventItems) /\ runtimeEvents \in Seq(RuntimeItems)
  BY DEF TypeInv, TypeOK, AgentTypes, ConsumerTypes
<1>1. ~CutShort /\ (runtime.at \in {"none", "setup"} => producer.at = "none")
  BY DEF SpanInv, SpanHeld, Pending, Forwarding, AgentInv
<1>2. CASE RuntimeStarts
  <2>1. runtime.at = "setup" /\ runtime'.at = "getting" /\ consumer.at = "next"
    BY <1>0, <1>2 DEF RuntimeStarts, RuntimeRunsAt, RuntimeAt, RuntimeStates
  <2>2. runtimeEvents = <<>> /\ consumer.item = NoItem
    BY <2>1 DEF EndInv, ItemInv
  <2> QED
    BY <1>2, <2>1, <2>2 DEF EndInv, RuntimeStarts, NoItem, Metadata
<1>3. CASE RuntimeSetupFails
  <2>1. runtime.at = "setup" /\ consumer.at = "next"
    BY <1>3 DEF RuntimeSetupFails, RuntimeRunsAt, RuntimeAt
  <2>2. /\ runtimeEvents = <<>> /\ events = <<>> /\ consumer.item = NoItem
        /\ producer.at = "none" /\ ~ToolsActive
    BY <2>1 DEF EndInv, AgentInv, ItemInv, ToolsActive
  <2>3. PICK r \in FailureKinds \cup {"cancelled"} : RuntimeLeaves(r)
    BY <1>3 DEF RuntimeSetupFails
  <2>4. runtime'.at = "closed" /\ UNCHANGED <<producer, events, tool>>
    BY <1>0, <1>3, <2>3 DEF RuntimeSetupFails, RuntimeLeaves, RuntimeStates, OutsideRuntime
  <2>5. Quiet' /\ events' = <<>>
    BY <2>2, <2>4 DEF Quiet, ToolsActive
  <2>6. CASE r \in FailureKinds
    <3>1. consumer'.at = "puttingFailure" /\ consumer'.item = Failed(r) /\ runtimeEvents' = <<>>
      BY <1>0, <2>2, <2>3, <2>6 DEF RuntimeLeaves, ConsumerStates
    <3> QED
      BY <2>4, <3>1 DEF EndInv, Failed, Metadata
  <2>7. CASE r \notin FailureKinds
    <3>1. consumer'.at = "over" /\ consumer'.item = NoItem
      BY <1>0, <2>2, <2>3, <2>7 DEF RuntimeLeaves, ConsumerStates
    <3>2. runtimeEvents' = <<Exhausted>>
      BY <2>2, <2>3, <2>7, SlotPut DEF RuntimeLeaves, OfferSentinel, Full
    <3> QED
      BY <2>4, <2>5, <3>1, <3>2 DEF EndInv, Exhausted, Metadata, NoItem
  <2> QED
    BY <2>6, <2>7
<1>4. CASE RuntimeYields
  <2>1. /\ runtime.at = "getting" /\ consumer.at = "next"
        /\ events # <<>> /\ events' = Tail(events) /\ UNCHANGED <<producer, tool, runtimeEvents>>
        /\ consumer'.at = "putting" /\ runtime'.at = "yielded"
        /\ consumer'.item = IF Head(events) = Completed THEN Metadata ELSE Head(events)
    BY <1>0, <1>4 DEF RuntimeYields, RuntimeRunsAt, RuntimeAt, OutsideRuntime, RuntimeStates,
                      ConsumerStates
  <2>2. events' = <<>> /\ Head(events) \in EventItems
    BY <1>0, <2>1, SlotTaken DEF SlotInv
  <2>3. Head(events) # Metadata
    BY <2>2, Marks DEF EventItems, Failures, Failed, Metadata, Completed
  <2>4. Head(events) = Completed => Quiet'
    BY <2>1 DEF AgentInv, Quiet, ToolsActive
  <2>5. consumer'.item = Metadata => Quiet' /\ events' = <<>>
    BY <2>1, <2>2, <2>3, <2>4
  <2>6. runtimeEvents # <<Metadata>> /\ runtimeEvents # <<Exhausted>>
    BY <2>1 DEF EndInv
  <2> QED
    BY <2>1, <2>5, <2>6 DEF EndInv
<1>5. CASE RuntimeSummaryFails
  <2>1. PICK kind \in FailureKinds : RuntimeFinally(kind, TRUE)
    BY <1>5 DEF RuntimeSummaryFails
  <2>2. runtime'.at = "joining" /\ runtime'.raises \in FailureKinds
    BY <1>0, <2>1 DEF RuntimeFinally, RuntimeStates
  <2>3. /\ runtime.at = "getting" /\ consumer.at = "next" /\ consumer.item = NoItem
        /\ UNCHANGED <<consumer, runtimeEvents>>
    BY <1>5 DEF RuntimeSummaryFails, RuntimeRunsAt, RuntimeAt, ItemInv
  <2>4. runtimeEvents # <<Metadata>> /\ runtimeEvents # <<Exhausted>>
    BY <2>3 DEF EndInv
  <2> QED
    BY <2>2, <2>3, <2>4 DEF EndInv, NoItem, Metadata
<1>6. CASE RuntimeJoinsProducer
  <2>1. /\ runtime.at = "joining" /\ consumer.at = "next" /\ runtime.raises \in FailureKinds
        /\ runtime.completed
    BY <1>1, <1>6 DEF RuntimeJoinsProducer, RuntimeRunsAt, RuntimeAt, EndInv, CutShort
  <2>2. /\ runtime'.at = "closed" /\ consumer'.at = "puttingFailure"
        /\ consumer'.item = Failed(runtime.raises) /\ UNCHANGED runtimeEvents
    BY <1>0, <1>6, <2>1 DEF RuntimeJoinsProducer, RuntimeLeaves, RuntimeStates, ConsumerStates
  <2>3. runtimeEvents # <<Metadata>> /\ runtimeEvents # <<Exhausted>>
    BY <2>1 DEF EndInv
  <2> QED
    BY <2>2, <2>3 DEF EndInv, Failed, Metadata
<1>7. CASE ConsumerPuts
  <2>1. /\ consumer.at = "putting" /\ UNCHANGED <<producer, events, tool>>
        /\ consumer'.at = "next" /\ consumer'.item = NoItem
        /\ runtime'.at = IF consumer.item \in PublicItems THEN "getting" ELSE "awaiting"
    BY <1>0, <1>7 DEF ConsumerPuts, OutsideRuntime, ConsumerStates, RuntimeStates
  <2>2. runtimeEvents' = <<consumer.item>>
    BY <1>0, <1>7, SlotPut DEF ConsumerPuts, PutReturns
  <2>3. consumer.item # Exhausted
    BY <2>1 DEF ItemInv
  <2>4. consumer.item = Metadata => Quiet' /\ events' = <<>> /\ runtime'.at = "awaiting"
    <3>1. Quiet => Quiet'
      BY <2>1, QuietStays
    <3> QED
      BY <2>1, <3>1, Marks DEF EndInv
  <2> QED
    BY <2>1, <2>2, <2>3, <2>4 DEF EndInv, NoItem, Metadata
<1>8. CASE ConsumerPutsFailure
  <2>1. /\ consumer.item \in Failures /\ runtime.at = "closed" /\ UNCHANGED runtime
        /\ consumer'.at = "over" /\ consumer'.item = NoItem
    BY <1>0, <1>8 DEF ConsumerPutsFailure, ItemInv, ConsumerStates
  <2>2. runtimeEvents' = <<consumer.item>>
    BY <1>0, <1>8, SlotPut DEF ConsumerPutsFailure, PutReturns
  <2>3. consumer.item # Metadata
    BY <2>1 DEF Failures, Failed, Metadata
  <2> QED
    BY <2>1, <2>2, <2>3 DEF EndInv, NoItem, Metadata
<1> QED
  BY <1>2, <1>3, <1>4, <1>5, <1>6, <1>7, <1>8, RuntimeMoves DEF Runtime
LEMMA EndStep ==
    TypeInv /\ SpanInv /\ ConsumerInv /\ SlotInv /\ ItemInv /\ AgentInv /\ DeliveredInv
      /\ FlowInv /\ EndInv /\ [Next]_vars
      => EndInv'
<1> SUFFICES ASSUME TypeInv, SpanInv, ConsumerInv, SlotInv, ItemInv, AgentInv, DeliveredInv,
                    FlowInv, EndInv, [Next]_vars, Forwarding'
             PROVE  EndInv'
  BY DEF EndInv
<1>0. /\ Forwarding /\ consumer \in ConsumerStates /\ runtime \in RuntimeStates
      /\ service \in ServiceStates
  BY ForwardingSteps DEF TypeInv, TypeOK, ConsumerTypes
<1>1. Quiet => Quiet'
  BY QuietStays
<1>2. (Quiet /\ events = <<>>) => (Quiet' /\ events' = <<>>)
  BY QuietStays
<1>3. CASE AgentSide
  <2>1. UNCHANGED <<runtime, consumer, runtimeEvents>>
    BY <1>3, AgentPuts DEF OutsideAgent, innerVars
  <2> QED
    BY <1>0, <1>1, <1>2, <2>1 DEF EndInv
<1>4. CASE Runtime
  BY <1>0, <1>4, EndRuntime
<1>5. CASE ServiceStarts \/ UNCHANGED <<frames, agentVars, innerVars>>
  <2>1. UNCHANGED <<runtime, consumer, runtimeEvents>>
    BY <1>5 DEF ServiceStarts, innerVars
  <2> QED
    BY <1>0, <1>1, <1>2, <2>1 DEF EndInv
<1>6. CASE ServiceOpensRuntime
  <2>1. Unopened /\ Pending
    BY <1>6 DEF ServiceOpensRuntime, ResumedAt, Unopened, Pending
  <2>2. runtime.at = "none" /\ consumer.at = "none"
    BY <2>1 DEF SpanInv, SpanHeld, ConsumerInv
  <2>3. runtimeEvents = <<>> /\ consumer.item = NoItem
    BY <1>0, <2>2 DEF EndInv, ItemInv
  <2>4. /\ runtime'.at = "setup" /\ consumer'.at = "next" /\ consumer'.item = NoItem
        /\ runtimeEvents' = <<>>
    BY <1>0, <1>6, <2>3 DEF ServiceOpensRuntime, RuntimeStates, ConsumerStates
  <2> QED
    BY <2>4 DEF EndInv, NoItem, Metadata
<1>7. CASE ServiceForwards
  <2>1. /\ Head(runtimeEvents) \in PublicItems /\ runtimeEvents # <<>>
        /\ runtimeEvents' = <<>> /\ UNCHANGED <<agentVars, runtime, consumer>>
    BY <1>7, NextForwarded DEF ServiceForwards, Takes
  <2>2. consumer.at # "over"
    <3>1. \A f \in Failures : runtimeEvents # <<f>>
      BY <2>1, Marks
    <3>2. runtimeEvents \notin {<<>>, <<Exhausted>>}
      BY <2>1, Marks
    <3> QED
      BY <1>0, <3>1, <3>2 DEF EndInv
  <2> QED
    BY <1>0, <1>1, <1>2, <2>1, <2>2 DEF EndInv, agentVars
<1> QED
  BY <1>3, <1>4, <1>5, <1>6, <1>7, ForwardingSteps

-----------------------------------------------------------------------------
\* A frame appended to the history is the only one that can be new in it.
LEMMA NewlyHeld ==
    ASSUME frames \in Seq(Frames), NEW f, frames' = Append(frames, f), Holds("metadata")'
    PROVE  Holds("metadata") \/ f.type = "metadata"
<1>1. /\ Len(frames') = Len(frames) + 1 /\ Len(frames) \in Nat
      /\ frames'[Len(frames) + 1] = f
      /\ \A j \in 1..Len(frames) : frames'[j] = frames[j]
  OBVIOUS
<1>2. PICK i \in 1..Len(frames') : frames'[i].type = "metadata"
  BY DEF Holds
<1>3. i = Len(frames) + 1 \/ i \in 1..Len(frames)
  BY <1>1, <1>2
<1> QED
  BY <1>1, <1>2, <1>3 DEF Holds

\* Only a step that yields the summary makes a turn summed up.
LEMMA SummedSteps ==
    ASSUME TypeInv, [Next]_vars, SummedUp', ~SummedUp
    PROVE  ServiceSumsUp
<1>0. service \in ServiceStates /\ frames \in Seq(Frames)
  BY DEF TypeInv, TypeOK, ReaderTypes
<1>1. CASE QuietStep
  <2>1. service'.at = "atFallback" => service.at = "atFallback"
    BY <1>0, <1>1 DEF QuietStep, ServiceStates
  <2> QED
    BY <1>1, <2>1 DEF QuietStep, SummedUp, Holds
<1>2. ASSUME NEW f, frames' = Append(frames, f), f.type # "metadata"
      PROVE  ~Holds("metadata")'
  BY <1>0, <1>2, NewlyHeld DEF SummedUp
<1>3. ASSUME NEW f, frames' = Append(frames, f), f.type # "metadata",
             service'.at # "atFallback"
      PROVE  FALSE
  BY <1>2, <1>3 DEF SummedUp
<1>4. CASE ServiceStarts
  <2>1. frames' = Append(frames, SessionFrame) /\ service'.at = "atSession"
    BY <1>0, <1>4 DEF ServiceStarts, Yields, ServiceStates
  <2> QED
    BY <2>1, <1>3 DEF SessionFrame
<1>5. CASE ServiceDeadline \/ ServiceReportsFailure
  <2>1. PICK status : frames' = Append(frames, ErrorFrame(status)) /\ service'.at = "atError"
    BY <1>0, <1>5 DEF ServiceDeadline, ServiceReportsFailure, YieldsError, Yields, ServiceStates
  <2> QED
    BY <2>1, <1>3 DEF ErrorFrame
<1>6. CASE ServiceForwards
  <2>1. /\ frames' = Append(frames, Head(runtimeEvents)) /\ service'.at = "atEvent"
        /\ Head(runtimeEvents) \in PublicItems
    BY <1>0, <1>6 DEF ServiceForwards, Takes, Yields, ServiceStates
  <2> QED
    BY <2>1, <1>3, PublicKinds
<1>7. CASE ServiceSumsUpFallback
  BY <1>7 DEF ServiceSumsUpFallback, ResumedAt, SummedUp
<1>8. CASE ServiceFinishes
  <2>1. frames' = Append(frames, DoneFrame) /\ service'.at = "atDone"
    BY <1>0, <1>8 DEF ServiceFinishes, Yields, ServiceStates
  <2> QED
    BY <2>1, <1>3 DEF DoneFrame
<1> QED
  BY <1>1, <1>4, <1>5, <1>6, <1>7, <1>8, QuietSteps DEF Yielding

LEMMA SummedStep ==
    TypeInv /\ SpanInv /\ SlotInv /\ ItemInv /\ AgentInv /\ DeliveredInv /\ FlowInv /\ EndInv
      /\ SummaryInv /\ [Next]_vars
      => SummaryInv'
<1> SUFFICES ASSUME TypeInv, SpanInv, SlotInv, ItemInv, AgentInv, DeliveredInv, FlowInv,
                    EndInv, SummaryInv, [Next]_vars, SummedUp'
             PROVE  Quiet' /\ Shown' = Len(emitted') /\ ~Forwarding'
  BY DEF SummaryInv
<1>0. /\ frames \in Seq(Frames) /\ service \in ServiceStates
      /\ runtimeEvents \in Seq(RuntimeItems) /\ Shown \in Nat
  <2>1. frames \in Seq(Frames)
    BY DEF TypeInv, TypeOK, ReaderTypes
  <2>2. Len(frames) \in Nat
    BY <2>1
  <2> QED
    BY <2>1, <2>2, Ranks DEF Shown, TypeInv, TypeOK, ConsumerTypes
<1>1. CASE SummedUp
  <2>1. Quiet /\ Shown = Len(emitted) /\ ~Forwarding
    BY <1>1 DEF SummaryInv
  <2>2. Quiet' /\ emitted' = emitted
    BY <2>1, QuietStays
  <2>3. ~Forwarding'
    BY <2>1, ForwardingSteps
  <2>4. Shown' = Shown
    <3>1. CASE UNCHANGED frames
      BY <3>1 DEF Shown, Rank, Delivered
    <3>2. CASE ServiceForwards
      BY <2>1, <3>2, NextForwarded
    <3>3. ASSUME NEW f \in Frames \ PublicItems, frames' = Append(frames, f)
          PROVE  Shown' = Shown
      BY <1>0, <3>3, RankAppended
    <3> QED
      BY <3>1, <3>2, <3>3, FrameSteps
  <2> QED
    BY <2>1, <2>2, <2>3, <2>4
<1>2. CASE ~SummedUp
  <2>1. ServiceSumsUp
    BY <1>2, SummedSteps
  <2>2. Forwarding /\ (Takes({Metadata, Exhausted}) \/ (RuntimeDrained /\ UNCHANGED runtimeEvents))
    BY <2>1 DEF ServiceSumsUp, Takes, LoopTop, ResumedAt, Forwarding
  <2>3. runtimeEvents = <<Metadata>> \/ runtimeEvents = <<Exhausted>>
          \/ (consumer.at = "over" /\ runtimeEvents = <<>>)
    <3>1. CASE Takes({Metadata, Exhausted})
      <4>1. runtimeEvents # <<>> /\ Head(runtimeEvents) \in {Metadata, Exhausted}
        BY <3>1 DEF Takes
      <4>2. runtimeEvents = <<Head(runtimeEvents)>>
        BY <1>0, <4>1, SlotTaken DEF SlotInv
      <4> QED
        BY <4>1, <4>2
    <3> QED
      BY <2>2, <3>1 DEF RuntimeDrained
  <2>4. \A f \in Failures : f # Exhausted
    BY DEF Failures, Failed, Exhausted
  <2>5. Quiet /\ events = <<>> /\ consumer.at \in {"next", "over"}
    BY <2>2, <2>3, <2>4 DEF EndInv
  <2>6. Count(events) = 0 /\ Held = 0 /\ Count(runtimeEvents) = 0
    <3>1. consumer.item = NoItem
      BY <2>5 DEF ItemInv
    <3> QED
      BY <2>3, <2>5, <3>1, Marks DEF Count, Held
  <2>7. Shown = Len(emitted)
    BY <1>0, <2>2, <2>6 DEF FlowInv, Queued
  <2>8. Quiet' /\ emitted' = emitted
    BY <2>5, QuietStays
  <2>9. /\ service'.at \in {"atMetadata", "atFallback"}
        /\ \E f \in Frames \ PublicItems : frames' = Append(frames, f)
    BY <1>0, <2>1, MadeItems, Marks DEF ServiceSumsUp, YieldsSummary, Yields, ServiceStates
  <2>10. Shown' = Shown
    BY <1>0, <2>9, RankAppended
  <2> QED
    BY <2>7, <2>8, <2>9, <2>10 DEF Forwarding
<1> QED
  BY <1>1, <1>2
LEMMA FlowInit ==
    Init => /\ SlotInv /\ ItemInv /\ AgentInv /\ DeliveredInv /\ FlowInv /\ EndInv
            /\ SummaryInv
<1> SUFFICES ASSUME Init
             PROVE  /\ SlotInv /\ ItemInv /\ AgentInv /\ DeliveredInv /\ FlowInv /\ EndInv
                    /\ SummaryInv
  OBVIOUS
<1>1. frames = <<>> /\ emitted = <<>> /\ events = <<>> /\ runtimeEvents = <<>>
  BY DEF Init
<1>2. Delivered(Len(frames)) = {} /\ Shown = 0
  <2>1. Delivered(Len(frames)) = {}
    BY <1>1 DEF Delivered
  <2> QED
    BY <2>1, FS_EmptySet DEF Shown, Rank
<1>3. SlotInv /\ ItemInv /\ AgentInv
  BY <1>1 DEF Init, SlotInv, ItemInv, AgentInv
<1>4. DeliveredInv
  BY <1>1, <1>2 DEF DeliveredInv
<1>5. FlowInv
  <2>1. Held = 0
    BY Marks DEF Init, Held
  <2> QED
    BY <1>1, <1>2, <2>1, Counts DEF FlowInv, Queued
<1>6. EndInv
  BY <1>1 DEF Init, EndInv, NoItem, Metadata
<1>7. SummaryInv
  BY <1>1 DEF Init, SummaryInv, SummedUp, Holds
<1> QED
  BY <1>3, <1>4, <1>5, <1>6, <1>7

PipelineInv ==
    /\ SlotInv /\ ItemInv /\ AgentInv
    /\ DeliveredInv /\ FlowInv /\ EndInv /\ SummaryInv

LEMMA PipelineInvariant == Spec => []PipelineInv
<1>1. Init => PipelineInv
  BY FlowInit DEF PipelineInv
<1>2. TypeInv /\ ConsumerInv /\ SpanInv /\ PipelineInv /\ [Next]_vars => PipelineInv'
  BY SlotStep, ItemStep, AgentInvStep, DeliveredStep, FlowStep, EndStep, SummedStep
     DEF PipelineInv
<1> QED
  BY <1>1, <1>2, TypeInit, TypeStep, ConsumerInit, ConsumerStep, SpanInit, SpanStep, PTL
     DEF Spec

\* Every token and tool event of the agent reaches the reader in the order it
\* was put, none twice and none skipped, whatever cuts the turn; and a turn that
\* is summed up has yielded them all.
THEOREM AnswerAlwaysInOrder == Spec => []AnswerInOrder
<1>1. TypeInv /\ PipelineInv => AnswerInOrder
  <2> SUFFICES ASSUME TypeInv, PipelineInv PROVE AnswerInOrder
    OBVIOUS
  <2>1. frames \in Seq(Frames) /\ emitted \in Seq(PublicItems)
    BY DEF TypeInv, TypeOK, AgentTypes, ReaderTypes
  <2>2. Len(frames) \in Nat /\ Len(emitted) \in Nat
    BY <2>1
  <2>3. Shown \in Nat /\ Shown <= Len(emitted)
    BY <2>2, Ranks DEF Shown, PipelineInv, DeliveredInv
  <2>4. ASSUME NEW i \in Delivered(Len(frames))
        PROVE  Rank(i) <= Len(emitted) /\ frames[i] = emitted[Rank(i)]
    <3>1. i \in Nat /\ i <= Len(frames)
      BY <2>2 DEF Delivered
    <3>2. Rank(i) \in Nat /\ Rank(i) <= Shown
      BY <2>2, <3>1, Ranks DEF Shown
    <3> QED
      BY <2>2, <2>3, <3>2 DEF PipelineInv, DeliveredInv
  <2>5. Holds("metadata") => Rank(Len(frames)) = Len(emitted)
    BY DEF PipelineInv, SummaryInv, SummedUp, Shown
  <2> QED
    BY <2>4, <2>5 DEF AnswerInOrder
<1> QED
  BY <1>1, TypeInvariant, PipelineInvariant, PTL

-----------------------------------------------------------------------------
(* The cards.  A call that has not announced itself has put nothing, one that *)
(* runs has put its announcement alone, and one that is over no more than its  *)
(* result behind it; what the client is shown is that, in that order.          *)

LEMMA CardStep ==
    ASSUME TypeInv, CardsInv, NEW item \in PublicItems, emitted' = Append(emitted, item)
    PROVE  /\ \A c \in Calls :
                ~(item.type = "tool" /\ item.call = c) => CardOn(c)' = CardOn(c)
           /\ \A c \in Calls :
                (item.type = "tool" /\ item.call = c) =>
                   CardOn(c)' = CardOn(c) \cup {Len(emitted) + 1}
           /\ \A c \in Calls : \A i \in CardOn(c) :
                i \in 1..Len(emitted) /\ emitted'[i] = emitted[i]
           /\ emitted'[Len(emitted) + 1] = item
<1>1. emitted \in Seq(PublicItems)
  BY DEF TypeInv, TypeOK, AgentTypes
<1>2. /\ Len(emitted') = Len(emitted) + 1 /\ Len(emitted) \in Nat
      /\ emitted'[Len(emitted) + 1] = item
      /\ \A j \in 1..Len(emitted) : emitted'[j] = emitted[j]
  BY <1>1
<1> QED
  BY <1>2 DEF CardOn

LEMMA CardsStep == TypeInv /\ AgentInv /\ CardsInv /\ [Next]_vars => CardsInv'
<1> SUFFICES ASSUME TypeInv, AgentInv, CardsInv, [Next]_vars PROVE CardsInv'
  OBVIOUS
<1>0. /\ tool \in [Calls -> {"idle", "announcing", "executing", "ok", "error", "over"}]
      /\ emitted \in Seq(PublicItems)
  BY DEF TypeInv, TypeOK, AgentTypes
<1>1. CASE UNCHANGED <<tool, emitted>>
  BY <1>1 DEF CardsInv, CardOn
<1>2. ASSUME UNCHANGED emitted,
             \A c \in Calls : \/ tool'[c] = tool[c]
                              \/ tool[c] = "idle" /\ tool'[c] = "announcing"
                              \/ tool[c] = "executing" /\ tool'[c] \in {"ok", "error"}
                              \/ tool'[c] = "over"
      PROVE  CardsInv'
  <2>1. \A c \in Calls : CardOn(c)' = CardOn(c)
    BY <1>2 DEF CardOn
  <2> SUFFICES ASSUME NEW c \in Calls
               PROVE  /\ tool'[c] \in {"idle", "announcing"} => CardOn(c) = {}
                      /\ tool'[c] \in {"executing", "ok", "error"} =>
                           CardOn(c) # {} /\ \A i \in CardOn(c) : emitted[i].status = "running"
                      /\ \A i, j \in CardOn(c) :
                           i < j => emitted[i].status = "running" /\ emitted[j].status # "running"
                      /\ \A j \in CardOn(c) :
                           emitted[j].status # "running" => \E i \in CardOn(c) : i < j
    BY <1>2, <2>1 DEF CardsInv
  <2> QED
    BY <1>2 DEF CardsInv
<1>3. ASSUME NEW item \in PublicItems, emitted' = Append(emitted, item),
             item.type # "tool", UNCHANGED tool
      PROVE  CardsInv'
  <2>1. \A c \in Calls : CardOn(c)' = CardOn(c) /\ \A i \in CardOn(c) : emitted'[i] = emitted[i]
    BY <1>3, CardStep
  <2> SUFFICES ASSUME NEW c \in Calls
               PROVE  /\ tool'[c] \in {"idle", "announcing"} => CardOn(c)' = {}
                      /\ tool'[c] \in {"executing", "ok", "error"} =>
                           CardOn(c)' # {} /\ \A i \in CardOn(c)' : emitted'[i].status = "running"
                      /\ \A i, j \in CardOn(c)' :
                           i < j => emitted'[i].status = "running" /\ emitted'[j].status # "running"
                      /\ \A j \in CardOn(c)' :
                           emitted'[j].status # "running" => \E i \in CardOn(c)' : i < j
    BY DEF CardsInv
  <2>2. CardOn(c)' = CardOn(c) /\ \A i \in CardOn(c) : emitted'[i] = emitted[i]
    BY <2>1
  <2>3. /\ tool[c] \in {"idle", "announcing"} => CardOn(c) = {}
        /\ tool[c] \in {"executing", "ok", "error"} =>
             CardOn(c) # {} /\ \A i \in CardOn(c) : emitted[i].status = "running"
        /\ \A i, j \in CardOn(c) :
             i < j => emitted[i].status = "running" /\ emitted[j].status # "running"
        /\ \A j \in CardOn(c) : emitted[j].status # "running" => \E i \in CardOn(c) : i < j
    BY DEF CardsInv
  <2>4. tool'[c] = tool[c]
    BY <1>3
  <2> QED
    BY <2>2, <2>3, <2>4
<1>4. ASSUME NEW call \in Calls, NEW status \in {"running", "ok", "error"},
             emitted' = Append(emitted, ToolEvent(call, status)),
             \A c \in Calls \ {call} : tool'[c] = tool[c],
             \/ /\ status = "running" /\ tool[call] = "announcing"
                /\ tool'[call] = "executing"
             \/ /\ status # "running" /\ tool[call] \in {"ok", "error"}
                /\ tool'[call] = "over"
      PROVE  CardsInv'
  <2> DEFINE item == ToolEvent(call, status)
             last == Len(emitted) + 1
  <2>1. item \in PublicItems /\ item.type = "tool" /\ item.call = call /\ item.status = status
    BY MadeItems DEF ToolEvent
  <2>2. /\ \A c \in Calls \ {call} : CardOn(c)' = CardOn(c)
        /\ CardOn(call)' = CardOn(call) \cup {last}
        /\ \A c \in Calls : \A i \in CardOn(c) :
             i \in 1..Len(emitted) /\ emitted'[i] = emitted[i]
        /\ emitted'[last] = item
    BY <1>4, <2>1, CardStep
  <2>3. last \in Nat /\ \A i \in CardOn(call) : i \in Nat /\ i < last
    BY <1>0, <2>2
  <2> HIDE DEF item, last
  <2> SUFFICES ASSUME NEW c \in Calls
               PROVE  /\ tool'[c] \in {"idle", "announcing"} => CardOn(c)' = {}
                      /\ tool'[c] \in {"executing", "ok", "error"} =>
                           CardOn(c)' # {} /\ \A i \in CardOn(c)' : emitted'[i].status = "running"
                      /\ \A i, j \in CardOn(c)' :
                           i < j => emitted'[i].status = "running" /\ emitted'[j].status # "running"
                      /\ \A j \in CardOn(c)' :
                           emitted'[j].status # "running" => \E i \in CardOn(c)' : i < j
    BY DEF CardsInv
  <2>4. CASE c # call
    BY <1>4, <2>2, <2>4 DEF CardsInv
  <2>5. CASE c = call /\ status = "running"
    <3>1. CardOn(call) = {}
      BY <1>4, <2>5 DEF CardsInv
    <3>2. CardOn(c)' = {last}
      BY <2>2, <2>5, <3>1
    <3>3. emitted'[last].status = "running" /\ tool'[c] = "executing"
      BY <1>4, <2>1, <2>2, <2>5
    <3>4. ~(last < last)
      BY <2>3
    <3> QED
      BY <3>2, <3>3, <3>4
  <2>6. CASE c = call /\ status # "running"
    <3>1. CardOn(call) # {} /\ \A i \in CardOn(call) : emitted[i].status = "running"
      BY <1>4, <2>6 DEF CardsInv
    <3>2. tool'[c] = "over"
      BY <1>4, <2>6
    <3>3. \A i, j \in CardOn(call) : ~(i < j)
      BY <3>1 DEF CardsInv
    <3>4. ASSUME NEW i \in CardOn(c)', NEW j \in CardOn(c)', i < j
          PROVE  emitted'[i].status = "running" /\ emitted'[j].status # "running"
      BY <2>1, <2>2, <2>3, <2>6, <3>1, <3>3, <3>4
    <3>5. ASSUME NEW j \in CardOn(c)', emitted'[j].status # "running"
          PROVE  \E i \in CardOn(c)' : i < j
      BY <2>2, <2>3, <2>6, <3>1, <3>5
    <3> QED
      BY <3>2, <3>4, <3>5
  <2> QED
    BY <2>4, <2>5, <2>6
<1>5. CASE Agent
  <2>1. UNCHANGED emitted
    BY <1>5 DEF Agent, AgentWritesToken, AgentCallsTools, AgentEnds, AgentDies
  <2>2. CASE AgentCallsTools
    <3>1. \A c \in Calls : tool'[c] = tool[c] \/ (tool[c] = "idle" /\ tool'[c] = "announcing")
      BY <1>0, <2>2 DEF AgentCallsTools
    <3> QED
      BY <1>2, <2>1, <3>1
  <2>3. CASE AgentWritesToken \/ AgentEnds \/ AgentDies
    BY <1>1, <2>1, <2>3 DEF AgentWritesToken, AgentEnds, AgentDies
  <2> QED
    BY <1>5, <2>2, <2>3 DEF Agent
<1>6. CASE ProducerPuts
  <2>1. producer.item \in EventItems /\ Puts(producer.item) /\ UNCHANGED tool
        /\ producer.at = "putting"
    BY <1>6 DEF ProducerPuts, TypeInv, PutTypes
  <2>2. CASE producer.item \in PublicItems
    <3>1. producer.item.type # "tool"
      BY <2>1 DEF AgentInv
    <3> QED
      BY <1>3, <2>1, <2>2, <3>1 DEF Puts
  <2>3. CASE producer.item \notin PublicItems
    BY <1>1, <2>1, <2>3 DEF Puts
  <2> QED
    BY <2>2, <2>3
<1>7. CASE ProducerHonoursCancel
  <2>1. /\ UNCHANGED emitted
        /\ \A c \in Calls : tool'[c] = tool[c] \/ tool'[c] = "over"
    BY <1>0, <1>7 DEF ProducerHonoursCancel
  <2> QED
    BY <1>2, <2>1
<1>8. CASE Tools
  <2>1. PICK call \in Calls : ToolAnnounces(call) \/ ToolReturns(call) \/ ToolReports(call)
    BY <1>8 DEF Tools
  <2>2. CASE ToolAnnounces(call)
    <3>1. emitted' = Append(emitted, ToolEvent(call, "running"))
      BY <2>2, MadeItems DEF ToolAnnounces, Puts
    <3>2. /\ \A c \in Calls \ {call} : tool'[c] = tool[c]
          /\ tool[call] = "announcing" /\ tool'[call] = "executing"
      BY <1>0, <2>2 DEF ToolAnnounces
    <3> QED
      BY <1>4, <3>1, <3>2
  <2>3. CASE ToolReturns(call)
    <3>1. UNCHANGED emitted
      BY <2>3 DEF ToolReturns
    <3>2. \A c \in Calls : tool'[c] = tool[c]
                            \/ (tool[c] = "executing" /\ tool'[c] \in {"ok", "error"})
      BY <1>0, <2>3 DEF ToolReturns
    <3> QED
      BY <1>2, <3>1, <3>2
  <2>4. CASE ToolReports(call)
    <3>1. tool[call] \in {"ok", "error"}
      BY <2>4 DEF ToolReports
    <3>2. emitted' = Append(emitted, ToolEvent(call, tool[call]))
      BY <2>4, <3>1, MadeItems DEF ToolReports, Puts
    <3>3. /\ \A c \in Calls \ {call} : tool'[c] = tool[c]
          /\ tool'[call] = "over"
      BY <1>0, <2>4 DEF ToolReports
    <3> QED
      BY <1>4, <3>1, <3>2, <3>3
  <2> QED
    BY <2>1, <2>2, <2>3, <2>4
<1> QED
  BY <1>1, <1>5, <1>6, <1>7, <1>8, AgentAlone DEF AgentSide

\* What the reader holds of a call is what the agent put of it, in that order.
\* A client pairs the frames of a call into one card: the call is announced
\* first, and one result at most follows it.
THEOREM ToolCardsAlwaysPaired == Spec => []ToolCardsPaired
<1>1. TypeInv /\ PipelineInv /\ CardsInv => ToolCardsPaired
  <2> SUFFICES ASSUME TypeInv, PipelineInv, CardsInv, NEW c \in Calls, NEW i \in CardOf(c)
               PROVE  LET earlier == {j \in CardOf(c) : j < i}
                      IN  Cardinality(earlier) = IF frames[i].status = "running" THEN 0 ELSE 1
    BY DEF ToolCardsPaired
  <2> DEFINE earlier == {j \in CardOf(c) : j < i}
  <2>1. frames \in Seq(Frames) /\ emitted \in Seq(PublicItems)
    BY DEF TypeInv, TypeOK, AgentTypes, ReaderTypes
  <2>2. Len(frames) \in Nat /\ Len(emitted) \in Nat
    BY <2>1
  <2>3. \A j \in CardOf(c) : j \in 1..Len(frames) /\ frames[j] \in PublicItems
    <3>1. \A f \in Frames : f.type = "tool" => f \in PublicItems
      BY DEF Frames, SessionFrame, Token, DoneFrame, MetadataFrame, ErrorFrame
    <3> QED
      BY <2>1, <2>2, <3>1 DEF CardOf
  <2>4. \A j \in CardOf(c) : j \in Nat /\ j \in Delivered(j) /\ j \in Delivered(Len(frames))
    BY <2>2, <2>3 DEF Delivered
  <2>5. Shown \in Nat /\ Shown <= Len(emitted)
    BY <2>2, Ranks DEF Shown, PipelineInv, DeliveredInv
  <2>6. \A j \in CardOf(c) :
          /\ Rank(j) \in 1..Shown /\ Rank(j) \in CardOn(c)
          /\ emitted[Rank(j)] = frames[j]
    <3> SUFFICES ASSUME NEW j \in CardOf(c)
                 PROVE  /\ Rank(j) \in 1..Shown /\ Rank(j) \in CardOn(c)
                        /\ emitted[Rank(j)] = frames[j]
      OBVIOUS
    <3>1. Rank(j) \in Nat /\ Rank(j) >= 1 /\ Rank(j) <= Shown
      BY <2>2, <2>3, <2>4, Ranks DEF Shown
    <3>2. emitted[Rank(j)] = frames[j]
      BY <2>4 DEF PipelineInv, DeliveredInv
    <3>3. Rank(j) \in 1..Len(emitted)
      BY <2>2, <2>5, <3>1
    <3> QED
      BY <2>5, <3>1, <3>2, <3>3 DEF CardOf, CardOn
  <2>7. \A j, k \in CardOf(c) : j < k => Rank(j) < Rank(k)
    BY <2>4, Ranks
  <2>8. CASE frames[i].status = "running"
    <3>1. earlier = {}
      BY <2>6, <2>7, <2>8 DEF CardsInv
    <3> QED
      BY <2>8, <3>1, FS_EmptySet
  <2>9. CASE frames[i].status # "running"
    <3>1. PICK n \in CardOn(c) : n < Rank(i)
      BY <2>6, <2>9 DEF CardsInv
    <3>2. n \in 1..Shown
      BY <2>2, <2>5, <2>6, <3>1 DEF CardOn
    <3>3. PICK j \in Delivered(Len(frames)) : Rank(j) = n
      BY <3>2 DEF PipelineInv, DeliveredInv
    <3>4. j \in 1..Len(frames) /\ j \in Nat
      BY <2>2, <3>3 DEF Delivered
    <3>5. j \in CardOf(c)
      <4>1. frames[j] = emitted[n]
        BY <3>3 DEF PipelineInv, DeliveredInv
      <4> QED
        BY <3>1, <3>4, <4>1 DEF CardOf, CardOn
    <3>6. j < i
      <4>1. ~(i < j) /\ i # j
        BY <2>4, <2>6, <2>7, <3>1, <3>2, <3>3, <3>5
      <4> QED
        BY <2>4, <3>4, <4>1
    <3>7. \A k \in CardOf(c) : k < i => k = j
      <4> SUFFICES ASSUME NEW k \in CardOf(c), k < i, k # j PROVE FALSE
        OBVIOUS
      <4>1. k < j \/ j < k
        BY <2>4, <3>5
      <4>2. CASE k < j
        BY <2>6, <2>7, <3>5, <3>6, <4>2 DEF CardsInv
      <4>3. CASE j < k
        BY <2>6, <2>7, <3>5, <3>6, <4>3 DEF CardsInv
      <4> QED
        BY <4>1, <4>2, <4>3
    <3>8. earlier = {j}
      BY <3>5, <3>6, <3>7
    <3> QED
      BY <2>9, <3>8, FS_Singleton
  <2> QED
    BY <2>8, <2>9
<1>2. Init => CardsInv
  BY DEF Init, CardsInv, CardOn
<1>3. TypeInv /\ PipelineInv => AgentInv
  BY DEF PipelineInv
<1> QED
  BY <1>1, <1>2, <1>3, CardsStep, TypeInvariant, PipelineInvariant, PTL DEF Spec
=============================================================================
