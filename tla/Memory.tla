------------------------------- MODULE Memory -------------------------------
(***************************************************************************)
(* The memory of one conversation: the messages LangGraph checkpoints for  *)
(* a thread, the turns that load, extend and rewrite them, the middleware  *)
(* that repairs and trims what the model is sent, and the retention sweep. *)
(* Turns may overlap: a client can send the next question while the agent  *)
(* of a turn it left still runs, or from a second tab.  A turn can be cut  *)
(* at any step (Stop, a disconnect, the deadline, a crash).  A step is one *)
(* of the agent's graph and ends with a checkpoint of the turn's own       *)
(* state; the newest checkpoint is the thread's.                           *)
(***************************************************************************)
EXTENDS Integers, Sequences, SequencesExt

CONSTANTS
    Turns,          \* the turns on the thread
    MaxTurns,       \* agent.max_turns: the turns a request may carry
    MaxCalls        \* bound: tool calls of a turn

ASSUME TurnsAssumption == MaxTurns \in Nat \ {0} /\ MaxCalls \in Nat

VARIABLES
    thread,         \* the messages of the thread's newest checkpoint
    turn,           \* each turn: [at, state, got, calls]
    stale,          \* the newest checkpoint is older than the retention
    selected        \* the sweep has chosen the thread and not deleted it yet

vars == <<thread, turn, stale, selected>>

-----------------------------------------------------------------------------
(* Messages.                                                               *)

Human(t) == [type |-> "human", turn |-> t]
Ai(t, calls) == [type |-> "ai", turn |-> t, calls |-> calls]
Answer(c, real) == [type |-> "tool", call |-> c, real |-> real]
Batch(t, m, n) == [i \in 1..n |-> [turn |-> t, n |-> m + i]]

Positions(s, type) == {i \in DOMAIN s : s[i].type = type}
AnsweredIn(s) == {s[i].call : i \in Positions(s, "tool")}

\* The answers to those of the calls that are in `to`, in the order of the calls.
Answers(calls, to, real) ==
    FlattenSeq([j \in DOMAIN calls |-> IF calls[j] \in to THEN <<Answer(calls[j], real)>> ELSE <<>>])

\* The synthetic answers a message is to be followed by, and the repaired list.
Missing(s, i) ==
    IF s[i].type # "ai" THEN <<>>
    ELSE Answers(s[i].calls, ToSet(s[i].calls) \ AnsweredIn(s), FALSE)

\* Mutant: the answers are appended, as the messages channel would.
RepairAtEnd(s) == s \o FlattenSeq([i \in DOMAIN s |-> Missing(s, i)])

Repair(s) == FlattenSeq([i \in DOMAIN s |-> <<s[i]>> \o Missing(s, i)])

\* Mutant: every message counts as a turn.
TrimMessages(s) == SubSeq(s, IF Len(s) > MaxTurns THEN Len(s) - MaxTurns + 1 ELSE 1, Len(s))

\* The last MaxTurns turns: from the human message they begin with.
Trim(s) ==
    LET starts == Positions(s, "human")
        retained == CHOOSE i \in starts : Cardinality({j \in starts : j >= i}) = MaxTurns
    IN  IF Cardinality(starts) <= MaxTurns THEN s ELSE SubSeq(s, retained, Len(s))

-----------------------------------------------------------------------------
(* The agent's graph.                                                      *)

Init ==
    /\ thread = <<>>
    /\ turn = [t \in Turns |-> [at |-> "new", state |-> <<>>, got |-> {}, calls |-> 0]]
    /\ stale = FALSE /\ selected = FALSE

Active(t) == turn[t].at \in {"before_model", "model", "tools"}

\* Turn t's step ends at `at` with the messages s, and is checkpointed.
Checkpoints(t, at, s, more) ==
    /\ turn' = [turn EXCEPT ![t] = [at |-> at, state |-> s, got |-> {}, calls |-> @.calls + more]]
    /\ thread' = s
    /\ stale' = FALSE
    /\ UNCHANGED selected

\* The turn loads the thread as it is and appends the question.
TurnStarts(t) ==
    /\ turn[t].at = "new"
    /\ Checkpoints(t, "before_model", Append(thread, Human(t)), 0)

BeforeModel(t) ==
    /\ turn[t].at = "before_model"
    /\ Checkpoints(t, "model", Repair(turn[t].state), 0)

\* What the provider is sent.
Request(t) == Trim(turn[t].state)

\* Mutant: the request that was trimmed is what is kept.
ModelKeepsRequest(t) ==
    /\ turn[t].at = "model"
    /\ \E n \in 0..2 :
         /\ turn[t].calls + n <= MaxCalls
         /\ Checkpoints(t, IF n = 0 THEN "over" ELSE "tools",
                        Append(Request(t), Ai(t, Batch(t, turn[t].calls, n))), n)

\* The model answers, or asks for one tool or for two in parallel.
Model(t) ==
    /\ turn[t].at = "model"
    /\ \E n \in 0..2 :
         /\ turn[t].calls + n <= MaxCalls
         /\ Checkpoints(t, IF n = 0 THEN "over" ELSE "tools",
                        Append(turn[t].state, Ai(t, Batch(t, turn[t].calls, n))), n)

Asked(t) == LET s == turn[t].state IN s[Len(s)].calls
AnswersOf(t, got) == Answers(Asked(t), got, TRUE)

ToolAnswers(t) ==
    /\ turn[t].at = "tools"
    /\ \E c \in ToSet(Asked(t)) \ turn[t].got : turn' = [turn EXCEPT ![t].got = @ \cup {c}]
    /\ UNCHANGED <<thread, stale, selected>>

ToolsEnd(t) ==
    /\ turn[t].at = "tools" /\ turn[t].got = ToSet(Asked(t))
    /\ Checkpoints(t, "before_model", turn[t].state \o AnswersOf(t, turn[t].got), 0)

\* The turn dies between two checkpoints.  Of a batch that was half done, the
\* answers that came may be kept with the checkpoint or lost with the turn.
Cut(t) ==
    /\ Active(t)
    /\ turn' = [turn EXCEPT ![t].at = "cut", ![t].got = {}]
    /\ \/ UNCHANGED thread
       \/ /\ turn[t].at = "tools" /\ thread = turn[t].state
          /\ thread' = thread \o AnswersOf(t, turn[t].got)
    /\ UNCHANGED <<stale, selected>>

-----------------------------------------------------------------------------
(* The retention sweep: it selects the threads whose newest checkpoint is  *)
(* too old, and deletes them afterwards, one by one.                       *)

\* The retention passes; no turn lasts that long.
Ages ==
    /\ thread # <<>> /\ ~stale /\ \A t \in Turns : ~Active(t)
    /\ stale' = TRUE
    /\ UNCHANGED <<thread, turn, selected>>

SweepSelects ==
    /\ stale /\ ~selected /\ thread # <<>>
    /\ selected' = TRUE
    /\ UNCHANGED <<thread, turn, stale>>

\* All of the thread goes together; a turn in flight keeps what it loaded.
SweepDeletes ==
    /\ selected
    /\ thread' = <<>> /\ selected' = FALSE /\ stale' = FALSE
    /\ UNCHANGED turn

\* A failure ends the sweep, not the loop: the next one selects again.
SweepFails ==
    /\ selected
    /\ selected' = FALSE
    /\ UNCHANGED <<thread, turn, stale>>

-----------------------------------------------------------------------------
Next ==
    \/ \E t \in Turns : \/ TurnStarts(t) \/ BeforeModel(t) \/ Model(t)
                        \/ ToolAnswers(t) \/ ToolsEnd(t) \/ Cut(t)
    \/ Ages \/ SweepSelects \/ SweepDeletes \/ SweepFails

Spec == Init /\ [][Next]_vars

-----------------------------------------------------------------------------
(* Properties.                                                             *)

\* A provider accepts a request that opens with a question and in which the
\* calls of every assistant message are answered right after it, each once.
CallsAnswered(s) ==
    \A i \in Positions(s, "ai") :
        LET calls == s[i].calls
        IN  /\ i + Len(calls) <= Len(s)
            /\ {s[i + j] : j \in DOMAIN calls}
                 \subseteq UNION {{Answer(calls[j], TRUE), Answer(calls[j], FALSE)} : j \in DOMAIN calls}
            /\ {s[i + j].call : j \in DOMAIN calls} = ToSet(calls)
AnswersCalled(s) ==
    \A k \in Positions(s, "tool") :
        \E i \in Positions(s, "ai") : i < k /\ k <= i + Len(s[i].calls)

RequestsValid ==
    \A t \in Turns : turn[t].at = "model" =>
        LET r == Request(t)
        IN  r[1].type = "human" /\ CallsAnswered(r) /\ AnswersCalled(r)

RequestsWhole ==
    \A t \in Turns : turn[t].at = "model" =>
        LET r == Request(t)
            s == turn[t].state
            humans == Cardinality(Positions(s, "human"))
        IN  /\ Cardinality(Positions(r, "human")) = IF humans < MaxTurns THEN humans ELSE MaxTurns
            /\ \E i \in Positions(r, "human") : r[i].turn = t
            /\ \E first \in DOMAIN s : r = SubSeq(s, first, Len(s))
            /\ \A k \in Positions(r, "tool") :
                 ~r[k].real => Answer(r[k].call, TRUE) \notin ToSet(s)

\* However turns were cut, overlapped or were swept away, what a turn sends to
\* the model is a sequence the provider accepts (middleware.py,
\* InterruptedToolCallRepairMiddleware).  It carries the question it answers and
\* whole turns before it, as many as there are up to the bound, and every real
\* tool result that the turn's state has of them: the repair never stands in for
\* a result that came.
RequestsSound == RequestsValid /\ RequestsWhole

\* A turn that writes to the thread it last saw only adds to it: the trim and
\* the repair drop no question, no answer and no tool result of the stored
\* history (middleware.py, TrimTurnsMiddleware: "leaving stored checkpoint
\* history untouched").
Genuine(s) == {s[i] : i \in {j \in DOMAIN s : s[j].type = "tool" => s[j].real}}
HistoryKept ==
    [][\A t \in Turns :
         turn'[t].state # turn[t].state /\ (turn[t].at = "new" \/ turn[t].state = thread)
            => Genuine(thread) \subseteq Genuine(thread')]_vars
=============================================================================
