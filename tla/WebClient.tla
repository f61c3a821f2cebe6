------------------------------ MODULE WebClient -----------------------------
(***************************************************************************)
(* The page of the web client (app.js) as the reader of a turn's stream:   *)
(* the turns it asks for, the chunks it splits into frames, what it shows  *)
(* and announces of them, Stop, and the paint timer.  The service is       *)
(* TurnContract, which ChatTurn implements, so that the two compose; the   *)
(* network, which cuts the bytes of the frames where it likes, fails or    *)
(* closes early, and the reader's clicks are the environment.  Whatever    *)
(* the page does between two awaits is one step.                           *)
(***************************************************************************)
EXTENDS Integers, Sequences, FiniteSets

CONSTANTS
    Calls,          \* the tool calls of a turn
    Rows,           \* the counts a tool result can carry, NoCount for none
    MaxItems,       \* bound: token and tool frames of a turn
    MaxAsks         \* bound: turns asked for

VARIABLES
    frames, over,   \* the service: the frames it sent, and that it has ended
    read,           \* half frames that the page has read
    page            \* the page: the conversation and its last turn

vars == <<frames, over, read, page>>

-----------------------------------------------------------------------------
NoCount == -1
ModelToken == [type |-> "token", n |-> 1]
Result(c, s, rows) == [type |-> "tool", call |-> c, status |-> s, rows |-> rows]
Items == {ModelToken} \cup {Result(c, "ok", n) : c \in Calls, n \in Rows}
            \cup {Result(c, s, NoCount) : c \in Calls, s \in {"running", "error"}}
Server == INSTANCE TurnContract WITH ModelItems <- Items, Statuses <- {500}

NoCards == [c \in Calls |-> "none"]

\* `at`: idle, or where ask() is suspended; `answer`: what the answer node holds.
Init ==
    /\ frames = <<>> /\ over = FALSE /\ read = 0
    /\ page = [at |-> "idle", state |-> "ready", asked |-> 0,
               aborted |-> FALSE, busy |-> FALSE, handled |-> 0, raw |-> 0, timer |-> FALSE,
               answer |-> "none", cards |-> NoCards, count |-> NoCount, source |-> "none",
               spoken |-> <<>>]

-----------------------------------------------------------------------------
(* The ways a turn ends on the page.                                       *)

Paint(p) == IF p.raw > 0 THEN [p EXCEPT !.answer = "tokens"] ELSE p

\* Mutant: the pending paint is left to its timer.
FlushLater(p) == Paint(p)

Flush(p) == Paint([p EXCEPT !.timer = FALSE])

\* Written while the log is muted, which is then unmuted.
Publish(p, words) == [p EXCEPT !.spoken = Append(@, words), !.busy = FALSE]

FailTurn(p) == Publish([Flush(p) EXCEPT !.answer = "failure"], "failure")

IsNoAnswer(p) == p.count = 0 \/ p.source = "fallback"

EndTurn(p) ==
    IF IsNoAnswer(p) THEN Publish([Flush(p) EXCEPT !.answer = "empty"], "unanswered")
    ELSE Publish([Flush(p) EXCEPT !.answer = IF p.raw > 0 THEN "markdown" ELSE @], "answer")

StopTurn(p) ==
    Publish([Flush(p) EXCEPT
               !.cards = [c \in Calls |-> IF @[c] = "running" THEN "stopped" ELSE @[c]],
               !.answer = IF p.raw > 0 THEN @ ELSE "removed"], "stopped")

\* The `finally` of ask(): the composer is handed back on every path.
Return(p) == [p EXCEPT !.at = "idle", !.state = "ready", !.aborted = FALSE]

-----------------------------------------------------------------------------
(* The frames.                                                             *)

AppendToken(p) ==
    LET first == IF p.raw = 0 THEN [p EXCEPT !.answer = "tokens"] ELSE p
    IN  [first EXCEPT !.state = "streaming", !.raw = @ + 1, !.timer = TRUE]

\* Mutant: a zero stays, whatever later calls count.
UpsertToolCardSticky(p, f) ==
    [p EXCEPT !.cards[f.call] = f.status,
              !.count = IF f.status = "ok" /\ f.rows # NoCount /\ @ # 0 THEN f.rows ELSE @]

\* The latest counted result is the turn's; one without a count leaves it.
UpsertToolCard(p, f) ==
    [p EXCEPT !.cards[f.call] = f.status,
              !.count = IF f.status = "ok" /\ f.rows # NoCount THEN f.rows ELSE @]

\* Mutant: the page goes on reading after `error`.
HandleOn(p, f) ==
    LET q == [p EXCEPT !.handled = @ + 1]
    IN  IF p.at = "idle" THEN p
        ELSE CASE f.type = "session" -> q
               [] f.type = "token" -> AppendToken(q)
               [] f.type = "tool" -> UpsertToolCard(q, f)
               [] f.type = "metadata" -> [q EXCEPT !.source = f.source]
               [] f.type = "error" -> FailTurn(q)
               [] f.type = "done" -> Return(EndTurn(q))

\* One frame (the session's is remembered for the next request); after `error` and
\* `done` the page has returned and reads no more.
Handle(p, f) ==
    LET q == [p EXCEPT !.handled = @ + 1]
    IN  IF p.at = "idle" THEN p
        ELSE CASE f.type = "session" -> q
               [] f.type = "token" -> AppendToken(q)
               [] f.type = "tool" -> UpsertToolCard(q, f)
               [] f.type = "metadata" -> [q EXCEPT !.source = f.source]
               [] f.type = "error" -> Return(FailTurn(q))
               [] f.type = "done" -> Return(EndTurn(q))

\* The frames that a chunk completes are handled in turn, with no await between.
HandleAll(p, s) ==
    LET after[i \in 0..Len(s)] == IF i = 0 THEN p ELSE Handle(after[i - 1], s[i])
    IN  after[Len(s)]

-----------------------------------------------------------------------------
InFlight == page.at # "idle"

Asks ==
    /\ ~InFlight /\ page.asked < MaxAsks
    /\ page' = [page EXCEPT
                  !.at = "fetching", !.state = "submitted", !.busy = TRUE,
                  !.asked = @ + 1, !.handled = 0, !.raw = 0,
                  !.answer = "pending", !.cards = NoCards, !.count = NoCount,
                  !.source = "none", !.spoken = <<>>]
    /\ frames' = <<>> /\ over' = FALSE /\ read' = 0

Responds ==
    /\ page.at = "fetching"
    /\ page' = [page EXCEPT !.at = "reading"]
    /\ UNCHANGED <<frames, over, read>>

\* A status other than 2xx, before the stream opens.
Refused ==
    /\ page.at = "fetching" /\ frames = <<>>
    /\ page' = Return(FailTurn(page))
    /\ UNCHANGED <<frames, over, read>>

\* One chunk, any number of half frames long: every frame it completes is handled.
Reads ==
    /\ page.at = "reading"
    /\ \E n \in 1..(2 * Len(frames) - read) :
         /\ read' = read + n
         /\ page' = HandleAll(page, SubSeq(frames, read \div 2 + 1, (read + n) \div 2))
    /\ UNCHANGED <<frames, over>>

\* The stream is closed; without `done` that is unexpected, and tidied up.
StreamCloses ==
    /\ page.at = "reading" /\ over /\ read = 2 * Len(frames)
    /\ page' = Return(EndTurn(page))
    /\ UNCHANGED <<frames, over, read>>

NetworkDrops ==
    /\ InFlight
    /\ page' = Return(FailTurn(page))
    /\ UNCHANGED <<frames, over, read>>

\* Stop aborts the request; a chunk that is already there may come before.
Stops ==
    /\ InFlight
    /\ page' = [page EXCEPT !.aborted = TRUE]
    /\ UNCHANGED <<frames, over, read>>

Aborts ==
    /\ InFlight /\ page.aborted
    /\ page' = Return(StopTurn(page))
    /\ UNCHANGED <<frames, over, read>>

TimerPaints ==
    /\ page.timer
    /\ page' = Paint([page EXCEPT !.timer = FALSE])
    /\ UNCHANGED <<frames, over, read>>

ServerSteps ==
    /\ InFlight
    /\ Server!Next
    /\ Cardinality({i \in 1..Len(frames') : frames'[i] \in Items}) <= MaxItems
    /\ UNCHANGED <<read, page>>

Next ==
    \/ Asks \/ Responds \/ Refused \/ Reads \/ StreamCloses \/ NetworkDrops
    \/ Stops \/ Aborts \/ TimerPaints \/ ServerSteps

Spec == Init /\ [][Next]_vars

-----------------------------------------------------------------------------
(* Properties.                                                             *)

Handled(type) == {i \in 1..page.handled : frames[i].type = type}
Counted == {i \in Handled("tool") : frames[i].status = "ok" /\ frames[i].rows # NoCount}
NothingFound == \E i \in Counted : frames[i].rows = 0 /\ \A j \in Counted : j <= i
Ended == page.asked > 0 /\ page.at = "idle"
Said(words) == Ended /\ page.spoken = <<words>>

\* What the page shows of a turn that ended is what the frames it was sent say,
\* whichever chunks they came in: an answer is every token the service sent,
\* not a fragment; the no-answer card is there exactly for a last count of zero
\* or a fallback; a failure is not painted over by tokens that came before it;
\* and a stop is not an outcome: the partial answer stays as it was painted and
\* no card still reads as running (app.js, endTurn, failTurn and stopTurn).
AnswerShown ==
    Said("answer") =>
        /\ page.handled = Len(frames) \/ frames[page.handled] = Server!Done
        /\ page.raw = Cardinality(Handled("token")) /\ Handled("error") = {}
        /\ ~NothingFound /\ page.source # "fallback"
        /\ page.answer = IF page.raw > 0 THEN "markdown" ELSE "pending"
NoAnswerShown ==
    Said("unanswered") =>
        /\ \/ NothingFound
           \/ \E i \in Handled("metadata") : frames[i] = Server!Summary("fallback")
        /\ page.answer = "empty"
FailureShown ==
    /\ Said("failure") => page.answer = "failure"
    /\ Ended /\ Handled("error") # {} => Said("failure")
StopShown ==
    Said("stopped") =>
        /\ \A c \in Calls : page.cards[c] # "running"
        /\ page.answer = IF page.raw > 0 THEN "tokens" ELSE "removed"
ShownIsWhatWasSent == AnswerShown /\ NoAnswerShown /\ FailureShown /\ StopShown

\* A turn is announced once, when it is over: the log is muted exactly while a
\* turn is in flight, and so is the composer locked (app.js, the screen-reader
\* contract at its top).
AnnouncedOnce ==
    /\ page.busy <=> InFlight
    /\ InFlight <=> page.state \in {"submitted", "streaming"}
    /\ IF Ended THEN Len(page.spoken) = 1 ELSE page.spoken = <<>>
=============================================================================
