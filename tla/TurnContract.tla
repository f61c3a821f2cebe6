---------------------------- MODULE TurnContract ----------------------------
(***************************************************************************)
(* What one turn of the chat service promises its routes: the public       *)
(* frames, in the only orders they may take, until the stream is over.     *)
(* The stream opens with the session, carries the model's tokens and tool  *)
(* events, is summed up by one metadata frame or cut by one error frame,   *)
(* and finishes with `done`.  An answer the model left empty is filled     *)
(* with one fallback token, and the summary says so.                       *)
(***************************************************************************)
EXTENDS Naturals, Sequences

CONSTANTS
    ModelItems,     \* the token and tool frames the agent can cause
    Statuses        \* the statuses an error frame can carry

VARIABLES
    frames,         \* the frames yielded so far
    over            \* the generator has ended

Session == [type |-> "session"]
Fallback == [type |-> "token", n |-> 0]
Summary(source) == [type |-> "metadata", source |-> source]
Failure(status) == [type |-> "error", status |-> status]
Done == [type |-> "done"]

LastIs(types) == frames # <<>> /\ frames[Len(frames)].type \in types
HasToken == \E i \in 1..Len(frames) : frames[i].type = "token"
FallbackUsed == frames # <<>> /\ frames[Len(frames)] = Fallback

Yields(frame) == ~over /\ frames' = Append(frames, frame) /\ UNCHANGED over

Init == frames = <<>> /\ over = FALSE

Opens == frames = <<>> /\ Yields(Session)

Answers ==
    /\ LastIs({"session", "token", "tool"})
    /\ ~FallbackUsed
    /\ \E item \in ModelItems : Yields(item)

FillsEmptyAnswer ==
    /\ LastIs({"session", "tool"})
    /\ ~HasToken
    /\ Yields(Fallback)

SumsUp ==
    /\ LastIs({"token", "tool"})
    /\ HasToken
    /\ Yields(Summary(IF FallbackUsed THEN "fallback" ELSE "model"))

Fails ==
    /\ LastIs({"session", "token", "tool"})
    /\ ~FallbackUsed
    /\ \E status \in Statuses : Yields(Failure(status))

Finishes == LastIs({"metadata", "error"}) /\ Yields(Done)

\* The generator returns after `done`, or its reader closes it before.
Ends == ~over /\ over' = TRUE /\ UNCHANGED frames

Next == Opens \/ Answers \/ FillsEmptyAnswer \/ SumsUp \/ Fails \/ Finishes
          \/ Ends

Spec == Init /\ [][Next]_<<frames, over>>
=============================================================================
