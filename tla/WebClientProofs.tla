--------------------------- MODULE WebClientProofs ---------------------------
(***************************************************************************)
(* Theorems of WebClient, for any tool calls, counts, number of frames and *)
(* of turns: a turn is announced once and the composer is handed back, and *)
(* what the page shows of a turn that ended is what the frames it was sent *)
(* say.  The argument is a loop invariant: after any number of frames the  *)
(* page agrees with the prefix it handled (Agrees), and is either in the   *)
(* middle of the turn (Open) or has ended it in one of the four ways that  *)
(* Closed tells apart.                                                     *)
(***************************************************************************)
EXTENDS WebClient, TLAPS, FiniteSetTheorems, SequenceTheorems,
        WellFoundedInduction

CardStates == {"none", "ok", "error", "running", "stopped"}
Pages ==
    [at : {"idle", "fetching", "reading"}, state : {"ready", "submitted", "streaming"},
     asked : Nat, aborted : BOOLEAN, busy : BOOLEAN, handled : Nat, raw : Nat,
     timer : BOOLEAN,
     answer : {"none", "pending", "tokens", "markdown", "empty", "failure", "removed"},
     cards : [Calls -> CardStates], count : Rows \cup {NoCount},
     source : {"none", "model", "fallback"},
     spoken : Seq({"answer", "unanswered", "failure", "stopped"})]

Frames ==
    Items \cup {Server!Session, Server!Fallback, Server!Done}
        \cup {Server!Summary(source) : source \in {"model", "fallback"}}
        \cup {Server!Failure(status) : status \in {500}}

TypeInv ==
    /\ frames \in Seq(Frames) /\ over \in BOOLEAN
    /\ read \in Nat /\ read <= 2 * Len(frames)
    /\ page \in Pages

\* The frames of a type among the first n.
UpTo(n, type) == {i \in 1..n : frames[i].type = type}
CountedUpTo(n) == {i \in UpTo(n, "tool") : frames[i].status = "ok" /\ frames[i].rows # NoCount}

\* What a page knows is what the frames that it handled say.
Agrees(p) ==
    /\ p.handled <= Len(frames)
    /\ p.raw = Cardinality(UpTo(p.handled, "token"))
    /\ \/ p.count = NoCount
       \/ \E i \in CountedUpTo(p.handled) :
            p.count = frames[i].rows /\ \A j \in CountedUpTo(p.handled) : j <= i
    /\ p.count = NoCount => CountedUpTo(p.handled) = {}
    /\ p.source = "fallback" =>
         \E i \in UpTo(p.handled, "metadata") : frames[i] = Server!Summary("fallback")

Ending(p) == UpTo(p.handled, "error") \cup UpTo(p.handled, "done")

\* A page in the middle of a turn.
Open(p) ==
    /\ p.at # "idle" /\ p.asked > 0
    /\ p.busy /\ p.state # "ready" /\ p.spoken = <<>>
    /\ Ending(p) = {}
    /\ p.answer = IF p.raw > 0 THEN "tokens" ELSE "pending"

\* A page that has ended one: what it announced, and what it shows.
Told(p, words) == p.spoken = <<words>>
Closed(p) ==
    /\ p.at = "idle" /\ ~p.busy /\ p.state = "ready" /\ ~p.timer
    /\ p.asked = 0 => p.spoken = <<>>
    /\ p.asked > 0 =>
         /\ \E words \in {"answer", "unanswered", "failure", "stopped"} : Told(p, words)
         /\ UpTo(p.handled, "error") # {} => Told(p, "failure")
         /\ Told(p, "answer") =>
              /\ p.handled = Len(frames) \/ (p.handled > 0 /\ frames[p.handled] = Server!Done)
              /\ p.count # 0 /\ p.source # "fallback"
              /\ p.answer = IF p.raw > 0 THEN "markdown" ELSE "pending"
         /\ Told(p, "unanswered") =>
              (p.count = 0 \/ p.source = "fallback") /\ p.answer = "empty"
         /\ Told(p, "failure") => p.answer = "failure"
         /\ Told(p, "stopped") =>
              /\ \A c \in Calls : p.cards[c] # "running"
              /\ p.answer = IF p.raw > 0 THEN "tokens" ELSE "removed"

\* Where the page is in its stream: it has handled every frame it has read in full.
Placed ==
    /\ page.at = "fetching" => read = 0 /\ page.handled = 0
    /\ page.at = "reading" => page.handled = read \div 2

PageInv == Agrees(page) /\ (Open(page) \/ Closed(page)) /\ Placed

-----------------------------------------------------------------------------
(* The frames, and what one more of them adds.                              *)

LEMMA FrameTyped ==
    ASSUME NEW f \in Frames
    PROVE  /\ f.type \in {"session", "token", "tool", "metadata", "error", "done"}
           /\ f.type = "tool" =>
                f.call \in Calls /\ f.status \in {"ok", "running", "error"}
                  /\ f.rows \in Rows \cup {NoCount}
           /\ f.type = "metadata" =>
                f.source \in {"model", "fallback"} /\ f = Server!Summary(f.source)
           /\ f.type = "done" => f = Server!Done
  BY DEF Frames, Items, ModelToken, Result, Server!Session, Server!Fallback, Server!Done,
         Server!Summary, Server!Failure

LEMMA UpToFinite ==
    ASSUME NEW n \in Nat, NEW type
    PROVE  IsFiniteSet(UpTo(n, type)) /\ Cardinality(UpTo(n, type)) \in Nat
  <1>1. IsFiniteSet(1..n)
    BY FS_Interval
  <1>2. UpTo(n, type) \subseteq 1..n
    BY DEF UpTo
  <1> QED
    BY <1>1, <1>2, FS_Subset, FS_CardinalityType

LEMMA UpToNext ==
    ASSUME NEW n \in Nat, NEW type
    PROVE  /\ frames[n + 1].type = type => UpTo(n + 1, type) = UpTo(n, type) \cup {n + 1}
           /\ frames[n + 1].type # type => UpTo(n + 1, type) = UpTo(n, type)
           /\ n + 1 \notin UpTo(n, type)
  <1>1. 1..(n + 1) = 1..n \cup {n + 1} /\ n + 1 \notin 1..n
    OBVIOUS
  <1> QED
    BY <1>1 DEF UpTo

LEMMA TokensNext ==
    ASSUME NEW n \in Nat, frames[n + 1].type = "token"
    PROVE  Cardinality(UpTo(n + 1, "token")) = Cardinality(UpTo(n, "token")) + 1
  <1>1. /\ UpTo(n + 1, "token") = UpTo(n, "token") \cup {n + 1}
        /\ n + 1 \notin UpTo(n, "token") /\ IsFiniteSet(UpTo(n, "token"))
    BY UpToNext, UpToFinite
  <1> QED
    BY <1>1, FS_AddElement

LEMMA CountedNext ==
    ASSUME NEW n \in Nat
    PROVE  /\ frames[n + 1].type = "tool" /\ frames[n + 1].status = "ok"
                /\ frames[n + 1].rows # NoCount =>
                CountedUpTo(n + 1) = CountedUpTo(n) \cup {n + 1}
           /\ ~(frames[n + 1].type = "tool" /\ frames[n + 1].status = "ok"
                /\ frames[n + 1].rows # NoCount) => CountedUpTo(n + 1) = CountedUpTo(n)
           /\ CountedUpTo(n) \subseteq 1..n
  BY UpToNext DEF CountedUpTo, UpTo

-----------------------------------------------------------------------------
(* The four ways that a turn ends.                                          *)

Words == {"answer", "unanswered", "failure", "stopped"}
SameTurn(q, p) ==
    /\ q.asked = p.asked /\ q.handled = p.handled /\ q.raw = p.raw
    /\ q.count = p.count /\ q.source = p.source

\* Flush stops the timer and leaves the tokens painted.
LEMMA Flushed ==
    ASSUME NEW p \in Pages
    PROVE  /\ Flush(p) \in Pages /\ SameTurn(Flush(p), p) /\ ~Flush(p).timer
           /\ Flush(p).spoken = p.spoken /\ Flush(p).cards = p.cards
           /\ Flush(p).answer = IF p.raw > 0 THEN "tokens" ELSE p.answer
  BY DEF Flush, Paint, Pages, SameTurn

LEMMA Published ==
    ASSUME NEW p \in Pages, p.spoken = <<>>, NEW words \in Words
    PROVE  /\ Publish(p, words) \in Pages /\ SameTurn(Publish(p, words), p)
           /\ Publish(p, words).spoken = <<words>> /\ ~Publish(p, words).busy
           /\ Publish(p, words).answer = p.answer /\ Publish(p, words).cards = p.cards
           /\ Publish(p, words).timer = p.timer
  <1>1. Append(p.spoken, words) = <<words>> /\ <<words>> \in Seq(Words)
    OBVIOUS
  <1> QED
    BY <1>1 DEF Publish, Pages, SameTurn, Words

LEMMA Returned ==
    ASSUME NEW p \in Pages
    PROVE  /\ Return(p) \in Pages /\ SameTurn(Return(p), p)
           /\ Return(p).at = "idle" /\ Return(p).state = "ready"
           /\ Return(p).spoken = p.spoken /\ Return(p).busy = p.busy
           /\ Return(p).answer = p.answer /\ Return(p).cards = p.cards
           /\ Return(p).timer = p.timer
  BY DEF Return, Pages, SameTurn

LEMMA SameAgrees ==
    ASSUME NEW p, NEW q, Agrees(p), SameTurn(q, p)
    PROVE  Agrees(q)
  BY DEF Agrees, SameTurn

Answers == {"none", "pending", "tokens", "markdown", "empty", "failure", "removed"}

LEMMA Answered ==
    ASSUME NEW p \in Pages, NEW answer \in Answers, NEW cards \in [Calls -> CardStates]
    PROVE  LET q == [p EXCEPT !.cards = cards, !.answer = answer]
           IN  /\ q \in Pages /\ SameTurn(q, p) /\ q.answer = answer /\ q.cards = cards
               /\ q.spoken = p.spoken /\ q.timer = p.timer
  BY DEF Pages, SameTurn, Answers

LEMMA AnsweredOnly ==
    ASSUME NEW p \in Pages, NEW answer \in Answers
    PROVE  LET q == [p EXCEPT !.answer = answer]
           IN  /\ q \in Pages /\ SameTurn(q, p) /\ q.answer = answer /\ q.cards = p.cards
               /\ q.spoken = p.spoken /\ q.timer = p.timer
  BY DEF Pages, SameTurn, Answers

LEMMA SameTrans ==
    ASSUME NEW p, NEW q, NEW r, SameTurn(r, q), SameTurn(q, p)
    PROVE  SameTurn(r, p)
  BY DEF SameTurn

\* A turn that ends has painted what is pending, said its words and returned.
LEMMA Closes ==
    ASSUME NEW p \in Pages, Agrees(p), p.asked > 0, p.spoken = <<>>, NEW words \in Words,
           ~p.timer
    PROVE  LET q == Return(Publish(p, words))
           IN  /\ q \in Pages /\ Agrees(q) /\ SameTurn(q, p)
               /\ q.at = "idle" /\ q.state = "ready" /\ ~q.busy /\ ~q.timer
               /\ q.spoken = <<words>> /\ q.answer = p.answer /\ q.cards = p.cards
  <1> DEFINE r == Publish(p, words)
             q == Return(r)
  <1>1. /\ r \in Pages /\ SameTurn(r, p) /\ r.spoken = <<words>> /\ ~r.busy
        /\ r.answer = p.answer /\ r.cards = p.cards /\ r.timer = p.timer
    BY Published
  <1> HIDE DEF r
  <1>2. /\ q \in Pages /\ SameTurn(q, r) /\ q.at = "idle" /\ q.state = "ready"
        /\ q.spoken = r.spoken /\ q.busy = r.busy /\ q.answer = r.answer
        /\ q.cards = r.cards /\ q.timer = r.timer
    BY <1>1, Returned
  <1> HIDE DEF q
  <1>3. SameTurn(q, p)
    BY <1>1, <1>2 DEF SameTurn
  <1>4. Agrees(q)
    BY <1>3, SameAgrees
  <1>5. /\ q \in Pages /\ Agrees(q) /\ SameTurn(q, p)
        /\ q.at = "idle" /\ q.state = "ready" /\ ~q.busy /\ ~q.timer
        /\ q.spoken = <<words>> /\ q.answer = p.answer /\ q.cards = p.cards
    BY <1>1, <1>2, <1>3, <1>4
  <1> QED
    BY <1>5 DEF q, r

LEMMA FailedTurn ==
    ASSUME NEW p \in Pages, Agrees(p), p.asked > 0, p.spoken = <<>>
    PROVE  /\ Return(FailTurn(p)) \in Pages
           /\ Agrees(Return(FailTurn(p))) /\ Closed(Return(FailTurn(p)))
  <1> DEFINE f == [Flush(p) EXCEPT !.answer = "failure"]
             q == Return(Publish(f, "failure"))
  <1>1. /\ f \in Pages /\ SameTurn(f, p) /\ ~f.timer /\ f.spoken = <<>>
        /\ f.answer = "failure"
    BY Flushed DEF Pages, SameTurn
  <1>2. Agrees(f) /\ f.asked > 0
    BY <1>1, SameAgrees DEF SameTurn
  <1> HIDE DEF f
  <1>3. /\ q \in Pages /\ Agrees(q) /\ SameTurn(q, f)
        /\ q.at = "idle" /\ q.state = "ready" /\ ~q.busy /\ ~q.timer
        /\ q.spoken = <<"failure">> /\ q.answer = "failure"
    BY <1>1, <1>2, Closes DEF Words
  <1> HIDE DEF q
  <1>4. q.asked > 0
    BY <1>2, <1>3 DEF SameTurn
  <1>5. Closed(q)
    BY <1>3, <1>4 DEF Closed, Told
  <1>6. Return(FailTurn(p)) = q
    BY DEF FailTurn, f, q
  <1> QED
    BY <1>3, <1>5, <1>6

LEMMA EndedTurn ==
    ASSUME NEW p \in Pages, Agrees(p), p.asked > 0, p.spoken = <<>>,
           UpTo(p.handled, "error") = {},
           p.answer = IF p.raw > 0 THEN "tokens" ELSE "pending",
           p.handled = Len(frames) \/ (p.handled > 0 /\ frames[p.handled] = Server!Done)
    PROVE  /\ Return(EndTurn(p)) \in Pages
           /\ Agrees(Return(EndTurn(p))) /\ Closed(Return(EndTurn(p)))
  <1>1. CASE IsNoAnswer(p)
    <2> DEFINE f == [Flush(p) EXCEPT !.answer = "empty"]
               q == Return(Publish(f, "unanswered"))
    <2>1. /\ f \in Pages /\ SameTurn(f, p) /\ ~f.timer /\ f.spoken = <<>>
          /\ f.answer = "empty"
      <3>1. f \in Pages /\ SameTurn(f, Flush(p)) /\ f.answer = "empty"
            /\ f.spoken = Flush(p).spoken /\ f.timer = Flush(p).timer
        BY Flushed, AnsweredOnly DEF Answers
      <3> QED
        BY <3>1, Flushed, SameTrans
    <2> HIDE DEF f
    <2>2. Agrees(f) /\ f.asked > 0
      BY <2>1, SameAgrees DEF SameTurn
    <2>3. /\ q \in Pages /\ Agrees(q) /\ SameTurn(q, f)
          /\ q.at = "idle" /\ q.state = "ready" /\ ~q.busy /\ ~q.timer
          /\ q.spoken = <<"unanswered">> /\ q.answer = "empty"
      BY <2>1, <2>2, Closes DEF Words
    <2> HIDE DEF q
    <2>4. q.asked > 0 /\ q.handled = p.handled /\ q.count = p.count /\ q.source = p.source
      BY <2>1, <2>2, <2>3 DEF SameTurn
    <2>5. Closed(q)
      <3>1. Told(q, "unanswered") /\ ~Told(q, "answer") /\ ~Told(q, "failure")
              /\ ~Told(q, "stopped")
        BY <2>3 DEF Told
      <3>2. q.count = 0 \/ q.source = "fallback"
        BY <1>1, <2>4 DEF IsNoAnswer
      <3>3. UpTo(q.handled, "error") = {}
        BY <2>4
      <3> QED
        BY <2>3, <2>4, <3>1, <3>2, <3>3 DEF Closed
    <2>6. Return(EndTurn(p)) = q
      BY <1>1 DEF EndTurn, f, q
    <2> QED
      BY <2>3, <2>5, <2>6
  <1>2. CASE ~IsNoAnswer(p)
    <2> DEFINE shown == IF p.raw > 0 THEN "markdown" ELSE "pending"
               f == [Flush(p) EXCEPT !.answer = shown]
               q == Return(Publish(f, "answer"))
    <2>0. f = [Flush(p) EXCEPT !.answer = IF p.raw > 0 THEN "markdown" ELSE @]
      BY Flushed
    <2>1. /\ f \in Pages /\ SameTurn(f, p) /\ ~f.timer /\ f.spoken = <<>>
          /\ f.answer = shown
      <3> shown \in Answers
        BY DEF Answers
      <3> HIDE DEF shown
      <3>1. f \in Pages /\ SameTurn(f, Flush(p)) /\ f.answer = shown
            /\ f.spoken = Flush(p).spoken /\ f.timer = Flush(p).timer
        BY Flushed, AnsweredOnly
      <3> QED
        BY <3>1, Flushed, SameTrans
    <2> HIDE DEF f, shown
    <2>2. Agrees(f) /\ f.asked > 0
      BY <2>1, SameAgrees DEF SameTurn
    <2>3. /\ q \in Pages /\ Agrees(q) /\ SameTurn(q, f)
          /\ q.at = "idle" /\ q.state = "ready" /\ ~q.busy /\ ~q.timer
          /\ q.spoken = <<"answer">> /\ q.answer = shown
      BY <2>1, <2>2, Closes DEF Words
    <2> HIDE DEF q
    <2>4. q.asked > 0 /\ q.handled = p.handled /\ q.count = p.count /\ q.source = p.source /\ q.raw = p.raw
      BY <2>1, <2>2, <2>3 DEF SameTurn
    <2>5. Closed(q)
      BY <1>2, <2>1, <2>3, <2>4 DEF Closed, Told, IsNoAnswer, shown
    <2>6. Return(EndTurn(p)) = q
      BY <1>2, <2>0 DEF EndTurn, f, q
    <2> QED
      BY <2>3, <2>5, <2>6
  <1> QED
    BY <1>1, <1>2

LEMMA StoppedTurn ==
    ASSUME NEW p \in Pages, Agrees(p), p.asked > 0, p.spoken = <<>>,
           UpTo(p.handled, "error") = {}
    PROVE  /\ Return(StopTurn(p)) \in Pages
           /\ Agrees(Return(StopTurn(p))) /\ Closed(Return(StopTurn(p)))
  <1> DEFINE f == [Flush(p) EXCEPT
                     !.cards = [c \in Calls |-> IF @[c] = "running" THEN "stopped" ELSE @[c]],
                     !.answer = IF p.raw > 0 THEN @ ELSE "removed"]
             q == Return(Publish(f, "stopped"))
             shown == IF p.raw > 0 THEN "tokens" ELSE "removed"
             cards == [c \in Calls |-> IF p.cards[c] = "running" THEN "stopped" ELSE p.cards[c]]
  <1>1. cards \in [Calls -> CardStates] /\ \A c \in Calls : cards[c] # "running"
    BY DEF Pages, CardStates
  <1>2. Flush(p).cards = p.cards
    BY Flushed
  <1>3. f = [Flush(p) EXCEPT !.cards = cards, !.answer = shown]
    BY <1>2, Flushed
  <1>s. shown \in Answers
    BY DEF Answers
  <1> HIDE DEF cards, f, shown
  <1>4. /\ f \in Pages /\ SameTurn(f, p) /\ ~f.timer /\ f.spoken = <<>> /\ f.cards = cards
        /\ f.answer = shown
    <2>1. /\ f \in Pages /\ SameTurn(f, Flush(p)) /\ f.answer = shown /\ f.cards = cards
          /\ f.spoken = Flush(p).spoken /\ f.timer = Flush(p).timer
      <3> DEFINE g == Flush(p)
      <3>1. g \in Pages
        BY Flushed
      <3>2. f = [g EXCEPT !.cards = cards, !.answer = shown]
        BY <1>3
      <3> HIDE DEF g
      <3>3. /\ f \in Pages /\ SameTurn(f, g) /\ f.answer = shown /\ f.cards = cards
            /\ f.spoken = g.spoken /\ f.timer = g.timer
        <4>1. cards \in [Calls -> CardStates]
          BY <1>1
        <4> DEFINE h == [g EXCEPT !.cards = cards, !.answer = shown]
        <4>2. /\ h \in Pages /\ SameTurn(h, g) /\ h.answer = shown /\ h.cards = cards
              /\ h.spoken = g.spoken /\ h.timer = g.timer
          BY <1>s, <3>1, <4>1, Answered
        <4> HIDE DEF h
        <4>3. h = f
          BY <3>2 DEF h
        <4> QED
          BY <4>2, <4>3
      <3> QED
        BY <3>3 DEF g
    <2> QED
      BY <2>1, Flushed, SameTrans
  <1>5. Agrees(f) /\ f.asked > 0
    BY <1>4, SameAgrees DEF SameTurn
  <1>6. /\ q \in Pages /\ Agrees(q) /\ SameTurn(q, f)
        /\ q.at = "idle" /\ q.state = "ready" /\ ~q.busy /\ ~q.timer
        /\ q.spoken = <<"stopped">> /\ q.answer = f.answer /\ q.cards = cards
    BY <1>4, <1>5, Closes DEF Words
  <1> HIDE DEF q
  <1>7. q.handled = p.handled /\ q.raw = p.raw /\ q.asked > 0
    BY <1>4, <1>5, <1>6 DEF SameTurn
  <1>8. Closed(q)
    BY <1>1, <1>4, <1>6, <1>7 DEF Closed, Told, shown
  <1>9. Return(StopTurn(p)) = q
    BY DEF StopTurn, f, q, shown
  <1> QED
    BY <1>6, <1>8, <1>9

-----------------------------------------------------------------------------
(* The loop: one more frame handled.                                        *)

LEMMA AgreesNext ==
    ASSUME frames \in Seq(Frames), NEW p \in Pages, Agrees(p), p.handled < Len(frames),
           NEW q \in Pages, q.handled = p.handled + 1, NEW f \in Frames, f = frames[q.handled],
           q.raw = IF f.type = "token" THEN p.raw + 1 ELSE p.raw,
           q.count = IF f.type = "tool" /\ f.status = "ok" /\ f.rows # NoCount THEN f.rows
                     ELSE p.count,
           q.source = IF f.type = "metadata" THEN f.source ELSE p.source
    PROVE  Agrees(q)
  <1> DEFINE n == p.handled
  <1>1. n \in Nat /\ q.handled = n + 1 /\ f = frames[n + 1] /\ q.handled <= Len(frames)
    BY DEF Pages
  <1>2. q.raw = Cardinality(UpTo(q.handled, "token"))
    <2>1. CASE f.type = "token"
      BY <1>1, <2>1, TokensNext DEF Agrees
    <2>2. CASE f.type # "token"
      BY <1>1, <2>2, UpToNext DEF Agrees
    <2> QED
      BY <2>1, <2>2
  <1>3. CountedUpTo(n) \subseteq 1..n
    BY <1>1, CountedNext
  <1>4. /\ \/ q.count = NoCount
           \/ \E i \in CountedUpTo(q.handled) :
                q.count = frames[i].rows /\ \A j \in CountedUpTo(q.handled) : j <= i
        /\ q.count = NoCount => CountedUpTo(q.handled) = {}
    <2>1. CASE f.type = "tool" /\ f.status = "ok" /\ f.rows # NoCount
      <3>1. CountedUpTo(q.handled) = CountedUpTo(n) \cup {n + 1}
        BY <1>1, <2>1, CountedNext
      <3>2. \A j \in CountedUpTo(q.handled) : j <= n + 1
        BY <1>1, <1>3, <3>1
      <3>3. q.count = frames[n + 1].rows /\ q.count # NoCount
        BY <1>1, <2>1
      <3> QED
        BY <3>1, <3>2, <3>3
    <2>2. CASE ~(f.type = "tool" /\ f.status = "ok" /\ f.rows # NoCount)
      <3>1. CountedUpTo(q.handled) = CountedUpTo(n)
        BY <1>1, <2>2, CountedNext
      <3>2. q.count = p.count
        BY <2>2
      <3> QED
        BY <3>1, <3>2 DEF Agrees
    <2> QED
      BY <2>1, <2>2
  <1>5. q.source = "fallback" =>
          \E i \in UpTo(q.handled, "metadata") : frames[i] = Server!Summary("fallback")
    <2> SUFFICES ASSUME q.source = "fallback"
                 PROVE  \E i \in UpTo(q.handled, "metadata") :
                           frames[i] = Server!Summary("fallback")
      OBVIOUS
    <2>1. CASE f.type = "metadata"
      <3>1. n + 1 \in UpTo(q.handled, "metadata")
        <4>1. frames[n + 1].type = "metadata"
          BY <1>1, <2>1
        <4>2. UpTo(n + 1, "metadata") = UpTo(n, "metadata") \cup {n + 1}
          BY <1>1, <4>1, UpToNext
        <4> QED
          BY <1>1, <4>2
      <3>2. frames[n + 1] = Server!Summary("fallback")
        BY <1>1, <2>1, FrameTyped
      <3> QED
        BY <3>1, <3>2
    <2>2. CASE f.type # "metadata"
      <3>1. UpTo(q.handled, "metadata") = UpTo(n, "metadata")
        BY <1>1, <2>2, UpToNext
      <3> QED
        BY <2>2, <3>1 DEF Agrees
    <2> QED
      BY <2>1, <2>2
  <1> QED
    BY <1>1, <1>2, <1>4, <1>5 DEF Agrees

LEMMA EndingNext ==
    ASSUME NEW n \in Nat, UpTo(n, "error") \cup UpTo(n, "done") = {}
    PROVE  /\ frames[n + 1].type \notin {"error", "done"} =>
                UpTo(n + 1, "error") \cup UpTo(n + 1, "done") = {}
           /\ frames[n + 1].type = "done" => UpTo(n + 1, "error") = {}
  BY UpToNext

LEMMA Advanced ==
    ASSUME NEW p \in Pages
    PROVE  LET r == [p EXCEPT !.handled = @ + 1]
           IN  /\ r \in Pages /\ r.handled = p.handled + 1 /\ r.raw = p.raw
               /\ r.count = p.count /\ r.source = p.source /\ r.at = p.at
               /\ r.asked = p.asked /\ r.busy = p.busy /\ r.state = p.state
               /\ r.spoken = p.spoken /\ r.answer = p.answer /\ r.cards = p.cards
               /\ r.timer = p.timer
  BY DEF Pages

LEMMA OneToken ==
    ASSUME NEW p \in Pages
    PROVE  LET r == [p EXCEPT !.state = "streaming", !.raw = @ + 1, !.timer = TRUE]
           IN  /\ r \in Pages /\ r.handled = p.handled /\ r.raw = p.raw + 1
               /\ r.count = p.count /\ r.source = p.source /\ r.at = p.at
               /\ r.asked = p.asked /\ r.busy = p.busy /\ r.state = "streaming"
               /\ r.spoken = p.spoken /\ r.answer = p.answer
  <1> DEFINE n == p.raw + 1
             r == [p EXCEPT !.state = "streaming", !.raw = n, !.timer = TRUE]
  <1>1. n \in Nat
    BY DEF Pages
  <1> HIDE DEF n
  <1>2. r \in Pages
    BY <1>1 DEF Pages
  <1>3. /\ r.handled = p.handled /\ r.raw = n
        /\ r.count = p.count /\ r.source = p.source /\ r.at = p.at
        /\ r.asked = p.asked /\ r.busy = p.busy /\ r.state = "streaming"
        /\ r.spoken = p.spoken /\ r.answer = p.answer
    BY DEF Pages
  <1> QED
    BY <1>2, <1>3 DEF n

LEMMA Appended ==
    ASSUME NEW p \in Pages, p.answer = IF p.raw > 0 THEN "tokens" ELSE "pending"
    PROVE  LET r == AppendToken(p)
           IN  /\ r \in Pages /\ r.handled = p.handled /\ r.raw = p.raw + 1
               /\ r.count = p.count /\ r.source = p.source /\ r.at = p.at
               /\ r.asked = p.asked /\ r.busy = p.busy /\ r.state = "streaming"
               /\ r.spoken = p.spoken /\ r.answer = "tokens"
  <1> DEFINE first == IF p.raw = 0 THEN [p EXCEPT !.answer = "tokens"] ELSE p
             r == [first EXCEPT !.state = "streaming", !.raw = @ + 1, !.timer = TRUE]
  <1>1. /\ first \in Pages /\ first.handled = p.handled /\ first.raw = p.raw
        /\ first.count = p.count /\ first.source = p.source /\ first.at = p.at
        /\ first.asked = p.asked /\ first.busy = p.busy
        /\ first.spoken = p.spoken /\ first.answer = "tokens"
    BY DEF Pages
  <1> HIDE DEF first
  <1>2. /\ r \in Pages /\ r.handled = first.handled /\ r.raw = first.raw + 1
        /\ r.count = first.count /\ r.source = first.source /\ r.at = first.at
        /\ r.asked = first.asked /\ r.busy = first.busy /\ r.state = "streaming"
        /\ r.spoken = first.spoken /\ r.answer = first.answer
    BY <1>1, OneToken
  <1>3. r = AppendToken(p)
    BY DEF first, AppendToken
  <1> HIDE DEF r
  <1> QED
    BY <1>1, <1>2, <1>3

\* A page that reads handles the next frame: it goes on, or it has ended the turn.
LEMMA HandleNext ==
    ASSUME frames \in Seq(Frames), NEW p \in Pages, Agrees(p), Open(p), p.at = "reading",
           p.handled < Len(frames)
    PROVE  LET q == Handle(p, frames[p.handled + 1])
           IN  /\ q \in Pages /\ Agrees(q)
               /\ \/ Open(q) /\ q.at = "reading" /\ q.handled = p.handled + 1
                  \/ Closed(q)
  <1> DEFINE n == p.handled
             f == frames[n + 1]
             r == [p EXCEPT !.handled = @ + 1]
             q == Handle(p, f)
  <1>1. n \in Nat /\ f \in Frames
    BY DEF Pages
  <1>2. /\ r \in Pages /\ r.handled = n + 1 /\ r.raw = p.raw /\ r.count = p.count
        /\ r.source = p.source /\ r.at = p.at /\ r.asked = p.asked /\ r.busy = p.busy
        /\ r.state = p.state /\ r.spoken = p.spoken /\ r.answer = p.answer
        /\ r.cards = p.cards /\ r.timer = p.timer
    BY Advanced
  <1>3. f.type \in {"session", "token", "tool", "metadata", "error", "done"}
    BY <1>1, FrameTyped
  <1>4. Ending(p) = {} /\ p.asked > 0 /\ p.spoken = <<>>
        /\ p.answer = IF p.raw > 0 THEN "tokens" ELSE "pending"
    BY DEF Open
  <1> HIDE DEF r
  <1>5. CASE f.type = "session"
    <2>1. q = r
      BY <1>5 DEF Handle, r
    <2>2. Agrees(r)
      BY <1>1, <1>2, <1>5, AgreesNext
    <2>3. Ending(r) = {}
      BY <1>1, <1>2, <1>4, <1>5, EndingNext DEF Ending
    <2>4. Open(r)
      BY <1>2, <2>3 DEF Open
    <2> QED
      BY <1>2, <2>1, <2>2, <2>4
  <1>6. CASE f.type = "token"
    <2> DEFINE t == AppendToken(r)
    <2>1. q = t
      BY <1>6 DEF Handle, r
    <2>2. /\ t \in Pages /\ t.handled = n + 1 /\ t.raw = p.raw + 1 /\ t.count = p.count
          /\ t.source = p.source /\ t.at = p.at /\ t.asked = p.asked /\ t.busy = p.busy
          /\ t.state = "streaming" /\ t.spoken = p.spoken /\ t.answer = "tokens"
      BY <1>2, <1>4, Appended
    <2> HIDE DEF t
    <2>3. Agrees(t)
      BY <1>1, <1>6, <2>2, AgreesNext
    <2>4. Ending(t) = {}
      BY <1>1, <1>4, <1>6, <2>2, EndingNext DEF Ending
    <2>5. Open(t)
      BY <1>4, <2>2, <2>4 DEF Open, Pages
    <2> QED
      BY <2>1, <2>2, <2>3, <2>5
  <1>7. CASE f.type = "tool"
    <2> DEFINE t == UpsertToolCard(r, f)
    <2>1. q = t
      BY <1>7 DEF Handle, r
    <2>2. /\ t \in Pages /\ t.handled = n + 1 /\ t.raw = p.raw
          /\ t.count = (IF f.status = "ok" /\ f.rows # NoCount THEN f.rows ELSE p.count)
          /\ t.source = p.source /\ t.at = p.at /\ t.asked = p.asked /\ t.busy = p.busy
          /\ t.state = p.state /\ t.spoken = p.spoken /\ t.answer = p.answer
      <3>1. /\ f.call \in Calls /\ f.status \in CardStates /\ f.rows \in Rows \cup {NoCount}
        BY <1>1, <1>7, FrameTyped DEF CardStates
      <3>2. [r.cards EXCEPT ![f.call] = f.status] \in [Calls -> CardStates]
        BY <1>2, <3>1 DEF Pages
      <3> QED
        BY <1>2, <3>1, <3>2 DEF UpsertToolCard, Pages
    <2> HIDE DEF t
    <2>3. Agrees(t)
      BY <1>1, <1>7, <2>2, AgreesNext
    <2>4. Ending(t) = {}
      BY <1>1, <1>4, <1>7, <2>2, EndingNext DEF Ending
    <2>5. Open(t)
      BY <1>4, <2>2, <2>4 DEF Open, Pages
    <2> QED
      BY <2>1, <2>2, <2>3, <2>5
  <1>8. CASE f.type = "metadata"
    <2> DEFINE t == [r EXCEPT !.source = f.source]
    <2>1. q = t
      BY <1>8 DEF Handle, r
    <2>2. /\ t \in Pages /\ t.handled = n + 1 /\ t.raw = p.raw /\ t.count = p.count
          /\ t.source = f.source /\ t.at = p.at /\ t.asked = p.asked /\ t.busy = p.busy
          /\ t.state = p.state /\ t.spoken = p.spoken /\ t.answer = p.answer
      <3>1. f.source \in {"model", "fallback"}
        BY <1>1, <1>8, FrameTyped
      <3> QED
        BY <1>2, <3>1 DEF Pages
    <2> HIDE DEF t
    <2>3. Agrees(t)
      BY <1>1, <1>8, <2>2, AgreesNext
    <2>4. Ending(t) = {}
      BY <1>1, <1>4, <1>8, <2>2, EndingNext DEF Ending
    <2>5. Open(t)
      BY <1>4, <2>2, <2>4 DEF Open, Pages
    <2> QED
      BY <2>1, <2>2, <2>3, <2>5
  <1>9. CASE f.type = "error"
    <2>1. q = Return(FailTurn(r))
      BY <1>9 DEF Handle, r
    <2>2. Agrees(r)
      BY <1>1, <1>2, <1>9, AgreesNext
    <2> QED
      BY <1>2, <1>4, <2>1, <2>2, FailedTurn
  <1>10. CASE f.type = "done"
    <2>1. q = Return(EndTurn(r))
      BY <1>10 DEF Handle, r
    <2>2. Agrees(r)
      BY <1>1, <1>2, <1>10, AgreesNext
    <2>3. UpTo(r.handled, "error") = {}
      BY <1>1, <1>2, <1>4, <1>10, EndingNext DEF Ending
    <2>4. r.handled > 0 /\ frames[r.handled] = Server!Done
      BY <1>1, <1>2, <1>10, FrameTyped
    <2> QED
      BY <1>2, <1>4, <2>1, <2>2, <2>3, <2>4, EndedTurn
  <1> QED
    BY <1>3, <1>5, <1>6, <1>7, <1>8, <1>9, <1>10

-----------------------------------------------------------------------------
(* All the frames of a chunk: HandleAll is the function it looks like, and   *)
(* the loop invariant holds after each of them.                              *)

Less == OpToRel(<, Nat)

\* A nonempty set of natural numbers has a least one.
LEMMA LeastOne ==
    ASSUME NEW S \in SUBSET Nat, S # {}
    PROVE  \E m \in S : \A k \in S : m <= k
  <1>1. IsWellFoundedOn(Less, Nat)
    BY NatLessThanWellFounded DEF Less
  <1>2. PICK m \in S : \A k \in S : ~(<<k, m>> \in Less)
    BY <1>1, WFMin
  <1>3. \A x, y \in Nat : <<x, y>> \in Less <=> x < y
    BY DEF Less, OpToRel
  <1>4. ASSUME NEW k \in S
        PROVE  m <= k
    <2>1. ~(k < m)
      BY <1>2, <1>3
    <2> QED
      BY <2>1
  <1> QED
    BY <1>4

\* The pages after the first m frames of s.
After(g, p, s, m) == [i \in 0..m |-> IF i = 0 THEN p ELSE Handle(g[i - 1], s[i])]

LEMMA AfterExists ==
    ASSUME NEW p, NEW s, NEW n \in Nat
    PROVE  \E g : g = After(g, p, s, n)
  <1> DEFINE Lacking == {m \in Nat : ~\E g : g = After(g, p, s, m)}
  <1>1. Lacking = {}
    <2> SUFFICES ASSUME Lacking # {}
                 PROVE  FALSE
      OBVIOUS
    <2>1. PICK m \in Lacking : \A k \in Lacking : m <= k
      <3> Lacking \in SUBSET Nat
        OBVIOUS
      <3> HIDE DEF Lacking
      <3> QED
        BY LeastOne
    <2>2. m \in Nat /\ ~\E g : g = After(g, p, s, m)
      OBVIOUS
    <2>3. CASE m = 0
      <3> DEFINE g == [i \in 0..0 |-> p]
      <3>1. g = After(g, p, s, 0)
        BY DEF After
      <3> QED
        BY <2>2, <2>3, <3>1
    <2>4. CASE m # 0
      <3>1. m - 1 \in Nat /\ m - 1 \notin Lacking
        BY <2>1, <2>2, <2>4
      <3>2. PICK g : g = After(g, p, s, m - 1)
        BY <3>1
      <3> DEFINE h == [i \in 0..m |-> IF i = m THEN Handle(g[m - 1], s[m]) ELSE g[i]]
      <3>3. \A i \in 0..m : i # m => i \in 0..(m - 1)
        BY <2>2
      <3>4. \A i \in 0..(m - 1) : g[i] = IF i = 0 THEN p ELSE Handle(g[i - 1], s[i])
        BY <3>2 DEF After
      <3>5. ASSUME NEW i \in 0..m
            PROVE  h[i] = IF i = 0 THEN p ELSE Handle(h[i - 1], s[i])
        <4>1. CASE i = m
          <5>1. m - 1 \in 0..m /\ m - 1 # m
            BY <2>2, <2>4
          <5> QED
            BY <2>2, <2>4, <4>1, <5>1
        <4>2. CASE i # m
          <5>1. i \in 0..(m - 1) /\ (i # 0 => i - 1 \in 0..m /\ i - 1 # m)
            BY <2>2, <4>2
          <5> QED
            BY <3>4, <4>2, <5>1
        <4> QED
          BY <4>1, <4>2
      <3>6. h = After(h, p, s, m)
        <4> HIDE DEF h
        <4>1. h = [i \in 0..m |-> h[i]]
          BY DEF h
        <4> QED
          BY <3>5, <4>1 DEF After
      <3> QED
        BY <2>2, <3>6
    <2> QED
      BY <2>3, <2>4
  <1> QED
    BY <1>1

LEMMA HandleAllSteps ==
    ASSUME NEW p, NEW s, Len(s) \in Nat
    PROVE  \E g : /\ HandleAll(p, s) = g[Len(s)] /\ g[0] = p
                  /\ \A i \in 1..Len(s) : g[i] = Handle(g[i - 1], s[i])
  <1> DEFINE n == Len(s)
  <1> DEFINE g == CHOOSE g : g = After(g, p, s, n)
  <1>1. HandleAll(p, s) = g[n]
    BY DEF HandleAll, After
  <1>n. n \in Nat
    OBVIOUS
  <1>2. g = After(g, p, s, n)
    BY <1>n, AfterExists
  <1> HIDE DEF g
  <1>3. \A i \in 0..n : g[i] = IF i = 0 THEN p ELSE Handle(g[i - 1], s[i])
    BY <1>2 DEF After
  <1>4. g[0] = p /\ \A i \in 1..n : g[i] = Handle(g[i - 1], s[i])
    BY <1>n, <1>3
  <1> QED
    BY <1>1, <1>4

\* The frames of a chunk, from the one after the h-th.
LEMMA Chunk ==
    ASSUME frames \in Seq(Frames), NEW h \in Nat, NEW n \in Nat, h + n <= Len(frames)
    PROVE  LET s == SubSeq(frames, h + 1, h + n)
           IN  Len(s) = n /\ \A i \in 1..n : s[i] = frames[h + i]
  <1> DEFINE a == h + 1
             b == h + n
  <1>1. a \in Int /\ b \in Int /\ \A i \in a..b : frames[i] \in Frames
    OBVIOUS
  <1>2. b - a + 1 = n /\ (a <= b <=> n > 0) /\ \A i \in 1..n : a + i - 1 = h + i
    OBVIOUS
  <1> HIDE DEF a, b
  <1>3. /\ Len(SubSeq(frames, a, b)) = IF a <= b THEN b - a + 1 ELSE 0
        /\ \A i \in 1..(b - a + 1) : SubSeq(frames, a, b)[i] = frames[a + i - 1]
    BY <1>1, SubSeqProperties
  <1>4. Len(SubSeq(frames, a, b)) = n
    BY <1>2, <1>3
  <1>5. \A i \in 1..n : SubSeq(frames, a, b)[i] = frames[h + i]
    BY <1>2, <1>3
  <1> QED
    BY <1>4, <1>5 DEF a, b

\* A page that reads handles a chunk's frames: it goes on, or it has ended the turn.
LEMMA HandleAllNext ==
    ASSUME frames \in Seq(Frames), NEW p \in Pages, Agrees(p), Open(p), p.at = "reading",
           NEW n \in Nat, p.handled + n <= Len(frames),
           NEW s, Len(s) = n, \A i \in 1..n : s[i] = frames[p.handled + i]
    PROVE  LET q == HandleAll(p, s)
           IN  /\ q \in Pages /\ Agrees(q)
               /\ \/ Open(q) /\ q.at = "reading" /\ q.handled = p.handled + n
                  \/ Closed(q)
  <1>1. p.handled \in Nat
    BY DEF Pages
  <1>3. PICK g : /\ HandleAll(p, s) = g[n] /\ g[0] = p
                 /\ \A i \in 1..n : g[i] = Handle(g[i - 1], s[i])
    BY HandleAllSteps
  <1> DEFINE Runs(i) ==
               /\ g[i] \in Pages /\ Agrees(g[i])
               /\ \/ Open(g[i]) /\ g[i].at = "reading" /\ g[i].handled = p.handled + i
                  \/ Closed(g[i])
             Bad == {i \in 0..n : ~Runs(i)}
  <1>4. Bad = {}
    <2> SUFFICES ASSUME Bad # {}
                 PROVE  FALSE
      OBVIOUS
    <2>1. PICK m \in Bad : \A k \in Bad : m <= k
      <3> Bad \in SUBSET Nat
        OBVIOUS
      <3> HIDE DEF Bad
      <3> QED
        BY LeastOne
    <2>2. m # 0
      BY <1>1, <1>3
    <2>3. m - 1 \in 0..n /\ m \in 1..n /\ Runs(m - 1) /\ ~Runs(m)
      <3>1. m \in 1..n /\ ~Runs(m)
        BY <2>2
      <3>2. m - 1 \in 0..n /\ ~(m <= m - 1)
        BY <3>1
      <3> QED
        BY <2>1, <3>1, <3>2
    <2> DEFINE q == g[m - 1]
    <2>4. g[m] = Handle(q, frames[p.handled + m])
      BY <1>3, <2>3
    <2>5. CASE Open(q) /\ q.at = "reading" /\ q.handled = p.handled + (m - 1)
      <3>1. q.handled < Len(frames) /\ q.handled + 1 = p.handled + m
        BY <1>1, <2>3, <2>5
      <3>2. q \in Pages /\ Agrees(q)
        BY <2>3
      <3>3. Runs(m)
        <4> HIDE DEF q
        <4>1. g[m] = Handle(q, frames[q.handled + 1])
          BY <2>4, <3>1
        <4> QED
          BY <2>5, <3>1, <3>2, <4>1, HandleNext
      <3> QED
        BY <2>3, <3>3
    <2>6. CASE Closed(q)
      <3>1. g[m] = q
        BY <2>4, <2>6 DEF Closed, Handle
      <3> QED
        BY <2>3, <2>6, <3>1
    <2> QED
      BY <2>3, <2>5, <2>6
  <1>5. Runs(n)
    BY <1>4
  <1> QED
    BY <1>3, <1>5

-----------------------------------------------------------------------------
(* The steps.                                                               *)

LEMMA TypeAndPageInit == Init => TypeInv /\ PageInv
  <1> SUFFICES ASSUME Init
               PROVE  TypeInv /\ PageInv
    OBVIOUS
  <1>1. page \in Pages
    BY DEF Init, Pages, NoCards, CardStates
  <1>2. TypeInv
    <2>1. frames = <<>> /\ over = FALSE /\ read = 0
      BY DEF Init
    <2>2. <<>> \in Seq(Frames) /\ 0 <= 2 * Len(<<>>)
      OBVIOUS
    <2> QED
      BY <1>1, <2>1, <2>2 DEF TypeInv
  <1>3. \A type : UpTo(0, type) = {}
    BY DEF UpTo
  <1>4. Cardinality({}) = 0
    BY FS_EmptySet
  <1>5. Agrees(page)
    BY <1>3, <1>4 DEF Init, Agrees, CountedUpTo
  <1>6. Closed(page) /\ Placed
    BY DEF Init, Closed, Placed
  <1> QED
    BY <1>2, <1>5, <1>6 DEF PageInv

\* A step that leaves the frames alone and the page as good as it was.
LEMMA PageStays ==
    ASSUME TypeInv, frames' = frames, over' \in BOOLEAN, read' = read,
           page' \in Pages, Agrees(page'), Open(page') \/ Closed(page'),
           page'.at = "fetching" => page.at = "fetching" /\ page'.handled = page.handled,
           page'.at = "reading" => page.at # "idle" /\ page'.handled = page.handled,
           Placed
    PROVE  TypeInv' /\ PageInv'
  <1>1. TypeInv'
    BY DEF TypeInv
  <1>2. Agrees(page)'
    <2>1. /\ \A n, type : UpTo(n, type)' = UpTo(n, type)
          /\ \A n : CountedUpTo(n)' = CountedUpTo(n)
      BY DEF UpTo, CountedUpTo
    <2> QED
      BY <2>1 DEF Agrees
  <1>3. (Open(page) \/ Closed(page))'
    BY DEF Open, Closed, Ending, UpTo
  <1>4. Placed'
    BY DEF Placed, TypeInv, Pages
  <1> QED
    BY <1>1, <1>2, <1>3, <1>4 DEF PageInv

LEMMA NewTurn ==
    ASSUME NEW p \in Pages, NEW n \in Nat
    PROVE  [p EXCEPT
              !.at = "fetching", !.state = "submitted", !.busy = TRUE,
              !.asked = n, !.handled = 0, !.raw = 0,
              !.answer = "pending", !.cards = NoCards, !.count = NoCount,
              !.source = "none", !.spoken = <<>>] \in Pages
  <1>1. NoCards \in [Calls -> CardStates] /\ NoCount \in Rows \cup {NoCount}
    BY DEF NoCards, CardStates
  <1> DEFINE q == [p EXCEPT !.at = "fetching", !.state = "submitted", !.busy = TRUE,
                            !.asked = n, !.handled = 0, !.raw = 0]
  <1>2. q \in Pages
    BY DEF Pages
  <1> HIDE DEF q
  <1>3. [q EXCEPT !.answer = "pending", !.cards = NoCards, !.count = NoCount,
                  !.source = "none", !.spoken = <<>>] \in Pages
    <2> DEFINE r == [q EXCEPT !.cards = NoCards, !.count = NoCount]
               t == [r EXCEPT !.answer = "pending", !.source = "none", !.spoken = <<>>]
    <2>1. r \in Pages
      BY <1>1, <1>2 DEF Pages
    <2>2. t = [q EXCEPT !.answer = "pending", !.cards = NoCards, !.count = NoCount,
                        !.source = "none", !.spoken = <<>>]
      BY <1>2 DEF Pages
    <2> HIDE DEF r
    <2>3. t \in Pages
      <3> DEFINE u == [r EXCEPT !.answer = "pending", !.source = "none"]
                 silent == <<>>
      <3>1. u \in Pages
        BY <2>1 DEF Pages
      <3>2. silent \in Seq({"answer", "unanswered", "failure", "stopped"})
        OBVIOUS
      <3> HIDE DEF u, silent
      <3>3. [u EXCEPT !.spoken = silent] \in Pages
        BY <3>1, <3>2 DEF Pages
      <3> QED
        BY <3>3 DEF u, silent
    <2> QED
      BY <2>2, <2>3
  <1> QED
    BY <1>3 DEF q

LEMMA AsksKeeps == TypeInv /\ PageInv /\ Asks => TypeInv' /\ PageInv'
  <1> SUFFICES ASSUME TypeInv, PageInv, Asks
               PROVE  TypeInv' /\ PageInv'
    OBVIOUS
  <1>1. page' \in Pages
    <2> DEFINE n == page.asked + 1
    <2>1. page \in Pages /\ n \in Nat /\ NoCards \in [Calls -> CardStates]
      BY DEF TypeInv, Pages, NoCards, CardStates
    <2>2. page' = [page EXCEPT
                  !.at = "fetching", !.state = "submitted", !.busy = TRUE,
                  !.asked = n, !.handled = 0, !.raw = 0,
                  !.answer = "pending", !.cards = NoCards, !.count = NoCount,
                  !.source = "none", !.spoken = <<>>]
      BY <2>1 DEF Asks, Pages
    <2> HIDE DEF n
    <2> QED
      BY <2>1, <2>2, NewTurn
  <1>2. TypeInv'
    <2>1. frames' = <<>> /\ over' = FALSE /\ read' = 0
      BY DEF Asks
    <2>2. <<>> \in Seq(Frames) /\ 0 <= 2 * Len(<<>>)
      OBVIOUS
    <2> QED
      BY <1>1, <2>1, <2>2 DEF TypeInv
  <1>3. /\ page'.handled = 0 /\ page'.raw = 0 /\ page'.count = NoCount
        /\ page'.source = "none" /\ page'.at = "fetching" /\ page'.busy
        /\ page'.state = "submitted" /\ page'.spoken = <<>> /\ page'.answer = "pending"
        /\ page'.asked = page.asked + 1
    BY DEF Asks, TypeInv, Pages
  <1>4. \A type : UpTo(0, type)' = {}
    BY DEF UpTo
  <1>5. Cardinality({}) = 0
    BY FS_EmptySet
  <1>6. frames' = <<>> /\ read' = 0
    BY DEF Asks
  <1>7. Agrees(page)'
    <2>1. CountedUpTo(0)' = {}
      BY <1>4 DEF CountedUpTo
    <2>2. Len(frames') = 0
      BY <1>6
    <2>3. page'.handled <= Len(frames')
      BY <1>3, <2>2
    <2>4. (page.raw = Cardinality(UpTo(page.handled, "token")))'
      BY <1>3, <1>4, <1>5
    <2> QED
      BY <1>3, <2>1, <2>3, <2>4 DEF Agrees
  <1>8. Open(page)'
    BY <1>3, <1>4 DEF Open, Ending, TypeInv, Pages
  <1>9. Placed'
    BY <1>3, <1>6 DEF Placed
  <1> QED
    BY <1>2, <1>7, <1>8, <1>9 DEF PageInv

LEMMA RespondsKeeps == TypeInv /\ PageInv /\ Responds => TypeInv' /\ PageInv'
  <1> SUFFICES ASSUME TypeInv, PageInv, Responds
               PROVE  TypeInv' /\ PageInv'
    OBVIOUS
  <1>1. /\ page' \in Pages /\ page'.at = "reading" /\ SameTurn(page', page)
        /\ page'.busy = page.busy /\ page'.state = page.state
        /\ page'.spoken = page.spoken /\ page'.answer = page.answer
    BY DEF Responds, TypeInv, Pages, SameTurn
  <1>2. page'.handled = page.handled
    BY <1>1 DEF SameTurn
  <1>3. Agrees(page')
    BY <1>1, SameAgrees DEF PageInv
  <1>4. Open(page')
    <2>1. Open(page) /\ page'.asked = page.asked /\ page'.raw = page.raw
      BY <1>1 DEF PageInv, Closed, Responds, SameTurn
    <2> QED
      BY <1>1, <1>2, <2>1 DEF Open, Ending
  <1> QED
    BY <1>1, <1>2, <1>3, <1>4, PageStays DEF Responds, PageInv, TypeInv

\* Where a turn is in flight the page is in the middle of it.
LEMMA FlightIsOpen ==
    ASSUME TypeInv, PageInv, page.at # "idle"
    PROVE  /\ page \in Pages /\ Agrees(page) /\ Open(page)
           /\ page.asked > 0 /\ page.spoken = <<>>
           /\ UpTo(page.handled, "error") = {}
           /\ page.answer = IF page.raw > 0 THEN "tokens" ELSE "pending"
  BY DEF PageInv, Closed, Open, Ending, TypeInv

LEMMA FailsKeeps == TypeInv /\ PageInv /\ (Refused \/ NetworkDrops) => TypeInv' /\ PageInv'
  <1> SUFFICES ASSUME TypeInv, PageInv, Refused \/ NetworkDrops
               PROVE  TypeInv' /\ PageInv'
    OBVIOUS
  <1>1. /\ page.at # "idle" /\ page' = Return(FailTurn(page))
        /\ frames' = frames /\ over' = over /\ read' = read
    BY DEF Refused, NetworkDrops, InFlight
  <1>2. page' \in Pages /\ Agrees(page') /\ Closed(page')
    BY <1>1, FlightIsOpen, FailedTurn
  <1>3. page'.at = "idle"
    BY <1>2 DEF Closed
  <1> QED
    BY <1>1, <1>2, <1>3, PageStays DEF PageInv, TypeInv

LEMMA AbortsKeeps == TypeInv /\ PageInv /\ Aborts => TypeInv' /\ PageInv'
  <1> SUFFICES ASSUME TypeInv, PageInv, Aborts
               PROVE  TypeInv' /\ PageInv'
    OBVIOUS
  <1>1. /\ page.at # "idle" /\ page' = Return(StopTurn(page))
        /\ frames' = frames /\ over' = over /\ read' = read
    BY DEF Aborts, InFlight
  <1>2. page' \in Pages /\ Agrees(page') /\ Closed(page')
    BY <1>1, FlightIsOpen, StoppedTurn
  <1>3. page'.at = "idle"
    BY <1>2 DEF Closed
  <1> QED
    BY <1>1, <1>2, <1>3, PageStays DEF PageInv, TypeInv

LEMMA StreamClosesKeeps == TypeInv /\ PageInv /\ StreamCloses => TypeInv' /\ PageInv'
  <1> SUFFICES ASSUME TypeInv, PageInv, StreamCloses
               PROVE  TypeInv' /\ PageInv'
    OBVIOUS
  <1>1. /\ page.at = "reading" /\ page' = Return(EndTurn(page))
        /\ frames' = frames /\ over' = over /\ read' = read /\ read = 2 * Len(frames)
    BY DEF StreamCloses
  <1>2. page.handled = Len(frames)
    <2>1. page.handled = read \div 2
      BY <1>1 DEF PageInv, Placed
    <2>2. Len(frames) \in Nat
      BY DEF TypeInv
    <2> QED
      BY <1>1, <2>1, <2>2
  <1>3. page' \in Pages /\ Agrees(page') /\ Closed(page')
    BY <1>1, <1>2, FlightIsOpen, EndedTurn
  <1>4. page'.at = "idle"
    BY <1>3 DEF Closed
  <1> QED
    BY <1>1, <1>3, <1>4, PageStays DEF PageInv, TypeInv

LEMMA StopsKeeps == TypeInv /\ PageInv /\ Stops => TypeInv' /\ PageInv'
  <1> SUFFICES ASSUME TypeInv, PageInv, Stops
               PROVE  TypeInv' /\ PageInv'
    OBVIOUS
  <1>1. /\ page' \in Pages /\ page'.at = page.at /\ SameTurn(page', page)
        /\ page'.busy = page.busy /\ page'.state = page.state
        /\ page'.spoken = page.spoken /\ page'.answer = page.answer
    BY DEF Stops, TypeInv, Pages, SameTurn
  <1>2. page'.handled = page.handled /\ page.at # "idle"
    BY <1>1 DEF SameTurn, Stops, InFlight
  <1>3. Agrees(page')
    BY <1>1, SameAgrees DEF PageInv
  <1>4. Open(page')
    <2>1. Open(page) /\ page'.asked = page.asked /\ page'.raw = page.raw
      BY <1>1, <1>2, FlightIsOpen DEF SameTurn
    <2> QED
      BY <1>1, <1>2, <2>1 DEF Open, Ending
  <1> QED
    BY <1>1, <1>2, <1>3, <1>4, PageStays DEF Stops, PageInv, TypeInv

LEMMA TimerKeeps == TypeInv /\ PageInv /\ TimerPaints => TypeInv' /\ PageInv'
  <1> SUFFICES ASSUME TypeInv, PageInv, TimerPaints
               PROVE  TypeInv' /\ PageInv'
    OBVIOUS
  <1>1. page.at # "idle" /\ page' = Flush(page)
    BY DEF PageInv, Open, Closed, TimerPaints, Flush
  <1>2. /\ page' \in Pages /\ SameTurn(page', page) /\ page'.spoken = page.spoken
        /\ page'.answer = IF page.raw > 0 THEN "tokens" ELSE page.answer
    BY <1>1, Flushed DEF TypeInv
  <1>3. page'.at = page.at /\ page'.busy = page.busy /\ page'.state = page.state
    BY <1>1 DEF Flush, Paint, TypeInv, Pages
  <1>4. page'.handled = page.handled
    BY <1>2 DEF SameTurn
  <1>5. Agrees(page')
    BY <1>2, SameAgrees DEF PageInv
  <1>6. Open(page')
    <2>1. Open(page) /\ page'.asked = page.asked /\ page'.raw = page.raw
      BY <1>1, <1>2, FlightIsOpen DEF SameTurn
    <2> QED
      BY <1>2, <1>3, <1>4, <2>1 DEF Open, Ending
  <1> QED
    BY <1>2, <1>3, <1>4, <1>5, <1>6, PageStays DEF TimerPaints, PageInv, TypeInv

LEMMA ReadsKeeps == TypeInv /\ PageInv /\ Reads => TypeInv' /\ PageInv'
  <1> SUFFICES ASSUME TypeInv, PageInv, Reads
               PROVE  TypeInv' /\ PageInv'
    OBVIOUS
  <1>1. PICK n \in 1..(2 * Len(frames) - read) :
           /\ read' = read + n
           /\ page' = HandleAll(page, SubSeq(frames, read \div 2 + 1, (read + n) \div 2))
    BY DEF Reads
  <1> DEFINE k == (read + n) \div 2 - read \div 2
  <1>2. page.at = "reading" /\ frames' = frames /\ over' = over /\ page.handled = read \div 2
    BY DEF Reads, PageInv, Placed
  <1>3. read \in Nat /\ Len(frames) \in Nat /\ n \in Nat /\ read + n <= 2 * Len(frames)
    BY DEF TypeInv
  <1>4. k \in Nat /\ page.handled + k = (read + n) \div 2 /\ page.handled + k <= Len(frames)
    BY <1>2, <1>3
  <1> DEFINE s == SubSeq(frames, page.handled + 1, page.handled + k)
  <1>5. page' = HandleAll(page, s)
    BY <1>1, <1>2, <1>4
  <1>a. Len(s) = k /\ \A i \in 1..k : s[i] = frames[page.handled + i]
    <2>1. page.handled \in Nat
      BY DEF TypeInv, Pages
    <2> HIDE DEF k
    <2> QED
      BY <1>4, <2>1, Chunk DEF TypeInv
  <1> HIDE DEF k, s
  <1>6. /\ page' \in Pages /\ Agrees(page')
        /\ \/ Open(page') /\ page'.at = "reading" /\ page'.handled = page.handled + k
           \/ Closed(page')
    BY <1>2, <1>4, <1>5, <1>a, FlightIsOpen, HandleAllNext DEF TypeInv
  <1>7. TypeInv'
    BY <1>1, <1>2, <1>3, <1>6 DEF TypeInv
  <1>8. Agrees(page)'
    <2>1. /\ \A m, type : UpTo(m, type)' = UpTo(m, type)
          /\ \A m : CountedUpTo(m)' = CountedUpTo(m)
      BY <1>2 DEF UpTo, CountedUpTo
    <2> QED
      BY <1>2, <1>6, <2>1 DEF Agrees
  <1>9. (Open(page) \/ Closed(page))'
    BY <1>2, <1>6 DEF Open, Closed, Ending, UpTo
  <1>10. Placed'
    BY <1>1, <1>4, <1>6 DEF Placed, Closed
  <1> QED
    BY <1>7, <1>8, <1>9, <1>10 DEF PageInv

\* The service only appends.
LEMMA ServerAppends ==
    ASSUME TypeInv, Server!Next
    PROVE  /\ over' \in BOOLEAN
           /\ frames' = frames \/ \E f \in Frames : frames' = Append(frames, f)
  <1>1. CASE Server!Opens
    BY <1>1 DEF Server!Opens, Server!Yields, TypeInv, Frames
  <1>2. CASE Server!Answers
    BY <1>2 DEF Server!Answers, Server!Yields, TypeInv, Frames
  <1>3. CASE Server!FillsEmptyAnswer
    BY <1>3 DEF Server!FillsEmptyAnswer, Server!Yields, TypeInv, Frames
  <1>4. CASE Server!SumsUp
    <2>1. Server!Summary(IF Server!FallbackUsed THEN "fallback" ELSE "model") \in Frames
      BY DEF Frames
    <2> QED
      BY <1>4, <2>1 DEF Server!SumsUp, Server!Yields, TypeInv
  <1>5. CASE Server!Fails
    <2>1. PICK status \in {500} : Server!Yields(Server!Failure(status))
      BY <1>5 DEF Server!Fails
    <2>2. Server!Failure(status) \in Frames
      BY DEF Frames
    <2> QED
      BY <2>1, <2>2 DEF Server!Yields, TypeInv
  <1>6. CASE Server!Finishes
    BY <1>6 DEF Server!Finishes, Server!Yields, TypeInv, Frames
  <1>7. CASE Server!Ends
    BY <1>7 DEF Server!Ends
  <1> QED
    BY <1>1, <1>2, <1>3, <1>4, <1>5, <1>6, <1>7 DEF Server!Next

LEMMA ServerKeeps == TypeInv /\ PageInv /\ ServerSteps => TypeInv' /\ PageInv'
  <1> SUFFICES ASSUME TypeInv, PageInv, ServerSteps
               PROVE  TypeInv' /\ PageInv'
    OBVIOUS
  <1>1. page' = page /\ read' = read /\ page.at # "idle" /\ Server!Next
    BY DEF ServerSteps, InFlight
  <1>2. /\ over' \in BOOLEAN
        /\ frames' = frames \/ \E f \in Frames : frames' = Append(frames, f)
    BY <1>1, ServerAppends
  <1>3. /\ frames' \in Seq(Frames) /\ Len(frames) <= Len(frames')
        /\ \A i \in 1..Len(frames) : frames'[i] = frames[i]
    BY <1>2 DEF TypeInv
  <1>4. TypeInv'
    BY <1>1, <1>2, <1>3 DEF TypeInv
  <1>5. page \in Pages /\ Agrees(page) /\ Open(page) /\ page.handled \in Nat
        /\ page.handled <= Len(frames)
    BY <1>1, FlightIsOpen DEF Agrees, Pages
  <1>6. /\ \A type : UpTo(page.handled, type)' = UpTo(page.handled, type)
        /\ CountedUpTo(page.handled)' = CountedUpTo(page.handled)
    <2>1. \A i \in 1..page.handled : frames'[i] = frames[i]
      BY <1>3, <1>5 DEF TypeInv
    <2>2. ASSUME NEW type
          PROVE  UpTo(page.handled, type)' = UpTo(page.handled, type)
      BY <1>1, <2>1 DEF UpTo
    <2>3. CountedUpTo(page.handled)' = CountedUpTo(page.handled)
      BY <1>1, <2>1, <2>2 DEF CountedUpTo, UpTo
    <2> QED
      BY <2>2, <2>3
  <1>7. Agrees(page)'
    <2>1. \A i \in UpTo(page.handled, "metadata") : frames'[i] = frames[i]
      BY <1>3, <1>5 DEF UpTo, TypeInv
    <2>2. \A i \in CountedUpTo(page.handled) : frames'[i] = frames[i]
      BY <1>3, <1>5 DEF UpTo, CountedUpTo, TypeInv
    <2>3. page.handled <= Len(frames')
      BY <1>3, <1>5 DEF TypeInv
    <2> QED
      BY <1>1, <1>5, <1>6, <2>1, <2>2, <2>3 DEF Agrees
  <1>8. Open(page)'
    BY <1>1, <1>5, <1>6 DEF Open, Ending
  <1>9. Placed'
    BY <1>1 DEF Placed, PageInv
  <1> QED
    BY <1>4, <1>7, <1>8, <1>9 DEF PageInv

LEMMA PageStep == TypeInv /\ PageInv /\ [Next]_vars => TypeInv' /\ PageInv'
  <1> SUFFICES ASSUME TypeInv, PageInv, [Next]_vars
               PROVE  TypeInv' /\ PageInv'
    OBVIOUS
  <1>1. CASE UNCHANGED vars
    <2>1. frames' = frames /\ over' = over /\ read' = read /\ page' = page
      BY <1>1 DEF vars
    <2> QED
      BY <2>1, PageStays DEF PageInv, TypeInv
  <1> QED
    BY <1>1, AsksKeeps, RespondsKeeps, FailsKeeps, AbortsKeeps, StreamClosesKeeps, StopsKeeps,
       TimerKeeps, ReadsKeeps, ServerKeeps DEF Next

LEMMA PageInvariant == Spec => [](TypeInv /\ PageInv)
  <1> QED
    BY TypeAndPageInit, PageStep, PTL DEF Spec

\* A turn is announced once, when it is over, with the log muted and the composer
\* locked exactly while it is in flight; for any service, chunks, failures and stops.
THEOREM TurnsAnnouncedOnce == Spec => []AnnouncedOnce
  <1>1. TypeInv /\ PageInv => AnnouncedOnce
    <2> SUFFICES ASSUME TypeInv, PageInv
                 PROVE  AnnouncedOnce
      OBVIOUS
    <2>1. CASE Open(page)
      BY <2>1 DEF Open, AnnouncedOnce, InFlight, Ended, TypeInv, Pages
    <2>2. CASE Closed(page)
      <3>1. ASSUME page.asked > 0
            PROVE  Len(page.spoken) = 1
        <4>1. PICK words \in Words : page.spoken = <<words>>
          BY <2>2, <3>1 DEF Closed, Told, Words
        <4> QED
          BY <4>1
      <3> QED
        BY <2>2, <3>1 DEF Closed, AnnouncedOnce, InFlight, Ended, TypeInv, Pages
    <2> QED
      BY <2>1, <2>2 DEF PageInv
  <1> QED
    BY <1>1, PageInvariant, PTL

\* What the page shows of a turn that ended is what the frames it handled say:
\* every token the service sent, the no-answer card exactly for a last count of zero
\* or a fallback, a failure that nothing paints over, and a stop that leaves no card
\* running (app.js, endTurn, failTurn and stopTurn).
THEOREM ShownAlwaysWhatWasSent == Spec => []ShownIsWhatWasSent
  <1>1. TypeInv /\ PageInv => ShownIsWhatWasSent
    <2> SUFFICES ASSUME TypeInv, PageInv
                 PROVE  ShownIsWhatWasSent
      OBVIOUS
    <2>1. CASE ~Ended
      BY <2>1 DEF ShownIsWhatWasSent, AnswerShown, NoAnswerShown, FailureShown, StopShown, Said
    <2>2. CASE Ended
      <3>1. page.asked > 0 /\ page.at = "idle" /\ Closed(page) /\ Agrees(page)
        BY <2>2 DEF Ended, PageInv, Open
      <3>2. /\ \A type : Handled(type) = UpTo(page.handled, type)
            /\ Counted = CountedUpTo(page.handled)
        BY DEF Handled, UpTo, Counted, CountedUpTo
      <3>3. NothingFound <=> page.count = 0
        <4>1. \A i \in Counted : frames[i].rows # NoCount /\ i \in Nat
          BY DEF Counted, Handled
        <4>2. 0 # NoCount
          BY DEF NoCount
        <4>3. page.count = NoCount => Counted = {}
          BY <3>1, <3>2 DEF Agrees
        <4>4. page.count # NoCount =>
                \E i \in Counted : page.count = frames[i].rows /\ \A j \in Counted : j <= i
          BY <3>1, <3>2 DEF Agrees
        <4>5. \A i, j \in Counted :
                 (\A k \in Counted : k <= i) /\ (\A k \in Counted : k <= j) => i = j
          BY <4>1
        <4> QED
          BY <4>2, <4>3, <4>4, <4>5 DEF NothingFound
      <3>4. \A words : Said(words) <=> Told(page, words)
        BY <2>2 DEF Said, Told
      <3>5. AnswerShown
        BY <3>1, <3>2, <3>3, <3>4 DEF AnswerShown, Closed, Agrees, Told
      <3>6. NoAnswerShown
        BY <3>1, <3>2, <3>3, <3>4 DEF NoAnswerShown, Closed, Agrees
      <3>7. FailureShown
        BY <3>1, <3>2, <3>4 DEF FailureShown, Closed
      <3>8. StopShown
        BY <3>1, <3>4 DEF StopShown, Closed
      <3> QED
        BY <3>5, <3>6, <3>7, <3>8 DEF ShownIsWhatWasSent
    <2> QED
      BY <2>1, <2>2
  <1> QED
    BY <1>1, PageInvariant, PTL
=============================================================================
