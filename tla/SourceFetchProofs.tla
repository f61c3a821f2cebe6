-------------------------- MODULE SourceFetchProofs -------------------------
(***************************************************************************)
(* Proofs about SourceFetch, for every number of queries, pages and        *)
(* retries, all times and any answers: its types, how long a fetch may     *)
(* take, that its requests are permitted and how they are spaced; that the *)
(* pages asked for and failed are accounted for, that a truncated fetch    *)
(* treats the queries alike, and that a posting is yielded once.           *)
(***************************************************************************)
EXTENDS SourceFetch, FiniteSetTheorems, WellFoundedInduction, TLAPS

-----------------------------------------------------------------------------
(* Types.                                                                   *)

\* The longest request takes a natural number of seconds.
LEMMA RequestTyped == MaxRequest \in Nat
  BY TimesAssumption DEF MaxRequest

\* The pause before a retry is a natural number.
LEMMA PauseTyped == \A n \in 0..Retries : Backoff * 2^n \in Nat
  BY TimesAssumption, PowersAssumption

\* An answer is a sequence of hits, and yields each id a natural number of times.
LEMMA AnswerShape ==
    ASSUME NEW hits \in Answers
    PROVE  /\ \A i \in DOMAIN hits : hits[i] \in Hits
           /\ IsFiniteSet(DOMAIN hits)
  <1>1. PICK n \in 0..MaxHits : hits \in [1..n -> Hits]
    BY DEF Answers
  <1>2. IsFiniteSet(1..n)
    BY <1>1, TimesAssumption, FS_Interval
  <1> QED
    BY <1>1, <1>2

LEMMA YieldedTyped ==
    ASSUME NEW hits \in Answers, NEW id \in Ids
    PROVE  Yielded(hits, id) \in Nat
  <1>1. {i \in New(hits) : hits[i].wanted /\ hits[i].id = id} \subseteq DOMAIN hits
    BY DEF New
  <1> QED
    BY <1>1, AnswerShape, FS_Subset, FS_CardinalityType DEF Yielded

\* The next page of the schedule.
LEMMA AdvancesTyped ==
    ASSUME page \in 1..Pages, query \in 1..Queries, Advances
    PROVE  page' \in 1..(Pages + 1) /\ query' \in 1..Queries
  BY CursorAssumption DEF Advances

\* While a page is asked for, it is one of the schedule and has a try left.
AskingInv == at = "asking" => page \in 1..Pages /\ attempts \in 0..Retries
TypeInv == TypeOK /\ AskingInv

LEMMA FirstPage == 1 \in 1..(Pages + 1) /\ 1 \in 1..Queries
  BY CursorAssumption

LEMMA NothingYielded == [id \in Ids |-> 0] \in [Ids -> Nat]
  OBVIOUS

LEMMA TypeInit == Init => TypeInv
  <1> SUFFICES ASSUME Init PROVE TypeInv
    OBVIOUS
  <1>1. page \in 1..(Pages + 1) /\ query \in 1..Queries
    BY FirstPage DEF Init
  <1>2. emitted \in [Ids -> Nat]
    BY NothingYielded DEF Init
  <1>3. cached \in [known : BOOLEAN, allows : BOOLEAN, expires : Nat]
    BY DEF Init
  <1>4. /\ at = "created"
        /\ {clock, start, failed, fetches, attempts} \subseteq Nat
        /\ {lastEnd, permit} \subseteq Nat \cup {Never}
    BY DEF Init
  <1>5. /\ exhausted \in BOOLEAN
        /\ seen = {} /\ delivered = {} /\ requested = {} /\ answered = {}
    BY DEF Init
  <1> QED
    BY <1>1, <1>2, <1>3, <1>4, <1>5 DEF TypeInv, TypeOK, AskingInv, Ended

\* What a request and the pause after it leave typed.
LEMMA AsksTyped ==
    ASSUME TypeInv, NEW sleep \in Nat, Asks(sleep)
    PROVE  /\ at = "asking"
           /\ clock' \in Nat /\ lastEnd' \in Nat
           /\ start' \in Nat /\ fetches' \in Nat
           /\ exhausted' \in BOOLEAN
           /\ cached' \in [known : BOOLEAN, allows : BOOLEAN, expires : Nat]
           /\ permit' \in Nat \cup {Never}
           /\ requested' \subseteq Schedule
  BY RequestTyped DEF TypeInv, TypeOK, Asks, gateVars

LEMMA TypeStep == TypeInv /\ [Next]_vars => TypeInv'
  <1> SUFFICES ASSUME TypeInv, [Next]_vars PROVE TypeInv'
    OBVIOUS
  <1> USE DEF TypeInv, TypeOK
  <1>1. CASE UNCHANGED vars
    BY <1>1 DEF vars, gateVars, pageVars, AskingInv
  <1>2. CASE Starts
    <2>1. PICK gap \in 0..MaxGap : clock' = clock + gap
      BY <1>2 DEF Starts
    <2>2. clock' \in Nat
      BY <2>1, TimesAssumption
    <2>3. page' \in 1..(Pages + 1) /\ query' \in 1..Queries
      BY <1>2, FirstPage DEF Starts
    <2>4. emitted' \in [Ids -> Nat]
      BY <1>2, NothingYielded DEF Starts
    <2>5. /\ at' = "gate"
          /\ {clock', start', failed', fetches', attempts'} \subseteq Nat
          /\ {lastEnd', permit'} \subseteq Nat \cup {Never}
      BY <1>2, <2>2 DEF Starts, gateVars
    <2>6. /\ exhausted' \in BOOLEAN
          /\ cached' = cached
          /\ seen' = {} /\ delivered' = {} /\ requested' = {} /\ answered' = {}
      BY <1>2 DEF Starts, gateVars
    <2> QED
      BY <2>3, <2>4, <2>5, <2>6 DEF AskingInv
  <1>3. CASE GateRemembers
    BY <1>3 DEF GateRemembers, Decides, UnchangedByGate, gateVars, pageVars, AskingInv,
       Ended
  <1>4. CASE GateReadsPolicy
    <2>1. clock' \in Nat
      BY <1>4, RequestTyped DEF GateReadsPolicy
    <2>2. cached' \in [known : BOOLEAN, allows : BOOLEAN, expires : Nat]
      BY <1>4, <2>1, TimesAssumption DEF GateReadsPolicy
    <2>3. permit' \in Nat \cup {Never}
      BY <1>4, <2>1 DEF GateReadsPolicy
    <2>4. at' \in {"top", "aborted"}
      BY <1>4 DEF GateReadsPolicy, Decides
    <2> QED
      BY <1>4, <2>1, <2>2, <2>3, <2>4 DEF GateReadsPolicy, UnchangedByGate, pageVars,
         AskingInv, Ended
  <1>5. CASE GateFindsNone
    <2>1. clock' \in Nat
      BY <1>5, RequestTyped DEF GateFindsNone
    <2>2. permit' \in Nat \cup {Never}
      BY <1>5, <2>1 DEF GateFindsNone
    <2>3. at' \in {"top", "aborted"}
      BY <1>5 DEF GateFindsNone, Decides
    <2> QED
      BY <1>5, <2>1, <2>2, <2>3 DEF GateFindsNone, UnchangedByGate, pageVars, AskingInv,
         Ended
  <1>6. CASE StopsEarly
    BY <1>6 DEF StopsEarly, gateVars, pageVars, AskingInv, Ended
  <1>7. CASE RunsOut
    BY <1>7 DEF RunsOut, gateVars, pageVars, AskingInv, Ended
  <1>8. CASE OpensPage
    <2>1. page \in 1..Pages
      BY <1>8, CursorAssumption DEF OpensPage
    <2>2. requested' \subseteq Schedule
      BY <1>8, <2>1 DEF OpensPage, Schedule
    <2> QED
      BY <1>8, <2>1, <2>2, TimesAssumption DEF OpensPage, gateVars, AskingInv
  <1>9. CASE Answered
    <2>1. Asks(Delay) /\ Delay \in Nat
      BY <1>9, TimesAssumption DEF Answered
    <2>2. /\ at = "asking"
          /\ clock' \in Nat /\ lastEnd' \in Nat
          /\ start' \in Nat /\ fetches' \in Nat
          /\ exhausted' \in BOOLEAN
          /\ cached' \in [known : BOOLEAN, allows : BOOLEAN, expires : Nat]
          /\ permit' \in Nat \cup {Never}
          /\ requested' \subseteq Schedule
      BY <2>1, AsksTyped
    <2>3. page' \in 1..(Pages + 1) /\ query' \in 1..Queries
      BY <1>9, <2>2, AdvancesTyped DEF Answered, AskingInv
    <2>4. PICK hits \in Answers :
            /\ seen' = seen \cup {hits[i].id : i \in New(hits)}
            /\ emitted' = [id \in Ids |-> emitted[id] + Yielded(hits, id)]
            /\ delivered' = delivered \cup {hits[i] : i \in DOMAIN hits}
      BY <1>9 DEF Answered
    <2>5. seen' \subseteq Ids
      BY <2>4, AnswerShape DEF New, Hits
    <2>6. emitted' \in [Ids -> Nat]
      BY <2>4, YieldedTyped
    <2>7. delivered' \subseteq Hits
      BY <2>4, AnswerShape
    <2>8. answered' \subseteq Schedule
      BY <1>9, <2>2 DEF Answered, AskingInv, Schedule
    <2> QED
      BY <1>9, <2>2, <2>3, <2>5, <2>6, <2>7, <2>8 DEF Answered, AskingInv
  <1>10. CASE Retried
    <2>1. Backoff * 2^attempts \in Nat
      BY <1>10, PauseTyped DEF Retried, Asks, AskingInv
    <2>2. Asks(Backoff * 2^attempts)
      BY <1>10 DEF Retried
    <2>3. /\ at = "asking"
          /\ clock' \in Nat /\ lastEnd' \in Nat
          /\ start' \in Nat /\ fetches' \in Nat
          /\ exhausted' \in BOOLEAN
          /\ cached' \in [known : BOOLEAN, allows : BOOLEAN, expires : Nat]
          /\ permit' \in Nat \cup {Never}
          /\ requested' \subseteq Schedule
      BY <2>1, <2>2, AsksTyped
    <2>4. attempts' \in 0..Retries
      BY <1>10, <2>3, TimesAssumption DEF Retried, AskingInv
    <2> QED
      BY <1>10, <2>3, <2>4, TimesAssumption DEF Retried, AskingInv
  <1>11. CASE GivesUp \/ Breaks
    <2>1. Asks(Delay) /\ Delay \in Nat
      BY <1>11, TimesAssumption DEF GivesUp, Breaks
    <2>2. /\ at = "asking"
          /\ clock' \in Nat /\ lastEnd' \in Nat
          /\ start' \in Nat /\ fetches' \in Nat
          /\ exhausted' \in BOOLEAN
          /\ cached' \in [known : BOOLEAN, allows : BOOLEAN, expires : Nat]
          /\ permit' \in Nat \cup {Never}
          /\ requested' \subseteq Schedule
      BY <2>1, AsksTyped
    <2>3. page' \in 1..(Pages + 1) /\ query' \in 1..Queries
      BY <1>11, <2>2, AdvancesTyped DEF GivesUp, Breaks, AskingInv
    <2> QED
      BY <1>11, <2>2, <2>3 DEF GivesUp, Breaks, AskingInv, Ended
  <1>12. CASE AllFetched
    BY <1>1, <1>12 DEF AllFetched
  <1> QED
    BY <1>1, <1>2, <1>3, <1>4, <1>5, <1>6, <1>7, <1>8, <1>9, <1>10, <1>11, <1>12
       DEF Next

LEMMA TypeInvariant == Spec => []TypeInv
  BY TypeInit, TypeStep, PTL DEF Spec

\* Every variable of a source keeps its type, whatever the site answers and
\* however long it takes (services/ingestion/sources/vietnamworks.py,
\* compliance.py).
THEOREM FetchTypeCorrect == Spec => []TypeOK
  <1>1. TypeInv => TypeOK
    BY DEF TypeInv
  <1> QED
    BY <1>1, TypeInvariant, PTL

-----------------------------------------------------------------------------
(* The bound.  A page is opened within the budget; the tries already made of *)
(* it, and the pauses after them, are what has been spent since.            *)

Spent(n) == n * MaxRequest + Backoff * (2^n - 1)
Bound == MaxElapsed + WorstPage(MaxRequest) + Delay

BoundInv ==
    /\ start <= clock
    /\ at = "gate" => clock = start
    /\ at = "asking" => clock - start <= MaxElapsed + Spent(attempts)
    /\ at \notin {"gate", "asking"} => clock - start <= Bound

\* One more try, and the pause before the next, add what the ladder says.
LEMMA SpentNext ==
    \A n \in 0..Retries : Spent(n + 1) = Spent(n) + MaxRequest + Backoff * 2^n
  <1> SUFFICES ASSUME NEW n \in 0..Retries
               PROVE  Spent(n + 1) = Spent(n) + MaxRequest + Backoff * 2^n
    OBVIOUS
  <1> DEFINE p == 2^n
             q == 2^(n + 1)
  <1>1. p \in Nat /\ q = 2 * p
    BY PowersAssumption
  <1>2. n \in Nat /\ Backoff \in Nat /\ MaxRequest \in Nat
    BY TimesAssumption, RequestTyped
  <1> HIDE DEF p, q
  <1>3. Backoff * (q - 1) = Backoff * (p - 1) + Backoff * p
    BY <1>1, <1>2
  <1>4. (n + 1) * MaxRequest = n * MaxRequest + MaxRequest
    BY <1>2
  <1>5. n * MaxRequest \in Int /\ Backoff * (p - 1) \in Int /\ Backoff * p \in Int
    BY <1>1, <1>2
  <1>6. Spent(n + 1) = (n + 1) * MaxRequest + Backoff * (q - 1)
    BY DEF Spent, q
  <1>7. Spent(n) = n * MaxRequest + Backoff * (p - 1)
    BY DEF Spent, p
  <1>8. Backoff * 2^n = Backoff * p
    BY DEF p
  <1> QED
    BY <1>2, <1>3, <1>4, <1>5, <1>6, <1>7, <1>8

\* The last try of a page ends within the worst page.
LEMMA SpentMost ==
    \A n \in 0..Retries :
        /\ Spent(n) \in Int /\ WorstPage(MaxRequest) \in Int
        /\ Spent(n) + MaxRequest <= WorstPage(MaxRequest)
  <1> SUFFICES ASSUME NEW n \in 0..Retries
               PROVE  /\ Spent(n) \in Int /\ WorstPage(MaxRequest) \in Int
                      /\ Spent(n) + MaxRequest <= WorstPage(MaxRequest)
    OBVIOUS
  <1> DEFINE p == 2^n
             q == 2^Retries
  <1>1. /\ n \in Nat /\ Retries \in Nat /\ n <= Retries
        /\ Backoff \in Nat /\ MaxRequest \in Nat
    BY TimesAssumption, RequestTyped
  <1>2. p \in Nat /\ q \in Nat /\ p <= q
    BY <1>1, PowersAssumption
  <1> HIDE DEF p, q
  <1>3. Backoff * (p - 1) <= Backoff * (q - 1)
    BY <1>1, <1>2
  <1>4. n * MaxRequest + MaxRequest <= (Retries + 1) * MaxRequest
    <2>1. (n + 1) * MaxRequest <= (Retries + 1) * MaxRequest
      BY <1>1
    <2>2. (n + 1) * MaxRequest = n * MaxRequest + MaxRequest
      BY <1>1
    <2> QED
      BY <2>1, <2>2
  <1>5. /\ n * MaxRequest \in Int /\ (Retries + 1) * MaxRequest \in Int
        /\ Backoff * (p - 1) \in Int /\ Backoff * (q - 1) \in Int
    BY <1>1, <1>2
  <1>6. Spent(n) = n * MaxRequest + Backoff * (p - 1)
    BY DEF Spent, p
  <1>7. WorstPage(MaxRequest) = (Retries + 1) * MaxRequest + Backoff * (q - 1)
    BY DEF WorstPage, q
  <1> QED
    BY <1>1, <1>3, <1>4, <1>5, <1>6, <1>7

\* Nothing has been spent when a page is opened, and a request fits in the bound.
LEMMA SpentNone ==
    /\ Spent(0) = 0
    /\ WorstPage(MaxRequest) \in Int
    /\ MaxRequest <= WorstPage(MaxRequest)
  <1>1. 2^0 = 1
    BY PowersAssumption, TimesAssumption
  <1>2. Backoff \in Nat /\ MaxRequest \in Nat /\ 0 \in 0..Retries
    BY TimesAssumption, RequestTyped
  <1>3. Spent(0) = 0
    BY <1>1, <1>2 DEF Spent
  <1> QED
    BY <1>2, <1>3, SpentMost

LEMMA BoundInit == Init => BoundInv
  BY TimesAssumption, RequestTyped, SpentNone DEF Init, BoundInv, Bound

\* A request of a page that was opened in time, and the pause after it.
LEMMA AskedInTime ==
    ASSUME TypeInv, BoundInv, NEW sleep \in Nat, Asks(sleep)
    PROVE  /\ start' = start
           /\ start <= clock'
           /\ clock' - start <= MaxElapsed + Spent(attempts) + MaxRequest + sleep
  <1>1. PICK took \in 0..MaxRequest : clock' = clock + took + sleep
    BY DEF Asks
  <1>2. at = "asking" /\ start' = start /\ start \in Nat /\ clock \in Nat
    BY DEF Asks, TypeInv, TypeOK
  <1>3. start <= clock /\ clock - start <= MaxElapsed + Spent(attempts)
    BY <1>2 DEF BoundInv
  <1>4. attempts \in 0..Retries
    BY <1>2 DEF TypeInv, AskingInv
  <1>5. MaxElapsed \in Nat /\ MaxRequest \in Nat /\ Spent(attempts) \in Int
    BY <1>4, TimesAssumption, RequestTyped, SpentMost
  <1> QED
    BY <1>1, <1>2, <1>3, <1>5

LEMMA Sums ==
    \A elapsed, budget, spent, request, pause, total \in Int :
        total = spent + request + pause /\ elapsed <= budget + spent + request + pause
          => elapsed <= budget + total
  OBVIOUS

\* The last request of a page.
LEMMA LastAskedInTime ==
    ASSUME TypeInv, BoundInv, Asks(Delay)
    PROVE  start' = start /\ start <= clock' /\ clock' - start <= Bound
  <1>1. Delay \in Nat /\ MaxElapsed \in Nat /\ MaxRequest \in Nat
    BY TimesAssumption, RequestTyped
  <1>2. /\ start' = start
        /\ start <= clock'
        /\ clock' - start <= MaxElapsed + Spent(attempts) + MaxRequest + Delay
    BY <1>1, AskedInTime
  <1>3. attempts \in 0..Retries
    BY DEF Asks, TypeInv, AskingInv
  <1>4. /\ Spent(attempts) \in Int /\ WorstPage(MaxRequest) \in Int
        /\ Spent(attempts) + MaxRequest <= WorstPage(MaxRequest)
    BY <1>3, SpentMost
  <1>5. start \in Nat /\ clock' \in Nat
    BY <1>1, AsksTyped DEF TypeInv, TypeOK
  <1> QED
    BY <1>1, <1>2, <1>4, <1>5 DEF Bound

LEMMA BoundStep == TypeInv /\ TypeInv' /\ BoundInv /\ [Next]_vars => BoundInv'
  <1> SUFFICES ASSUME TypeInv, TypeInv', BoundInv, [Next]_vars PROVE BoundInv'
    OBVIOUS
  <1>1. /\ start \in Nat /\ clock \in Nat /\ clock' \in Nat
        /\ Delay \in Nat /\ MaxElapsed \in Nat /\ MaxRequest \in Nat
        /\ WorstPage(MaxRequest) \in Int /\ MaxRequest <= WorstPage(MaxRequest)
    BY TimesAssumption, RequestTyped, SpentNone DEF TypeInv, TypeOK
  <1>2. CASE UNCHANGED vars
    BY <1>2 DEF vars, BoundInv, Spent
  <1>3. CASE Starts
    BY <1>1, <1>3 DEF Starts, BoundInv
  <1>4. CASE GateRemembers
    BY <1>1, <1>4 DEF GateRemembers, Decides, UnchangedByGate, BoundInv, Bound
  <1>5. CASE GateReadsPolicy \/ GateFindsNone
    <2>1. PICK took \in 0..MaxRequest : clock' = clock + took
      BY <1>5 DEF GateReadsPolicy, GateFindsNone
    <2>2. /\ clock = start /\ start' = start
          /\ at' \in {"top", "aborted"}
      BY <1>5 DEF GateReadsPolicy, GateFindsNone, Decides, UnchangedByGate, BoundInv
    <2> QED
      BY <1>1, <2>1, <2>2 DEF BoundInv, Bound
  <1>6. CASE StopsEarly \/ RunsOut
    BY <1>6 DEF StopsEarly, RunsOut, BoundInv
  <1>7. CASE OpensPage
    <2>1. attempts' = 0 /\ clock < start + MaxElapsed
      BY <1>7 DEF OpensPage, InBudget
    <2>2. Spent(attempts') = 0
      BY <2>1, SpentNone
    <2>3. at' = "asking" /\ clock' = clock /\ start' = start
      BY <1>7 DEF OpensPage
    <2>4. start' <= clock' /\ clock' - start' <= MaxElapsed + Spent(attempts')
      BY <1>1, <2>1, <2>2, <2>3 DEF BoundInv
    <2> QED
      BY <2>3, <2>4 DEF BoundInv
  <1>8. CASE Retried
    <2>1. attempts \in 0..Retries /\ attempts' = attempts + 1 /\ at' = "asking"
      BY <1>8 DEF Retried, Asks, TypeInv, AskingInv
    <2>2. Backoff * 2^attempts \in Nat
      BY <2>1, PauseTyped
    <2>3. /\ start' = start
          /\ start <= clock'
          /\ clock' - start
               <= MaxElapsed + Spent(attempts) + MaxRequest + Backoff * 2^attempts
      BY <1>8, <2>2, AskedInTime DEF Retried
    <2>4. Spent(attempts) \in Int
      BY <2>1, SpentMost
    <2>5. Spent(attempts + 1) = Spent(attempts) + MaxRequest + Backoff * 2^attempts
      BY <2>1, SpentNext
    <2>6. clock' - start' <= MaxElapsed + Spent(attempts')
      <3>1. Spent(attempts') = Spent(attempts) + MaxRequest + Backoff * 2^attempts
        BY <2>1, <2>5
      <3>2. /\ clock' - start \in Int /\ MaxElapsed \in Int /\ MaxRequest \in Int
            /\ Backoff * 2^attempts \in Int
        BY <1>1, <2>2
      <3>3. clock' - start <= MaxElapsed + Spent(attempts')
        BY <2>3, <2>4, <3>1, <3>2, Sums
      <3> QED
        BY <2>3, <3>3
    <2> QED
      BY <2>1, <2>3, <2>6 DEF BoundInv
  <1>9. CASE Answered \/ GivesUp \/ Breaks
    <2>1. Asks(Delay) /\ at' \in {"top", "failed"}
      BY <1>9 DEF Answered, GivesUp, Breaks
    <2>2. start' = start /\ start <= clock' /\ clock' - start <= Bound
      BY <2>1, LastAskedInTime
    <2> QED
      BY <2>1, <2>2 DEF BoundInv
  <1>10. CASE AllFetched
    BY <1>2, <1>10 DEF AllFetched
  <1> QED
    BY <1>2, <1>3, <1>4, <1>5, <1>6, <1>7, <1>8, <1>9, <1>10 DEF Next

\* A fetch outlasts max_elapsed_seconds by no more than the longest retry ladder
\* of one page and the pause after it: _out_of_budget is asked before each page
\* (services/ingestion/sources/vietnamworks.py).
THEOREM FetchAlwaysWithinBudget == Spec => []FetchWithinBudget
  <1>1. BoundInv => FetchWithinBudget
    BY DEF BoundInv, FetchWithinBudget, Bound, Ended
  <1>2. Init => TypeInv /\ BoundInv
    BY TypeInit, BoundInit
  <1>3. TypeInv /\ BoundInv /\ [Next]_vars => (TypeInv /\ BoundInv)'
    BY TypeStep, BoundStep
  <1> QED
    BY <1>1, <1>2, <1>3, PTL DEF Spec

-----------------------------------------------------------------------------
(* What the site was promised.  A policy that is remembered and allows the  *)
(* fetch was read from the site when its lifetime began.                    *)

PermitInv ==
    /\ permit <= clock
    /\ cached.known /\ cached.allows =>
         permit # Never /\ cached.expires <= permit + CacheTtl
    /\ RequestsPermitted

LEMMA PermitInit == Init => PermitInv
  BY DEF Init, PermitInv, RequestsPermitted, Never

LEMMA PermitStep ==
    TypeInv /\ TypeInv' /\ BoundInv /\ PermitInv /\ [Next]_vars => PermitInv'
  <1> SUFFICES ASSUME TypeInv, TypeInv', BoundInv, PermitInv, [Next]_vars
               PROVE  PermitInv'
    OBVIOUS
  <1>1. /\ clock \in Nat /\ clock' \in Nat /\ start \in Nat /\ CacheTtl \in Nat
        /\ permit \in Nat \cup {Never} /\ cached.expires \in Nat
        /\ cached \in [known : BOOLEAN, allows : BOOLEAN, expires : Nat]
    BY TimesAssumption DEF TypeInv, TypeOK
  <1>2. CASE UNCHANGED vars
    BY <1>2 DEF vars, gateVars, PermitInv, RequestsPermitted
  <1>3. CASE Starts
    <2>1. PICK gap \in 0..MaxGap : clock' = clock + gap
      BY <1>3 DEF Starts
    <2>2. gap \in Nat
      BY TimesAssumption
    <2> QED
      BY <1>1, <1>3, <2>1, <2>2 DEF Starts, gateVars, PermitInv, RequestsPermitted, Never
  <1>4. CASE GateRemembers
    <2>1. clock = start /\ cached.known /\ clock < cached.expires
      BY <1>4 DEF GateRemembers, Fresh, BoundInv
    <2>2. /\ clock' = clock /\ start' = start /\ cached' = cached /\ permit' = permit
          /\ at' = IF cached.allows THEN "top" ELSE "aborted"
      BY <1>4 DEF GateRemembers, Decides, UnchangedByGate, gateVars
    <2>3. CASE cached.allows
      BY <1>1, <2>1, <2>2, <2>3 DEF PermitInv, RequestsPermitted, Never
    <2>4. CASE ~cached.allows
      BY <1>1, <2>1, <2>2, <2>4 DEF PermitInv, RequestsPermitted, Never
    <2> QED
      BY <2>3, <2>4
  <1>5. CASE GateReadsPolicy
    <2>1. PICK took \in 0..MaxRequest : clock' = clock + took
      BY <1>5 DEF GateReadsPolicy
    <2>2. took \in Nat /\ clock = start /\ start' = start
      BY <1>5, RequestTyped DEF GateReadsPolicy, UnchangedByGate, BoundInv
    <2>3. PICK allows \in BOOLEAN :
            /\ cached' = [known |-> TRUE, allows |-> allows,
                          expires |-> clock' + CacheTtl]
            /\ permit' = IF allows THEN clock' ELSE permit
            /\ at' = IF allows THEN "top" ELSE "aborted"
      BY <1>5 DEF GateReadsPolicy, Decides
    <2>4. CASE allows
      BY <1>1, <2>1, <2>2, <2>3, <2>4 DEF PermitInv, RequestsPermitted, Never
    <2>5. CASE ~allows
      BY <1>1, <2>1, <2>2, <2>3, <2>5 DEF PermitInv, RequestsPermitted, Never
    <2> QED
      BY <2>4, <2>5
  <1>6. CASE GateFindsNone
    <2>1. PICK took \in 0..MaxRequest : clock' = clock + took
      BY <1>6 DEF GateFindsNone
    <2>2. took \in Nat /\ clock = start /\ start' = start /\ cached' = cached
      BY <1>6, RequestTyped DEF GateFindsNone, UnchangedByGate, BoundInv
    <2>3. \/ permit' = clock' /\ at' = "top"
          \/ permit' = permit /\ at' = "aborted"
      <3>1. PICK allows \in {FALSE, Allow404} :
              /\ permit' = IF allows THEN clock' ELSE permit
              /\ at' = IF allows THEN "top" ELSE "aborted"
        BY <1>6 DEF GateFindsNone, Decides
      <3> QED
        BY <3>1
    <2>4. CASE permit' = clock' /\ at' = "top"
      BY <1>1, <2>1, <2>2, <2>4 DEF PermitInv, RequestsPermitted, Never
    <2>5. CASE permit' = permit /\ at' = "aborted"
      BY <1>1, <2>1, <2>2, <2>5 DEF PermitInv, RequestsPermitted, Never
    <2> QED
      BY <2>3, <2>4, <2>5
  <1>7. CASE StopsEarly \/ RunsOut \/ OpensPage
    BY <1>7 DEF StopsEarly, RunsOut, OpensPage, gateVars, PermitInv, RequestsPermitted
  <1>8. CASE Answered \/ Retried \/ GivesUp \/ Breaks
    <2>1. /\ at = "asking"
          /\ at' \in {"top", "asking", "failed"}
          /\ start' = start /\ cached' = cached /\ permit' = permit
      BY <1>8 DEF Answered, Retried, GivesUp, Breaks, Asks, gateVars
    <2>2. clock <= clock'
      <3>1. PICK sleep \in Nat : Asks(sleep)
        <4>1. Delay \in Nat
          BY TimesAssumption
        <4>2. CASE Retried
          BY <4>2, PauseTyped DEF Retried, Asks, TypeInv, AskingInv
        <4> QED
          BY <1>8, <4>1, <4>2 DEF Answered, GivesUp, Breaks
      <3>2. PICK took \in 0..MaxRequest : clock' = clock + took + sleep
        BY <3>1 DEF Asks
      <3> QED
        BY <1>1, <3>2, RequestTyped
    <2> QED
      BY <1>1, <2>1, <2>2 DEF PermitInv, RequestsPermitted, Never
  <1>9. CASE AllFetched
    BY <1>2, <1>9 DEF AllFetched
  <1> QED
    BY <1>2, <1>3, <1>4, <1>5, <1>6, <1>7, <1>8, <1>9 DEF Next

\* No page is asked for unless the site permitted it in this fetch, or less than
\* the cache's lifetime before it: RobotsPolicyGate fails closed and remembers
\* no refusal as a permission (services/ingestion/compliance.py).
THEOREM RequestsAlwaysPermitted == Spec => []RequestsPermitted
  <1>1. PermitInv => RequestsPermitted
    BY DEF PermitInv
  <1>2. Init => TypeInv /\ BoundInv /\ PermitInv
    BY TypeInit, BoundInit, PermitInit
  <1>3. TypeInv /\ BoundInv /\ PermitInv /\ [Next]_vars
          => (TypeInv /\ BoundInv /\ PermitInv)'
    BY TypeStep, BoundStep, PermitStep
  <1> QED
    BY <1>1, <1>2, <1>3, PTL DEF Spec

-----------------------------------------------------------------------------
(* Pauses.  The delay of a page is behind the fetch when it is back at the  *)
(* top of the loop.                                                         *)

SpacingInv ==
    /\ at = "gate" => lastEnd = Never
    /\ at = "top" /\ lastEnd # Never => clock - lastEnd >= Delay
    /\ PoliteSpacing

LEMMA SpacingInit == Init => SpacingInv
  BY DEF Init, SpacingInv, PoliteSpacing

LEMMA SpacingStep == TypeInv /\ TypeInv' /\ SpacingInv /\ [Next]_vars => SpacingInv'
  <1> SUFFICES ASSUME TypeInv, TypeInv', SpacingInv, [Next]_vars PROVE SpacingInv'
    OBVIOUS
  <1>1. CASE UNCHANGED vars
    BY <1>1 DEF vars, SpacingInv, PoliteSpacing
  <1>2. CASE Starts
    BY <1>2 DEF Starts, SpacingInv, PoliteSpacing
  <1>3. CASE GateRemembers \/ GateReadsPolicy \/ GateFindsNone
    <2>1. lastEnd' = Never
      BY <1>3 DEF GateRemembers, GateReadsPolicy, GateFindsNone, UnchangedByGate, SpacingInv
    <2> QED
      BY <1>3, <2>1 DEF GateRemembers, GateReadsPolicy, GateFindsNone, Decides, SpacingInv,
         PoliteSpacing
  <1>4. CASE StopsEarly \/ RunsOut
    BY <1>4 DEF StopsEarly, RunsOut, SpacingInv, PoliteSpacing
  <1>5. CASE OpensPage
    BY <1>5 DEF OpensPage, SpacingInv, PoliteSpacing
  <1>6. ASSUME NEW sleep \in Nat, Asks(sleep)
        PROVE  clock' - lastEnd' >= sleep
    <2>1. PICK took \in 0..MaxRequest :
            lastEnd' = clock + took /\ clock' = clock + took + sleep
      BY <1>6 DEF Asks
    <2>2. clock \in Nat /\ took \in Nat
      BY RequestTyped DEF TypeInv, TypeOK
    <2> QED
      BY <2>1, <2>2
  <1>7. CASE Answered \/ GivesUp \/ Breaks
    <2>1. Asks(Delay) /\ Delay \in Nat /\ at' \in {"top", "failed"}
      BY <1>7, TimesAssumption DEF Answered, GivesUp, Breaks
    <2> QED
      BY <1>6, <2>1 DEF SpacingInv, PoliteSpacing
  <1>8. CASE Retried
    <2>1. attempts \in 0..Retries /\ attempts' = attempts + 1 /\ at' = "asking"
      BY <1>8 DEF Retried, Asks, TypeInv, AskingInv
    <2>2. Asks(Backoff * 2^attempts) /\ Backoff * 2^attempts \in Nat
      BY <1>8, <2>1, PauseTyped DEF Retried
    <2>3. clock' - lastEnd' >= Backoff * 2^attempts
      BY <1>6, <2>2
    <2>4. attempts' # 0 /\ attempts' - 1 = attempts
      BY <2>1
    <2>5. PoliteSpacing'
      BY <2>3, <2>4 DEF PoliteSpacing
    <2> QED
      BY <2>1, <2>5 DEF SpacingInv
  <1>9. CASE AllFetched
    BY <1>1, <1>9 DEF AllFetched
  <1> QED
    BY <1>1, <1>2, <1>3, <1>4, <1>5, <1>7, <1>8, <1>9 DEF Next

\* Between two requests of a fetch lie the politeness delay or the pause of the
\* retry ladder, also after a page that failed
\* (services/ingestion/sources/vietnamworks.py).
THEOREM SpacingAlwaysPolite == Spec => []PoliteSpacing
  <1>1. SpacingInv => PoliteSpacing
    BY DEF SpacingInv
  <1>2. Init => TypeInv /\ SpacingInv
    BY TypeInit, SpacingInit
  <1>3. TypeInv /\ SpacingInv /\ [Next]_vars => (TypeInv /\ SpacingInv)'
    BY TypeStep, SpacingStep
  <1> QED
    BY <1>1, <1>2, <1>3, PTL DEF Spec

-----------------------------------------------------------------------------
(* The schedule, as far as a cursor has come.                               *)

\* The pages before page p of query c, page-major.
Upto(p, c) == {r \in Schedule : r[1] < p \/ (r[1] = p /\ r[2] < c)}

\* The pages 1 to n of query q.
Column(n, q) == {<<i, q>> : i \in 1..n}

LEMMA ScheduleFinite == IsFiniteSet(Schedule)
  <1>1. IsFiniteSet(1..Pages) /\ IsFiniteSet(1..Queries)
    BY CursorAssumption, FS_Interval
  <1> QED
    BY <1>1, FS_Product DEF Schedule

LEMMA UptoFinite ==
    ASSUME NEW p, NEW c, NEW S
    PROVE  IsFiniteSet(Upto(p, c) \ S)
  <1>1. Upto(p, c) \ S \in SUBSET Schedule
    BY DEF Upto
  <1> QED
    BY <1>1, ScheduleFinite, FS_Subset

\* Nothing comes before the first page, and all before the one after the last.
LEMMA UptoEnds ==
    /\ Upto(1, 1) = {}
    /\ \A c \in 1..Queries : Upto(Pages + 1, c) = Schedule
  BY CursorAssumption DEF Upto, Schedule

\* The page at the cursor is the one that the next cursor adds.
LEMMA UptoNext ==
    ASSUME NEW p \in 1..Pages, NEW c \in 1..Queries
    PROVE  /\ <<p, c>> \in Schedule
           /\ <<p, c>> \notin Upto(p, c)
           /\ Upto(p, c + 1) = Upto(p, c) \cup {<<p, c>>}
  <1>1. <<p, c>> \in Schedule
    BY DEF Schedule
  <1>2. <<p, c>> \notin Upto(p, c)
    BY DEF Upto
  <1>3. ASSUME NEW r \in Schedule
        PROVE  r \in Upto(p, c + 1) <=> r \in Upto(p, c) \cup {<<p, c>>}
    <2>1. PICK i \in 1..Pages, j \in 1..Queries : r = <<i, j>>
      BY DEF Schedule
    <2>2. j < c + 1 <=> j < c \/ j = c
      OBVIOUS
    <2> QED
      BY <2>1, <2>2 DEF Upto
  <1>4. Upto(p, c + 1) \subseteq Schedule /\ Upto(p, c) \subseteq Schedule
    BY DEF Upto
  <1> QED
    BY <1>1, <1>2, <1>3, <1>4

\* The last query of a page is followed by the first of the next page.
LEMMA UptoWraps ==
    ASSUME NEW p \in 1..Pages
    PROVE  Upto(p, Queries + 1) = Upto(p + 1, 1)
  <1>1. ASSUME NEW r \in Schedule
        PROVE  r \in Upto(p, Queries + 1) <=> r \in Upto(p + 1, 1)
    <2>1. PICK i \in 1..Pages, j \in 1..Queries : r = <<i, j>>
      BY DEF Schedule
    <2>2. j < Queries + 1 /\ ~(j < 1) /\ (i < p + 1 <=> i < p \/ i = p)
      BY CursorAssumption
    <2> QED
      BY <2>1, <2>2 DEF Upto
  <1>2. Upto(p, Queries + 1) \subseteq Schedule /\ Upto(p + 1, 1) \subseteq Schedule
    BY DEF Upto
  <1> QED
    BY <1>1, <1>2

LEMMA AdvancesUpto ==
    ASSUME page \in 1..Pages, query \in 1..Queries, Advances
    PROVE  Upto(page', query') = Upto(page, query + 1)
  <1>1. CASE query < Queries
    BY <1>1 DEF Advances
  <1>2. CASE ~(query < Queries)
    <2>1. query = Queries
      BY <1>2, CursorAssumption
    <2> QED
      BY <1>2, <2>1, UptoWraps DEF Advances
  <1> QED
    BY <1>1, <1>2

\* How many pages of a query come before a cursor.
LEMMA ColumnSize ==
    ASSUME NEW n \in Nat, NEW q
    PROVE  Cardinality(Column(n, q)) = n
  <1> DEFINE f == [i \in 1..n |-> <<i, q>>]
  <1>1. f \in Bijection(1..n, Column(n, q))
    BY DEF Bijection, Injection, Surjection, IsInjective, Column
  <1>2. ExistsBijection(1..n, Column(n, q))
    BY <1>1 DEF ExistsBijection
  <1>3. IsFiniteSet(1..n) /\ Cardinality(1..n) = n
    BY FS_Interval
  <1> QED
    BY <1>2, <1>3, FS_Bijection

LEMMA QueryUpto ==
    ASSUME NEW p \in 1..(Pages + 1), NEW c \in Nat, NEW q \in 1..Queries
    PROVE  LET n == IF p <= Pages /\ q < c THEN p ELSE p - 1
           IN  /\ n \in {p - 1, p}
               /\ Cardinality({r \in Upto(p, c) : r[2] = q}) = n
  <1> DEFINE n == IF p <= Pages /\ q < c THEN p ELSE p - 1
             S == {r \in Upto(p, c) : r[2] = q}
  <1>1. n \in Nat /\ n <= Pages
    BY CursorAssumption
  <1>2. ASSUME NEW r \in S
        PROVE  r \in Column(n, q)
    <2>1. PICK i \in 1..Pages, j \in 1..Queries : r = <<i, j>>
      BY DEF Upto, Schedule
    <2>2. j = q /\ (i < p \/ (i = p /\ q < c))
      BY <2>1 DEF Upto
    <2>3. i \in 1..n
      BY <2>2, CursorAssumption
    <2> QED
      BY <2>1, <2>2, <2>3 DEF Column
  <1>3. ASSUME NEW r \in Column(n, q)
        PROVE  r \in S
    <2>1. PICK i \in 1..n : r = <<i, q>>
      BY DEF Column
    <2>2. i \in 1..Pages /\ (i < p \/ (i = p /\ q < c))
      BY <1>1, CursorAssumption
    <2> QED
      BY <2>1, <2>2 DEF Upto, Schedule
  <1>4. S = Column(n, q)
    BY <1>2, <1>3
  <1>5. Cardinality(S) = n
    BY <1>1, <1>4, ColumnSize
  <1> QED
    BY <1>5

-----------------------------------------------------------------------------
(* The cursor says which pages have been asked for; those before it that have *)
(* no answer are the ones that failed.                                        *)

Cursor == IF at \in {"asking", "failed"} THEN query + 1 ELSE query

PagesInv ==
    /\ requested = Upto(page, Cursor)
    /\ answered \subseteq Upto(page, query)
    /\ failed = Cardinality(Upto(page, query) \ answered)
    /\ at = "failed" => page \in 1..Pages
    /\ at # "done" => ~exhausted
    /\ at = "done" => (exhausted <=> page <= Pages)

LEMMA PagesInit == Init => PagesInv
  <1> SUFFICES ASSUME Init PROVE PagesInv
    OBVIOUS
  <1>1. at = "created" /\ page = 1 /\ query = 1 /\ exhausted = FALSE
    BY DEF Init
  <1>2. requested = {} /\ answered = {} /\ failed = 0
    BY DEF Init
  <1>3. Upto(1, 1) = {} /\ Cardinality({}) = 0
    BY UptoEnds, FS_EmptySet
  <1> QED
    BY <1>1, <1>2, <1>3 DEF PagesInv, Cursor

\* What a request leaves of the pages asked for.
LEMMA AskedPage ==
    ASSUME TypeInv, PagesInv, at = "asking"
    PROVE  /\ page \in 1..Pages /\ query \in 1..Queries
           /\ requested = Upto(page, query + 1)
           /\ ~exhausted
           /\ <<page, query>> \notin answered
           /\ IsFiniteSet(Upto(page, query) \ answered)
  <1>1. page \in 1..Pages /\ query \in 1..Queries
    BY DEF TypeInv, TypeOK, AskingInv
  <1>2. <<page, query>> \notin Upto(page, query)
    BY <1>1, UptoNext
  <1> QED
    BY <1>1, <1>2, UptoFinite DEF PagesInv, Cursor

LEMMA PagesStep == TypeInv /\ PagesInv /\ [Next]_vars => PagesInv'
  <1> SUFFICES ASSUME TypeInv, PagesInv, [Next]_vars PROVE PagesInv'
    OBVIOUS
  <1>1. CASE UNCHANGED vars
    BY <1>1 DEF vars, gateVars, pageVars, PagesInv, Cursor
  <1>2. CASE Starts
    <2>1. at' = "gate" /\ page' = 1 /\ query' = 1 /\ exhausted' = FALSE
      BY <1>2 DEF Starts
    <2>2. requested' = {} /\ answered' = {} /\ failed' = 0
      BY <1>2 DEF Starts
    <2>3. Upto(1, 1) = {} /\ Cardinality({}) = 0
      BY UptoEnds, FS_EmptySet
    <2> QED
      BY <2>1, <2>2, <2>3 DEF PagesInv, Cursor
  <1>3. CASE GateRemembers \/ GateReadsPolicy \/ GateFindsNone
    <2>1. at = "gate" /\ at' \in {"top", "aborted"} /\ UnchangedByGate
      BY <1>3 DEF GateRemembers, GateReadsPolicy, GateFindsNone, Decides
    <2> QED
      BY <2>1 DEF UnchangedByGate, pageVars, PagesInv, Cursor
  <1>4. CASE StopsEarly
    BY <1>4 DEF StopsEarly, pageVars, PagesInv, Cursor
  <1>5. CASE RunsOut
    <2>1. at' = "done" /\ ~exhausted' /\ ~(page' <= Pages)
      BY <1>5, CursorAssumption DEF RunsOut, PagesInv, TypeInv, TypeOK
    <2> QED
      BY <1>5, <2>1 DEF RunsOut, pageVars, PagesInv, Cursor
  <1>6. CASE OpensPage
    <2>1. page \in 1..Pages /\ query \in 1..Queries
      BY <1>6, CursorAssumption DEF OpensPage, TypeInv, TypeOK
    <2>2. requested' = Upto(page, query + 1)
      BY <1>6, <2>1, UptoNext DEF OpensPage, PagesInv, Cursor
    <2> QED
      BY <1>6, <2>2 DEF OpensPage, PagesInv, Cursor
  <1>7. CASE Answered
    <2>1. /\ at = "asking" /\ at' = "top" /\ Advances
          /\ requested' = requested /\ exhausted' = exhausted /\ failed' = failed
          /\ answered' = answered \cup {<<page, query>>}
      BY <1>7 DEF Answered, Asks
    <2>2. /\ page \in 1..Pages /\ query \in 1..Queries
          /\ requested = Upto(page, query + 1)
          /\ ~exhausted
      BY <2>1, AskedPage
    <2>3. Upto(page', query') = Upto(page, query) \cup {<<page, query>>}
            /\ <<page, query>> \notin Upto(page, query)
      BY <2>1, <2>2, AdvancesUpto, UptoNext
    <2>4. Upto(page', query') \ answered' = Upto(page, query) \ answered
      BY <2>1, <2>3
    <2>5. requested' = Upto(page', query')
      BY <2>1, <2>2, AdvancesUpto
    <2>6. answered' \subseteq Upto(page', query')
      BY <2>1, <2>3 DEF PagesInv
    <2> QED
      BY <2>1, <2>2, <2>4, <2>5, <2>6 DEF PagesInv, Cursor
  <1>8. CASE Retried
    BY <1>8 DEF Retried, Asks, PagesInv, Cursor
  <1>9. CASE GivesUp
    <2>1. /\ at = "asking" /\ at' = "top" /\ Advances
          /\ requested' = requested /\ exhausted' = exhausted
          /\ failed' = failed + 1 /\ answered' = answered
      BY <1>9 DEF GivesUp, Asks
    <2>2. /\ page \in 1..Pages /\ query \in 1..Queries
          /\ requested = Upto(page, query + 1)
          /\ ~exhausted
          /\ <<page, query>> \notin answered
          /\ IsFiniteSet(Upto(page, query) \ answered)
      BY <2>1, AskedPage
    <2>3. Upto(page', query') = Upto(page, query) \cup {<<page, query>>}
            /\ <<page, query>> \notin Upto(page, query)
      BY <2>1, <2>2, AdvancesUpto, UptoNext
    <2>4. Upto(page', query') \ answered'
            = (Upto(page, query) \ answered) \cup {<<page, query>>}
      BY <2>1, <2>2, <2>3
    <2>5. failed' = Cardinality(Upto(page', query') \ answered')
      <3>1. failed = Cardinality(Upto(page, query) \ answered)
        BY DEF PagesInv
      <3>2. <<page, query>> \notin Upto(page, query) \ answered
        BY <2>3
      <3>3. Cardinality((Upto(page, query) \ answered) \cup {<<page, query>>})
              = Cardinality(Upto(page, query) \ answered) + 1
        BY <2>2, <3>2, FS_AddElement
      <3> QED
        BY <2>1, <2>4, <3>1, <3>3
    <2>6. requested' = Upto(page', query')
      BY <2>1, <2>2, AdvancesUpto
    <2>7. answered' \subseteq Upto(page', query')
      BY <2>1, <2>3 DEF PagesInv
    <2> QED
      BY <2>1, <2>2, <2>5, <2>6, <2>7 DEF PagesInv, Cursor
  <1>10. CASE Breaks
    <2>1. at = "asking"
      BY <1>10 DEF Breaks, Asks
    <2> QED
      BY <1>10, <2>1, AskedPage DEF Breaks, Asks, PagesInv, Cursor
  <1>11. CASE AllFetched
    BY <1>1, <1>11 DEF AllFetched
  <1> QED
    BY <1>1, <1>2, <1>3, <1>4, <1>5, <1>6, <1>7, <1>8, <1>9, <1>10, <1>11 DEF Next

LEMMA PagesInvariant == Spec => [](TypeInv /\ PagesInv)
  BY TypeInit, TypeStep, PagesInit, PagesStep, PTL DEF Spec

\* pages_failed is the number of pages that _collect asked for in vain, and a
\* fetch that ends without exhausting its budget has asked for every page of
\* every query (services/ingestion/sources/vietnamworks.py).
THEOREM PagesAlwaysAccounted == Spec => []PagesAccounted
  <1>1. TypeInv /\ PagesInv => PagesAccounted
    <2> SUFFICES ASSUME TypeInv, PagesInv, at = "done"
                 PROVE  /\ failed = Cardinality(requested \ answered)
                        /\ exhausted <=> requested # Schedule
      BY DEF PagesAccounted
    <2>1. requested = Upto(page, query) /\ (exhausted <=> page <= Pages)
      BY DEF PagesInv, Cursor
    <2>2. page \in 1..(Pages + 1) /\ query \in 1..Queries
      BY DEF TypeInv, TypeOK
    <2>3. CASE page <= Pages
      <3>1. page \in 1..Pages
        BY <2>2, <2>3, CursorAssumption
      <3>2. <<page, query>> \in Schedule /\ <<page, query>> \notin Upto(page, query)
        BY <2>2, <3>1, UptoNext
      <3> QED
        BY <2>1, <2>3, <3>2 DEF PagesInv
    <2>4. CASE ~(page <= Pages)
      <3>1. page = Pages + 1
        BY <2>2, <2>4, CursorAssumption
      <3>2. requested = Schedule
        BY <2>1, <2>2, <3>1, UptoEnds
      <3> QED
        BY <2>1, <2>4, <3>2 DEF PagesInv
    <2> QED
      BY <2>3, <2>4
  <1> QED
    BY <1>1, PagesInvariant, PTL

\* However early the budget ends a fetch, no query is ahead of another by more
\* than a page: _collect goes through the pages page-major
\* (services/ingestion/sources/vietnamworks.py).
THEOREM TruncatesAlwaysEvenly == Spec => []TruncatesEvenly
  <1>1. TypeInv /\ PagesInv => TruncatesEvenly
    <2> SUFFICES ASSUME TypeInv, PagesInv, NEW q \in 1..Queries, NEW s \in 1..Queries
                 PROVE  Cardinality({r \in requested : r[2] = q})
                          - Cardinality({r \in requested : r[2] = s}) <= 1
      BY DEF TruncatesEvenly
    <2>1. page \in 1..(Pages + 1) /\ Cursor \in Nat
      BY CursorAssumption DEF TypeInv, TypeOK, Cursor
    <2>2. requested = Upto(page, Cursor)
      BY DEF PagesInv
    <2>3. \A j \in 1..Queries :
            Cardinality({r \in requested : r[2] = j}) \in {page - 1, page}
      BY <2>1, <2>2, QueryUpto
    <2>4. \A x, y \in {page - 1, page} : x - y <= 1
      BY <2>1, CursorAssumption
    <2> QED
      BY <2>3, <2>4
  <1> QED
    BY <1>1, PagesInvariant, PTL

-----------------------------------------------------------------------------
(* The postings: an id that has been seen is never new again, and one that   *)
(* was not seen as unwanted has been yielded.                                *)

Less == OpToRel(<, Nat)

\* A nonempty set of natural numbers has a least one.
LEMMA LeastOne ==
    ASSUME NEW S \in SUBSET Nat, S # {}
    PROVE  \E m \in S : \A k \in S : m <= k
  <1>1. IsWellFoundedOn(Less, Nat)
    BY NatLessThanWellFounded DEF Less
  <1>2. PICK m \in S : \A k \in S : ~(<<k, m>> \in Less)
    BY <1>1, WFMin
  <1>3. \A x, y \in Nat : <<x, y>> \in Less <=> x < y
    BY DEF Less, OpToRel
  <1>4. ASSUME NEW k \in S
        PROVE  m <= k
    <2>1. ~(k < m)
      BY <1>2, <1>3
    <2> QED
      BY <2>1
  <1> QED
    BY <1>4

Unwanted(id) == [id |-> id, wanted |-> FALSE]
PostingsInv ==
    /\ \A id \in Ids : emitted[id] \in {0, 1} /\ (id \notin seen => emitted[id] = 0)
    /\ \A hit \in delivered : hit.id # NoId => hit.id \in seen
    /\ \A id \in seen : Unwanted(id) \notin delivered => emitted[id] = 1

\* The hits of an answer: their places are natural numbers.
LEMMA Places ==
    ASSUME NEW hits \in Answers
    PROVE  /\ DOMAIN hits \in SUBSET Nat
           /\ \A i \in DOMAIN hits : \A j \in 1..(i - 1) : j \in DOMAIN hits
  <1>1. PICK n \in 0..MaxHits : hits \in [1..n -> Hits]
    BY DEF Answers
  <1> QED
    BY <1>1, TimesAssumption

\* An id is new at one place at most.
LEMMA NewOnce ==
    ASSUME NEW hits \in Answers, NEW i \in New(hits), NEW j \in New(hits),
           hits[i].id = hits[j].id
    PROVE  i = j
  <1>1. i \in Nat /\ j \in Nat /\ i >= 1 /\ j >= 1
    <2>1. PICK n \in 0..MaxHits : hits \in [1..n -> Hits]
      BY DEF Answers
    <2> QED
      BY <2>1, TimesAssumption DEF New
  <1>2. ~(i < j)
    <2>1. ASSUME i < j PROVE FALSE
      <3>1. i \in 1..(j - 1)
        BY <1>1, <2>1
      <3> QED
        BY <3>1 DEF New
    <2> QED
      BY <2>1
  <1>3. ~(j < i)
    <2>1. ASSUME j < i PROVE FALSE
      <3>1. j \in 1..(i - 1)
        BY <1>1, <2>1
      <3> QED
        BY <3>1 DEF New
    <2> QED
      BY <2>1
  <1> QED
    BY <1>1, <1>2, <1>3

\* An answer yields an id once if its new hit is wanted, and not otherwise.
LEMMA YieldedOnce ==
    ASSUME NEW hits \in Answers, NEW id \in Ids
    PROVE  /\ Yielded(hits, id) \in {0, 1}
           /\ id \in seen => Yielded(hits, id) = 0
           /\ \A i \in New(hits) :
                hits[i].id = id /\ hits[i].wanted => Yielded(hits, id) = 1
           /\ (\A i \in New(hits) : hits[i].id # id) => Yielded(hits, id) = 0
  <1> DEFINE S == {i \in New(hits) : hits[i].wanted /\ hits[i].id = id}
  <1>1. Yielded(hits, id) = Cardinality(S)
    BY DEF Yielded
  <1>2. CASE S = {}
    <2>1. Yielded(hits, id) = 0
      BY <1>1, <1>2, FS_EmptySet
    <2>2. \A i \in New(hits) : ~(hits[i].id = id /\ hits[i].wanted)
      BY <1>2
    <2> QED
      BY <2>1, <2>2
  <1>3. CASE S # {}
    <2>1. PICK i \in S : TRUE
      BY <1>3
    <2>2. S = {i}
      BY <2>1, NewOnce
    <2>3. Yielded(hits, id) = 1
      BY <1>1, <2>2, FS_Singleton
    <2>4. id \notin seen
      BY <2>1 DEF New
    <2> QED
      BY <2>1, <2>3, <2>4
  <1> QED
    BY <1>2, <1>3

\* Every id of an answer has been seen before or is new in it.
LEMMA SeenOrNew ==
    ASSUME NEW hits \in Answers, NEW i \in DOMAIN hits, hits[i].id # NoId
    PROVE  hits[i].id \in seen \cup {hits[j].id : j \in New(hits)}
  <1> DEFINE S == {j \in DOMAIN hits : hits[j].id = hits[i].id}
  <1>1. S \in SUBSET Nat /\ S # {}
    BY Places
  <1>2. PICK m \in S : \A k \in S : m <= k
    BY <1>1, LeastOne
  <1>3. \A j \in 1..(m - 1) : hits[j].id # hits[m].id
    <2> SUFFICES ASSUME NEW j \in 1..(m - 1), hits[j].id = hits[m].id
                 PROVE  FALSE
      OBVIOUS
    <2>1. j \in S
      BY Places
    <2>2. m <= j /\ m \in Nat
      BY <1>1, <1>2, <2>1
    <2> QED
      BY <2>2
  <1>4. CASE hits[i].id \in seen
    BY <1>4
  <1>5. CASE hits[i].id \notin seen
    <2>1. m \in New(hits)
      BY <1>3, <1>5 DEF New
    <2> QED
      BY <2>1
  <1> QED
    BY <1>4, <1>5

LEMMA PostingsInit == Init => PostingsInv
  BY DEF Init, PostingsInv

\* A page of hits.
LEMMA AnsweredKeepsPostings ==
    ASSUME TypeInv, PostingsInv, Answered
    PROVE  PostingsInv'
  <1>1. PICK hits \in Answers :
          /\ seen' = seen \cup {hits[i].id : i \in New(hits)}
          /\ emitted' = [id \in Ids |-> emitted[id] + Yielded(hits, id)]
          /\ delivered' = delivered \cup {hits[i] : i \in DOMAIN hits}
    BY DEF Answered
  <1>2. seen \subseteq Ids /\ \A i \in New(hits) : hits[i].id \in Ids
    BY AnswerShape DEF TypeInv, TypeOK, New, Hits
  <1>3. ASSUME NEW id \in Ids
        PROVE  emitted'[id] \in {0, 1} /\ (id \notin seen' => emitted'[id] = 0)
    <2>1. emitted'[id] = emitted[id] + Yielded(hits, id)
      BY <1>1
    <2>2. emitted[id] \in {0, 1} /\ (id \notin seen => emitted[id] = 0)
      BY DEF PostingsInv
    <2>3. CASE id \in seen
      BY <1>1, <2>1, <2>2, <2>3, YieldedOnce
    <2>4. CASE id \notin seen
      <3>1. emitted[id] = 0 /\ Yielded(hits, id) \in {0, 1}
        BY <2>2, <2>4, YieldedOnce
      <3>2. id \notin seen' => Yielded(hits, id) = 0
        BY <1>1, YieldedOnce
      <3> QED
        BY <2>1, <3>1, <3>2
    <2> QED
      BY <2>3, <2>4
  <1>4. ASSUME NEW hit \in delivered', hit.id # NoId
        PROVE  hit.id \in seen'
    <2>1. CASE hit \in delivered
      BY <1>1, <1>4, <2>1 DEF PostingsInv
    <2>2. CASE hit \in {hits[i] : i \in DOMAIN hits}
      <3>1. PICK i \in DOMAIN hits : hit = hits[i]
        BY <2>2
      <3> QED
        BY <1>1, <1>4, <3>1, SeenOrNew
    <2> QED
      BY <1>1, <2>1, <2>2
  <1>5. ASSUME NEW id \in seen', Unwanted(id) \notin delivered'
        PROVE  emitted'[id] = 1
    <2>1. id \in Ids
      BY <1>1, <1>2
    <2>2. emitted'[id] = emitted[id] + Yielded(hits, id)
      BY <1>1, <2>1
    <2>3. CASE id \in seen
      <3>1. emitted[id] = 1
        BY <1>1, <1>5, <2>3 DEF PostingsInv
      <3> QED
        BY <2>1, <2>2, <2>3, <3>1, YieldedOnce
    <2>4. CASE id \notin seen
      <3>1. PICK i \in New(hits) : hits[i].id = id
        BY <1>1, <2>4
      <3>2. i \in DOMAIN hits
        BY DEF New
      <3>3. hits[i] \in Hits /\ hits[i] \in delivered'
        BY <1>1, <3>2, AnswerShape
      <3>4. hits[i].wanted
        <4>1. CASE hits[i] \in [id : Ids, wanted : BOOLEAN]
          <5>1. ASSUME ~hits[i].wanted PROVE FALSE
            <6>1. hits[i] = Unwanted(id)
              BY <3>1, <4>1, <5>1 DEF Unwanted
            <6> QED
              BY <1>5, <3>3, <6>1
          <5> QED
            BY <5>1
        <4>2. CASE hits[i] = [id |-> NoId, wanted |-> TRUE]
          BY <4>2
        <4> QED
          BY <3>3, <4>1, <4>2 DEF Hits
      <3>5. Yielded(hits, id) = 1
        BY <2>1, <3>1, <3>4, YieldedOnce
      <3>6. emitted[id] = 0
        BY <2>1, <2>4 DEF PostingsInv
      <3> QED
        BY <2>2, <3>5, <3>6
    <2> QED
      BY <2>3, <2>4
  <1> QED
    BY <1>3, <1>4, <1>5 DEF PostingsInv

LEMMA PostingsStep == TypeInv /\ PostingsInv /\ [Next]_vars => PostingsInv'
  <1> SUFFICES ASSUME TypeInv, PostingsInv, [Next]_vars PROVE PostingsInv'
    OBVIOUS
  <1>1. CASE UNCHANGED <<seen, emitted, delivered>>
    BY <1>1 DEF PostingsInv
  <1>2. CASE Starts
    BY <1>2 DEF Starts, PostingsInv
  <1>3. CASE Answered
    BY <1>3, AnsweredKeepsPostings
  <1>4. CASE GateRemembers \/ GateReadsPolicy \/ GateFindsNone
    BY <1>1, <1>4 DEF GateRemembers, GateReadsPolicy, GateFindsNone, UnchangedByGate,
       pageVars
  <1>5. CASE StopsEarly \/ RunsOut \/ OpensPage
    BY <1>1, <1>5 DEF StopsEarly, RunsOut, OpensPage, pageVars
  <1>6. CASE Retried \/ GivesUp \/ Breaks
    BY <1>1, <1>6 DEF Retried, GivesUp, Breaks
  <1>7. CASE UNCHANGED vars \/ AllFetched
    BY <1>1, <1>7 DEF AllFetched, vars, pageVars
  <1> QED
    BY <1>2, <1>3, <1>4, <1>5, <1>6, <1>7 DEF Next

LEMMA PostingsInvariant == Spec => [](TypeInv /\ PostingsInv)
  BY TypeInit, TypeStep, PostingsInit, PostingsStep, PTL DEF Spec

\* No posting is yielded twice by a fetch, within a page or across pages, and
\* none that was always listed as wanted is lost, whatever the answers list
\* (_collect in services/ingestion/sources/vietnamworks.py).
THEOREM EveryPostingAlwaysOnce == Spec => []EveryPostingOnce
  <1>1. TypeInv /\ PostingsInv => EveryPostingOnce
    <2> SUFFICES ASSUME TypeInv, PostingsInv PROVE EveryPostingOnce
      OBVIOUS
    <2>1. \A id \in Ids : emitted[id] <= 1
      BY DEF PostingsInv
    <2>2. ASSUME NEW hit \in delivered,
                 hit.id # NoId, [hit EXCEPT !.wanted = FALSE] \notin delivered
          PROVE  emitted[hit.id] = 1
      <3>1. hit \in [id : Ids, wanted : BOOLEAN]
        <4>1. \A h \in Hits : h.id # NoId => h \in [id : Ids, wanted : BOOLEAN]
          BY DEF Hits
        <4>2. hit.id # NoId /\ hit \in Hits
          BY <2>2 DEF TypeInv, TypeOK
        <4> QED
          BY <4>1, <4>2
      <3>2. [hit EXCEPT !.wanted = FALSE] = Unwanted(hit.id)
        <4>1. [hit EXCEPT !.wanted = FALSE] \in [id : Ids, wanted : BOOLEAN]
          BY <3>1
        <4>2. /\ [hit EXCEPT !.wanted = FALSE].id = hit.id
              /\ [hit EXCEPT !.wanted = FALSE].wanted = FALSE
          BY <3>1
        <4>3. \A h \in [id : Ids, wanted : BOOLEAN] :
                h = [id |-> h.id, wanted |-> h.wanted]
          OBVIOUS
        <4> QED
          BY <4>1, <4>2, <4>3 DEF Unwanted
      <3> QED
        BY <2>2, <3>2 DEF PostingsInv
    <2> QED
      BY <2>1, <2>2 DEF EveryPostingOnce
  <1> QED
    BY <1>1, PostingsInvariant, PTL

=============================================================================
