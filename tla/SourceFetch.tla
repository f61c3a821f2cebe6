---------------------------- MODULE SourceFetch -----------------------------
(***************************************************************************)
(* One VietnamWorksSource: fetches, each opened by the robots gate, that   *)
(* ask for pages x queries round-robin, retry, pause between pages and     *)
(* stop at a wall-clock budget.  Nothing runs beside it; what is hard is   *)
(* time.  A step is a request and the sleep after it.  The site (its       *)
(* answers, its robots policy and how long a request takes) is the         *)
(* environment.                                                            *)
(***************************************************************************)
EXTENDS Integers, FiniteSets

CONSTANTS
    Queries, Pages,     \* how many queries, and pages of each
    Retries,            \* retries after the first try of a page
    Timeout,            \* timeout_seconds, which bounds one socket operation
    Operations,         \* the most socket operations of a request (bounds TLC)
    Backoff, Delay,     \* retry_backoff_seconds, delay_seconds
    MaxElapsed,         \* the budget of a fetch
    CacheTtl,           \* how long a robots policy is remembered
    Allow404,           \* a site without a robots policy may be fetched
    Ids, MaxHits,       \* the jobIds, and the most hits of a page
    MaxFetches, MaxGap  \* fetches of this source, and the time between two (bound TLC)

ASSUME CursorAssumption == Queries \in Nat \ {0} /\ Pages \in Nat \ {0}
ASSUME TimesAssumption ==
    /\ {Retries, Timeout, Backoff, Delay, MaxElapsed, CacheTtl} \subseteq Nat
    /\ {MaxHits, MaxFetches, MaxGap} \subseteq Nat
    /\ Operations \in Nat \ {0}
    /\ Allow404 \in BOOLEAN
ASSUME IdsAssumption == "none" \notin Ids
\* Arithmetic of the doubling pause that the provers do not know.
ASSUME PowersAssumption ==
    \A n \in 0..Retries : 2^n \in Nat /\ 2^(n + 1) = 2 * 2^n /\ 2^n <= 2^Retries

VARIABLES
    at,             \* where the generator is
    clock, start,   \* now, and when this fetch began
    page, query,    \* the next page to ask for
    attempts,       \* the requests made for it
    cached,         \* the gate's policy: [known, allows, expires]
    failed,         \* pages_failed
    exhausted,      \* budget_exhausted
    seen,           \* seen_ids
    fetches,        \* fetches so far
    emitted,        \* how often each external_id has been yielded
    delivered,      \* history: the hits of the pages answered
    requested,      \* history: the pages asked for
    answered,       \* history: the pages answered
    lastEnd,        \* history: when the last request of this fetch ended
    permit          \* history: when the site last permitted a fetch

gateVars == <<cached, permit>>
pageVars == <<failed, seen, emitted, delivered, requested, answered>>
vars == <<at, clock, start, page, query, attempts, exhausted, fetches, lastEnd,
          gateVars, pageVars>>

-----------------------------------------------------------------------------
Never == -1
NoId == "none"          \* a hit without a jobId
MaxRequest == Operations * Timeout
Hits == [id : Ids, wanted : BOOLEAN] \cup {[id |-> NoId, wanted |-> TRUE]}
Answers == UNION {[1..n -> Hits] : n \in 0..MaxHits}
Ended == {"created", "done", "aborted", "failed"}

Init ==
    /\ at = "created"
    /\ clock = 0 /\ start = 0
    /\ page = 1 /\ query = 1 /\ attempts = 0
    /\ cached = [known |-> FALSE, allows |-> FALSE, expires |-> 0]
    /\ failed = 0 /\ exhausted = FALSE
    /\ seen = {} /\ emitted = [id \in Ids |-> 0] /\ delivered = {}
    /\ requested = {} /\ answered = {}
    /\ fetches = 0
    /\ lastEnd = Never /\ permit = Never

\* Mutant: seen_ids is an attribute of the source.
StartsSeen ==
    /\ at \in Ended
    /\ fetches < MaxFetches
    /\ \E gap \in 0..MaxGap : clock' = clock + gap
    /\ start' = clock'
    /\ at' = "gate"
    /\ page' = 1 /\ query' = 1 /\ attempts' = 0
    /\ failed' = 0 /\ exhausted' = FALSE
    /\ UNCHANGED seen /\ emitted' = [id \in Ids |-> 0] /\ delivered' = {}
    /\ requested' = {} /\ answered' = {}
    /\ fetches' = fetches + 1
    /\ lastEnd' = Never
    /\ UNCHANGED gateVars

\* fetch() is called, possibly again on the same source.
Starts ==
    /\ at \in Ended
    /\ fetches < MaxFetches
    /\ \E gap \in 0..MaxGap : clock' = clock + gap
    /\ start' = clock'
    /\ at' = "gate"
    /\ page' = 1 /\ query' = 1 /\ attempts' = 0
    /\ failed' = 0 /\ exhausted' = FALSE
    /\ seen' = {} /\ emitted' = [id \in Ids |-> 0] /\ delivered' = {}
    /\ requested' = {} /\ answered' = {}
    /\ fetches' = fetches + 1
    /\ lastEnd' = Never
    /\ UNCHANGED gateVars

-----------------------------------------------------------------------------
(* The robots gate.                                                         *)

\* Mutant: a policy is never forgotten.
FreshForever == cached.known
Fresh == cached.known /\ clock < cached.expires

Decides(allows) == at' = IF allows THEN "top" ELSE "aborted"
UnchangedByGate == UNCHANGED <<start, page, query, attempts, exhausted, fetches,
                               lastEnd, pageVars>>

GateRemembers ==
    /\ at = "gate"
    /\ Fresh
    /\ Decides(cached.allows)
    /\ UNCHANGED <<clock, gateVars>>
    /\ UnchangedByGate

\* A parsed policy is remembered, whether or not it allows the fetch.
GateReadsPolicy ==
    /\ at = "gate"
    /\ ~Fresh
    /\ \E took \in 0..MaxRequest : clock' = clock + took
    /\ \E allows \in BOOLEAN :
         /\ cached' = [known |-> TRUE, allows |-> allows, expires |-> clock' + CacheTtl]
         /\ permit' = IF allows THEN clock' ELSE permit
         /\ Decides(allows)
    /\ UnchangedByGate

\* A 404 is permitted by configuration; anything else, a policy that cannot be
\* had or parsed, is a refusal.  Neither is remembered.
GateFindsNone ==
    /\ at = "gate"
    /\ ~Fresh
    /\ \E took \in 0..MaxRequest : clock' = clock + took
    /\ \E allows \in {FALSE, Allow404} :
         /\ permit' = IF allows THEN clock' ELSE permit
         /\ Decides(allows)
    /\ UNCHANGED cached
    /\ UnchangedByGate

-----------------------------------------------------------------------------
(* The pages.                                                               *)

\* Mutant: the budget is checked once for each page number.
InBudgetByRow == query # 1 \/ clock < start + MaxElapsed
InBudget == clock < start + MaxElapsed

\* Mutants: all the pages of a query first; the queries are not wrapped.
AdvancesByQuery == IF page < Pages THEN page' = page + 1 /\ UNCHANGED query
                   ELSE IF query < Queries THEN page' = 1 /\ query' = query + 1
                   ELSE page' = Pages + 1 /\ query' = 1
AdvancesOn == query' = query + 1 /\ page' = IF query < Queries THEN page ELSE page + 1

\* Page-major: page 1 of every query, then page 2 of every query.
Advances == IF query < Queries THEN query' = query + 1 /\ UNCHANGED page
                               ELSE query' = 1 /\ page' = page + 1

StopsEarly ==
    /\ at = "top"
    /\ page <= Pages
    /\ ~InBudget
    /\ exhausted' = TRUE
    /\ at' = "done"
    /\ UNCHANGED <<clock, start, page, query, attempts, fetches, lastEnd,
                   gateVars, pageVars>>

RunsOut ==
    /\ at = "top"
    /\ page > Pages
    /\ at' = "done"
    /\ UNCHANGED <<clock, start, page, query, attempts, exhausted, fetches, lastEnd,
                   gateVars, pageVars>>

OpensPage ==
    /\ at = "top"
    /\ page <= Pages
    /\ InBudget
    /\ at' = "asking"
    /\ attempts' = 0
    /\ requested' = requested \cup {<<page, query>>}
    /\ UNCHANGED <<clock, start, page, query, exhausted, fetches, lastEnd, gateVars,
                   failed, seen, emitted, delivered, answered>>

\* One request, and the sleep after it.
Asks(sleep) ==
    /\ at = "asking"
    /\ \E took \in 0..MaxRequest :
         /\ lastEnd' = clock + took
         /\ clock' = clock + took + sleep
    /\ UNCHANGED <<start, exhausted, fetches, gateVars, requested>>

\* The hits of an answer with an id not seen before, on this page or another;
\* those that pass the job-function filter are yielded.
New(hits) == {i \in DOMAIN hits : /\ hits[i].id \notin seen \cup {NoId}
                                  /\ \A j \in 1..(i - 1) : hits[j].id # hits[i].id}
Yielded(hits, id) ==
    Cardinality({i \in New(hits) : hits[i].wanted /\ hits[i].id = id})

Answered ==
    /\ Asks(Delay)
    /\ \E hits \in Answers :
         /\ seen' = seen \cup {hits[i].id : i \in New(hits)}
         /\ emitted' = [id \in Ids |-> emitted[id] + Yielded(hits, id)]
         /\ delivered' = delivered \cup {hits[i] : i \in DOMAIN hits}
    /\ answered' = answered \cup {<<page, query>>}
    /\ at' = "top"
    /\ Advances
    /\ UNCHANGED <<attempts, failed>>

\* Mutant: every try that fails is counted.
RetriesCounted ==
    /\ attempts < Retries
    /\ Asks(Backoff * 2^attempts)
    /\ attempts' = attempts + 1
    /\ failed' = failed + 1
    /\ UNCHANGED <<at, page, query, seen, emitted, delivered, answered>>

\* A transient failure with a retry left.
Retried ==
    /\ attempts < Retries
    /\ Asks(Backoff * 2^attempts)
    /\ attempts' = attempts + 1
    /\ UNCHANGED <<at, page, query, failed, seen, emitted, delivered, answered>>

\* Mutant: a page that failed is followed at once by the next.
GivesUpAtOnce ==
    /\ Asks(0)
    /\ failed' = failed + 1
    /\ at' = "top"
    /\ Advances
    /\ UNCHANGED <<attempts, seen, emitted, delivered, answered>>

\* A permanent failure, or a transient one with no retry left: the page is
\* skipped, counted, and followed by the same pause.
GivesUp ==
    /\ Asks(Delay)
    /\ failed' = failed + 1
    /\ at' = "top"
    /\ Advances
    /\ UNCHANGED <<attempts, seen, emitted, delivered, answered>>

\* What the adapter does not expect (an answer that is not JSON, a redirect
\* loop) is raised, after the pause.
Breaks ==
    /\ Asks(Delay)
    /\ at' = "failed"
    /\ UNCHANGED <<page, query, attempts, failed, seen, emitted, delivered, answered>>

\* No further fetch.
AllFetched == at \in Ended /\ fetches = MaxFetches /\ UNCHANGED vars

Next == Starts \/ GateRemembers \/ GateReadsPolicy \/ GateFindsNone
          \/ StopsEarly \/ RunsOut \/ OpensPage
          \/ Answered \/ Retried \/ GivesUp \/ Breaks \/ AllFetched

Spec == Init /\ [][Next]_vars

-----------------------------------------------------------------------------
Schedule == (1..Pages) \X (1..Queries)

\* Every variable keeps its type.
TypeOK ==
    /\ at \in Ended \cup {"gate", "top", "asking"}
    /\ {clock, start, failed, fetches, attempts} \subseteq Nat
    /\ page \in 1..(Pages + 1) /\ query \in 1..Queries
    /\ cached \in [known : BOOLEAN, allows : BOOLEAN, expires : Nat]
    /\ exhausted \in BOOLEAN
    /\ seen \subseteq Ids
    /\ emitted \in [Ids -> Nat]
    /\ delivered \subseteq Hits
    /\ requested \subseteq Schedule /\ answered \subseteq Schedule
    /\ {lastEnd, permit} \subseteq Nat \cup {Never}

\* Two requests of a fetch are as far apart as the site was promised: the
\* politeness delay between pages, whatever became of the first, and a pause
\* that doubles between the tries of one page.
PoliteSpacing ==
    at = "asking" /\ lastEnd # Never =>
        clock - lastEnd >= IF attempts = 0 THEN Delay ELSE Backoff * 2^(attempts - 1)

\* No page is asked for unless the site itself permitted it, in this fetch or
\* less than the cache's lifetime before it began.
RequestsPermitted ==
    at \in {"top", "asking", "done"} =>
        permit # Never /\ (permit >= start \/ start - permit < CacheTtl)

\* pages_failed is the number of pages asked for in vain, and a fetch that ends
\* has asked for all of them unless it says that its budget ran out.
PagesAccounted ==
    at = "done" => /\ failed = Cardinality(requested \ answered)
                   /\ exhausted <=> requested # Schedule

\* The budget truncates every query alike: no query is ahead of another by more
\* than one page.
TruncatesEvenly ==
    LET Asked(q) == Cardinality({r \in requested : r[2] = q})
    IN  \A q, s \in 1..Queries : Asked(q) - Asked(s) <= 1

\* What the upsert of raw_jobs relies on: no posting is yielded twice by a
\* fetch; and none that the site listed, and always listed as wanted, is lost.
EveryPostingOnce ==
    /\ \A id \in Ids : emitted[id] <= 1
    /\ \A hit \in delivered :
         hit.id # NoId /\ [hit EXCEPT !.wanted = FALSE] \notin delivered
           => emitted[hit.id] = 1

\* A fetch outlasts its budget by no more than the longest page in flight.
WorstPage(request) == (Retries + 1) * request + Backoff * (2^Retries - 1)
FetchWithinBudget ==
    at \in Ended => clock - start <= MaxElapsed + WorstPage(MaxRequest) + Delay

\* config/ingestion.yaml, max_elapsed_seconds: the bound is the budget plus one
\* page's worst case, in which each try costs timeout_seconds.
DocumentedBound ==
    at \in Ended => clock - start <= MaxElapsed + WorstPage(Timeout) + Delay
=============================================================================
