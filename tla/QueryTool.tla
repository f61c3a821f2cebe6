----------------------------- MODULE QueryTool ------------------------------
(***************************************************************************)
(* The agent's two tools over clean_jobs, one call of either: a statement  *)
(* is written, checked, cut to a page and run, or full postings are read   *)
(* by id.  Ingestion commits to the table all the while.                   *)
(***************************************************************************)
EXTENDS SqlStatement, SequencesExt

CONSTANTS
    Ids,            \* postings a request may be about
    Statements,     \* what the SQL generator may answer with
    Requests,       \* sequences of ids the details tool may be asked for
    MaxRows,        \* agent.query.max_rows
    MaxDetailIds    \* agent.query.max_detail_ids

ASSUME LimitsAssumption == MaxRows \in Nat \ {0} /\ MaxDetailIds \in Nat \ {0}
ASSUME StatementsAssumption == Statements \subseteq AllStatements
ASSUME IdsAssumption == IsFiniteSet(Ids) /\ Requests \subseteq Seq(Ids)

VARIABLES
    jobs,       \* the postings of clean_jobs that match
    query,      \* the call of query_clean_jobs
    details     \* the call of get_job_details
vars == <<jobs, query, details>>

Missing == -1
Kinds == {"rejected", "unknown_column", "timeout", "too_large", "unavailable"}

\* How PostgreSQL or its driver may fail a statement, and the kind that the
\* executor and the tool make of it.
DbErrors == {"undefined_column", "clean_jobs_denied", "other_denied", "cancelled",
             "statement", "connection"}
KindOf(error) == CASE error = "undefined_column" -> "unknown_column"
                   [] error \in {"clean_jobs_denied", "statement"} -> "rejected"
                   [] error = "cancelled" -> "timeout"
                   [] OTHER -> "unavailable"

NoFacts == [count |-> Missing, truncated |-> FALSE, offset |-> 0, returned |-> Missing]

\* Before anything is asked.
Nothing == [form |-> "empty"]
NoQuery == [at |-> "idle", kind |-> "none", stmt |-> Nothing, base |-> Nothing,
            limit |-> 0, offset |-> 0, snapshot |-> {}, rows |-> {}, total |-> 0,
            facts |-> NoFacts]
NoDetails == [at |-> "idle", kind |-> "none", asked |-> <<>>, snapshot |-> {},
              found |-> <<>>, notFound |-> <<>>, notFetched |-> <<>>]

Init == /\ jobs \in SUBSET Ids
        /\ query = NoQuery
        /\ details = NoDetails

Idle == query.at = "idle" /\ details.at = "idle"

\* An ingestion run commits.
Ingests == /\ \E now \in SUBSET Ids : jobs' = now
           /\ UNCHANGED <<query, details>>

-----------------------------------------------------------------------------
(* query_clean_jobs.                                                        *)

QueryFails(kind) == /\ query' = [query EXCEPT !.at = "failed", !.kind = kind]
                    /\ UNCHANGED <<jobs, details>>

GenerationFails == Idle /\ QueryFails("unavailable")

Refuses(stmt) == /\ Idle
                 /\ ~Admitted(stmt)
                 /\ QueryFails("rejected")

\* The statement is checked, its own bounds are read and cut away, and a thread
\* takes it.
Accepted(stmt) ==
    /\ Idle
    /\ Admitted(stmt)
    /\ query' = [query EXCEPT !.at = "opening", !.stmt = stmt,
                              !.base = WithoutOwnBound(stmt),
                              !.limit = Limit(stmt, MaxRows),
                              !.offset = Offset(stmt)]
    /\ UNCHANGED <<jobs, details>>

HasIdTiebreak(stmt) == Admitted(stmt) /\ stmt.byId
NeedsOrder == query.offset > 0 /\ ~HasIdTiebreak(query.base)

RefusesOrder == query.at = "opening" /\ NeedsOrder /\ QueryFails("rejected")

\* The transaction is at REPEATABLE READ: its first statement, which sets the
\* timeout, decides what all of them see.
Opens == /\ query.at = "opening"
         /\ ~NeedsOrder
         /\ query' = [query EXCEPT !.at = "fetching", !.snapshot = jobs]
         /\ UNCHANGED <<jobs, details>>

Bound == [limit |-> query.limit,
          offset |-> IF query.offset = 0 THEN Absent ELSE query.offset]
Page == Left(Bound, Matches(query.base, Cardinality(query.snapshot)))

\* A page that fills its limit, or starts past the first row, needs a count.
\* Mutant: only a page that is not empty needs one.
FetchesCountingFull ==
    /\ query.at = "fetching"
    /\ Accepts(query.base, Bound)
    /\ query' = [query EXCEPT
                    !.at = IF Page # {} /\ Cardinality(Page) = query.limit
                           THEN "counting" ELSE "shaping",
                    !.rows = Page,
                    !.total = Cardinality(Page)]
    /\ UNCHANGED <<jobs, details>>
Fetches ==
    /\ query.at = "fetching"
    /\ Accepts(query.base, Bound)
    /\ query' = [query EXCEPT
                    !.at = IF query.offset > 0 \/ Cardinality(Page) = query.limit
                           THEN "counting" ELSE "shaping",
                    !.rows = Page,
                    !.total = Cardinality(Page)]
    /\ UNCHANGED <<jobs, details>>

FetchesTooMuch == /\ query.at = "fetching"
                  /\ Accepts(query.base, Bound)
                  /\ Page # {}
                  /\ QueryFails("too_large")

\* Mutant: the transaction is at READ COMMITTED.
CountsCurrent ==
    /\ query.at = "counting"
    /\ query' = [query EXCEPT !.at = "shaping",
                              !.total = Matches(query.base, Cardinality(jobs))]
    /\ UNCHANGED <<jobs, details>>
Counts ==
    /\ query.at = "counting"
    /\ query' = [query EXCEPT !.at = "shaping",
                              !.total = Matches(query.base, Cardinality(query.snapshot))]
    /\ UNCHANGED <<jobs, details>>

RejectsSyntax == /\ query.at = "fetching"
                 /\ ~Accepts(query.base, Bound)
                 /\ QueryFails(KindOf("statement"))

QueryFailsInDb == /\ query.at \in {"opening", "fetching", "counting"}
                  /\ query.at = "opening" => ~NeedsOrder
                  /\ \E error \in DbErrors : QueryFails(KindOf(error))

\* A count is in the only row there is; a listing has its total.
Counted == IF Cardinality(query.rows) = 1
           THEN Cell(query.stmt, Cardinality(query.snapshot)) ELSE Missing
ResultFacts ==
    LET returned == Cardinality(query.rows)
    IN  CASE Shape(query.base) = "match_count" -> [NoFacts EXCEPT !.count = Counted]
          [] Shape(query.base) = "rows" ->
               [count |-> query.total, truncated |-> returned < query.total,
                offset |-> query.offset, returned |-> returned]
          [] OTHER -> NoFacts

QueryReturns == /\ query.at = "shaping"
                /\ query' = [query EXCEPT !.at = "returned", !.facts = ResultFacts]
                /\ UNCHANGED <<jobs, details>>

-----------------------------------------------------------------------------
(* get_job_details.                                                         *)

DetailsFail(kind) == /\ details' = [details EXCEPT !.at = "failed", !.kind = kind]
                     /\ UNCHANGED <<jobs, query>>

\* The k-th smallest of some positions of a sequence, and what stands at them in order.
Kth(places, k) == CHOOSE i \in places : Cardinality({j \in places : j <= i}) = k
Picked(s, places) == [k \in 1..Cardinality(places) |-> s[Kth(places, k)]]

\* The ids without their repetitions, each at its first place.
UniqueIds(ids) == Picked(ids, {i \in DOMAIN ids : \A j \in 1..(i - 1) : ids[j] # ids[i]})

\* Where the two slices of the unique ids meet.
Cut(ids) == IF Len(UniqueIds(ids)) < MaxDetailIds THEN Len(UniqueIds(ids)) ELSE MaxDetailIds
Fetched(ids) == SubSeq(UniqueIds(ids), 1, Cut(ids))
NotFetched(ids) == SubSeq(UniqueIds(ids), Cut(ids) + 1, Len(UniqueIds(ids)))

AsksDetails(ids) == /\ Idle
                    /\ details' = [details EXCEPT !.at = "reading", !.asked = ids]
                    /\ UNCHANGED <<jobs, query>>

\* Mutant: what was not fetched counts as not found.
DetailsReturnAll ==
    LET ids == Fetched(details.asked)
        all == UniqueIds(details.asked)
    IN  /\ details.at = "reading"
        /\ details' = [details EXCEPT
                          !.at = "returned",
                          !.snapshot = jobs,
                          !.found = Picked(ids, {i \in DOMAIN ids : ids[i] \in jobs}),
                          !.notFound = Picked(all, {i \in DOMAIN all : all[i] \notin jobs}),
                          !.notFetched = NotFetched(details.asked)]
        /\ UNCHANGED <<jobs, query>>
DetailsReturn ==
    LET ids == Fetched(details.asked)
    IN  /\ details.at = "reading"
        /\ details' = [details EXCEPT
                          !.at = "returned",
                          !.snapshot = jobs,
                          !.found = Picked(ids, {i \in DOMAIN ids : ids[i] \in jobs}),
                          !.notFound = Picked(ids, {i \in DOMAIN ids : ids[i] \notin jobs}),
                          !.notFetched = NotFetched(details.asked)]
        /\ UNCHANGED <<jobs, query>>

\* Nothing is read for no ids, so nothing can fail; and what PostgreSQL refuses
\* in a statement the tool wrote itself is no mistake of the model's.
DetailsKindOf(error) == IF KindOf(error) = "rejected" THEN "unavailable" ELSE KindOf(error)
DetailsFailInDb == /\ details.at = "reading"
                   /\ details.asked # <<>>
                   /\ \E error \in DbErrors : DetailsFail(DetailsKindOf(error))
DetailsTooLarge == /\ details.at = "reading"
                   /\ \E i \in DOMAIN Fetched(details.asked) :
                         Fetched(details.asked)[i] \in jobs
                   /\ DetailsFail("too_large")

-----------------------------------------------------------------------------
Query == \/ GenerationFails
         \/ \E stmt \in Statements : Refuses(stmt) \/ Accepted(stmt)
         \/ RefusesOrder \/ Opens
         \/ Fetches \/ FetchesTooMuch \/ Counts
         \/ RejectsSyntax \/ QueryFailsInDb
         \/ QueryReturns
Details == \/ \E ids \in Requests : AsksDetails(ids)
           \/ DetailsReturn
           \/ DetailsFailInDb \/ DetailsTooLarge
Next == Ingests \/ Query \/ Details
Spec == Init /\ [][Next]_vars

-----------------------------------------------------------------------------
(* Safety.                                                                  *)

\* sql_validator.py: "Every relation is clean_jobs (optionally public.clean_jobs)
\* or a CTE in scope".  No statement that reaches the database reads another
\* relation, by PostgreSQL's own rules of scope, whatever names its common table
\* expressions take.
OnlyJobsRead ==
    query.at \notin {"idle", "failed"} =>
        \A ref \in TablesRead(query.base) : IsAllowed(ref)

\* row_bound.py: a stated LIMIT "is honored exactly" within the cap, an OFFSET "is
\* never capped".  Of a statement whose own bounds are found (OwnBoundFound): the
\* rows are the first max_rows of those the statement itself asks for, the total
\* is that of the same snapshot, and the page says that it is cut exactly when
\* some matching row is not in it.  Nor does cutting its bounds away make
\* PostgreSQL refuse a statement that it would take as it stands.
PageExact ==
    LET stmt == query.stmt
        n == Cardinality(query.snapshot)
        own == [limit |-> Own(stmt.layers, "limit"), offset |-> Own(stmt.layers, "offset")]
        matching == Matches(stmt, n)
    IN  query.at \in {"fetching", "returned"} /\ OwnBoundFound(stmt) =>
          IF query.at = "fetching"
          THEN Accepts(stmt, Unbounded) => Accepts(query.base, Bound)
          ELSE /\ query.rows = {i \in Left(own, matching) : i <= Offset(stmt) + MaxRows}
               /\ query.total = matching
               /\ query.facts.returned # Missing =>
                    (query.facts.truncated <=> query.rows # 1..matching)

\* result_shape.py: `row_count` "means how many rows the tool actually matched", and
\* only a count of every row "in the filtered set" is a match count.  Of a statement
\* without common table expressions whose aggregates the classifier can see: a number
\* is on the card only where the statement lists rows or counts them, neither by
\* group; it is how many it lists without its bounds, or how many it counts, whatever
\* they were made from and wherever its page begins.
CountHonest ==
    LET stmt == query.stmt
        list == stmt.query.list
        n == Cardinality(query.snapshot)
        readable == query.at = "returned" /\ stmt.ctes = <<>> /\ list # "aggregated"
    IN  readable /\ query.facts.count # Missing =>
            /\ list \in Listings \cup {"count"} /\ ~stmt.query.grouped
            /\ query.facts.count = IF list = "count" THEN Source(stmt, n) ELSE Matches(stmt, n)

\* get_job_details.py: each posting asked for is accounted for exactly once, as
\* found, not found or not fetched, in the order in which it was asked for; what
\* is called found was there and what is called not found was not.
InAskedOrder(list) ==
    \A j, k \in DOMAIN list : j < k =>
        \A y \in DOMAIN details.asked : details.asked[y] = list[k] =>
            \E x \in 1..(y - 1) : details.asked[x] = list[j]
DetailsAccounted ==
    details.at = "returned" =>
        LET told == details.found \o details.notFound \o details.notFetched
        IN  /\ ToSet(told) = ToSet(details.asked)
            /\ IsInjective(told)
            /\ \A list \in {details.found, details.notFound, details.notFetched} :
                  InAskedOrder(list)
            /\ ToSet(details.found) \subseteq details.snapshot
            /\ ToSet(details.notFound) \cap details.snapshot = {}
            /\ Len(details.found) + Len(details.notFound) <= MaxDetailIds
            /\ details.notFetched # <<>> =>
                  Len(details.found) + Len(details.notFound) = MaxDetailIds
=============================================================================
