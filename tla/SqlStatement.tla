---------------------------- MODULE SqlStatement ----------------------------
(***************************************************************************)
(* One statement the agent wrote, as the guard reads it: what it refuses,  *)
(* where it finds the statement's own bounds, what is left when they are   *)
(* cut away; and, for comparison, what PostgreSQL makes of the same text.  *)
(* A statement is a tree of queries two levels deep.                       *)
(***************************************************************************)
EXTENDS Integers, Sequences, FiniteSets

CONSTANTS
    Names,          \* names of relations and of common table expressions
    SystemNames,    \* those of the catalog
    Groups,         \* how many groups, or different rows, a query makes at most
    Values          \* how many rows a set-returning function makes of one

Jobs == "clean_jobs"
ASSUME NamesAssumption == Jobs \in Names \ SystemNames /\ SystemNames \subseteq Names
ASSUME CountsAssumption == Groups \in Nat \ {0} /\ Values \in Nat

Schemas == {"none", "public", "pg_catalog"}
Refs == [schema : Schemas, name : Names]

\* The calls that are refused: of a function that names the server or the role, of
\* one that acts on the server, of any other that is not on the allowlist, of a
\* keyword that PostgreSQL reads as a value.
CallMarks == {"identity", "serverSide", "unknown", "valueFunction"}

\* What a query may hold besides tables: INTO, FOR UPDATE, such a call, a hidden
\* column.
Marks == {"into", "locks", "hidden"} \cup CallMarks

\* A bound is absent, ALL, a number of rows, or nothing the executor could
\* honour: an expression, a negative number, WITH TIES.
Absent == -1
All == -2
Odd == -3
Unbounded == [limit |-> Absent, offset |-> Absent]

\* What the outermost select list of a query asks for: rows, different rows, rows
\* expanded by a set-returning function; their number; a figure of COUNT, SUM, AVG,
\* MIN or MAX, or one for each row, by a window or a nested SELECT; or an aggregate
\* the classifier does not see, of another name or behind a nested SELECT.
Listings == {"rows", "distinct", "expanded"}
Lists == Listings \cup {"count", "figure", "windowed", "aggregated"}

Bounds == [limit : Nat \cup {Absent, All, Odd}, offset : Nat \cup {Absent, Odd}]

\* A query without a nested one, over the rows of a relation or over those times what
\* a function in FROM makes of each; a common table expression; a derived table.
Queries == [from : Seq(Refs), spread : BOOLEAN, marks : SUBSET Marks, list : Lists,
            grouped : BOOLEAN]
Ctes == [name : Names, modifies : BOOLEAN, query : Queries, bound : Bounds]
DerivedTables == [query : Queries, bound : Bounds]

\* layers[1] is the bound at the end of a statement and layers[i + 1] one behind i
\* opening parentheses, as in ((SELECT .. LIMIT 2) OFFSET 1).  The query names a
\* relation or ranges over one derived table.
AllStatements ==
    {stmt \in [form : {"select", "empty", "comment", "several", "other", "unparsable"},
               recursive : BOOLEAN, ctes : Seq(Ctes), subqueries : SUBSET Queries,
               derived : Seq(DerivedTables), query : Queries, layers : Seq(Bounds),
               byId : BOOLEAN] :
        /\ Len(stmt.derived) <= 1
        /\ stmt.derived # <<>> => stmt.query.from = <<>>}

\* The queries of a statement outside its WITH clause.
BodyQueries(stmt) == stmt.subqueries \cup {stmt.derived[i].query : i \in DOMAIN stmt.derived}
                       \cup {stmt.query}

-----------------------------------------------------------------------------
(* The guard.                                                               *)

IsCte(ref, visible) == ref.schema = "none" /\ ref.name \in visible
IsAllowed(ref) == ref.name = Jobs /\ ref.schema \in {"none", "public"}
IsSystem(ref) == ref.schema = "pg_catalog" \/ ref.name \in SystemNames

TablesOf(query, visible) == {i \in DOMAIN query.from : ~IsCte(query.from[i], visible)}

QueryFacts(query, visible) ==
    LET tables == TablesOf(query, visible)
        Read(P(_)) == {i \in tables : P(query.from[i])}
        Foreign(ref) == ~IsSystem(ref) /\ ~IsAllowed(ref)
    IN  query.marks
          \cup (IF Read(IsSystem) # {} THEN {"system"} ELSE {})
          \cup (IF Read(Foreign) # {} THEN {"foreign"} ELSE {})
          \cup (IF Cardinality(Read(IsAllowed)) > 1 THEN {"selfJoin"} ELSE {})

CteNames(stmt, places) == {stmt.ctes[i].name : i \in places}

\* Mutant: a common table expression sees itself without RECURSIVE.
VisibleItself(stmt, i) ==
    CteNames(stmt, IF stmt.recursive THEN DOMAIN stmt.ctes ELSE 1..i)

\* The names in scope inside the i-th common table expression.
Visible(stmt, i) ==
    CteNames(stmt, IF stmt.recursive THEN DOMAIN stmt.ctes ELSE 1..(i - 1))

Facts(stmt) ==
    LET body == CteNames(stmt, DOMAIN stmt.ctes)
        CteFacts(i) == IF stmt.ctes[i].modifies THEN {"modifying"}
                       ELSE QueryFacts(stmt.ctes[i].query, Visible(stmt, i))
    IN  UNION ({CteFacts(i) : i \in DOMAIN stmt.ctes}
                 \cup {QueryFacts(q, body) : q \in BodyQueries(stmt)})

\* The bounds PostgreSQL gives the statement: its parser keeps one of each,
\* from whatever layer it came.
Stated(layers, clause) == {i \in DOMAIN layers : layers[i][clause] # Absent}
Parses(layers) ==
    \A clause \in {"limit", "offset"} : Cardinality(Stated(layers, clause)) <= 1
Own(layers, clause) ==
    IF Stated(layers, clause) = {} THEN Absent
    ELSE layers[CHOOSE i \in Stated(layers, clause) : TRUE][clause]

\* A statement is admitted when it is one SELECT without comments, nothing in
\* it is refused, and its bounds are literals.
Admitted(stmt) ==
    /\ stmt.form = "select"
    /\ Parses(stmt.layers)
    /\ Facts(stmt) = {}
    /\ Odd \notin {Own(stmt.layers, "limit"), Own(stmt.layers, "offset")}

-----------------------------------------------------------------------------
(* The bounds.                                                              *)

IsBounded(bound) == bound # Unbounded

\* Where the shallowest bound keyword is: a common table expression stands
\* behind one parenthesis, and before the query.  A derived table stands behind one
\* more than any bound of the statement's own, so that its bound is never the one.
BoundedCtes(stmt) == {i \in DOMAIN stmt.ctes : IsBounded(stmt.ctes[i].bound)}
BoundedLayers(stmt) == {i \in DOMAIN stmt.layers : IsBounded(stmt.layers[i])}
Least(S) == CHOOSE i \in S : \A j \in S : i <= j

\* Mutant: the first bound keyword of the text.
InFirstCte(stmt) == BoundedCtes(stmt) # {}
InCte(stmt) == BoundedCtes(stmt) # {} /\ Least(BoundedLayers(stmt)) > 1

WithoutOwnBound(stmt) ==
    IF BoundedLayers(stmt) = {} THEN stmt
    ELSE IF InCte(stmt)
         THEN [stmt EXCEPT !.ctes[Least(BoundedCtes(stmt))].bound = Unbounded]
         ELSE [stmt EXCEPT !.layers[Least(BoundedLayers(stmt))] = Unbounded]

\* The statements whose own bounds are where the guard looks for them.
OwnBoundFound(stmt) == /\ Cardinality(BoundedLayers(stmt)) <= 1
                       /\ BoundedCtes(stmt) = {} \/ BoundedLayers(stmt) \subseteq {1}

\* Mutant: a stated limit is taken as it is.
LimitUncapped(stmt, cap) ==
    LET stated == Own(stmt.layers, "limit")
    IN  IF stated \in Nat THEN stated ELSE cap
Limit(stmt, cap) ==
    LET stated == Own(stmt.layers, "limit")
    IN  IF stated \in 0..cap THEN stated ELSE cap
Offset(stmt) == LET stated == Own(stmt.layers, "offset")
                IN  IF stated \in Nat THEN stated ELSE 0

-----------------------------------------------------------------------------
(* The shape of the result.  The text is searched from its start, so the    *)
(* first select list decides, and a GROUP BY anywhere.                      *)

QueriesOf(stmt) == {stmt.ctes[i].query : i \in DOMAIN stmt.ctes} \cup BodyQueries(stmt)
Grouping(stmt) == \E q \in QueriesOf(stmt) : q.grouped

\* Mutant: grouping is not looked for.
ShapeUngrouped(stmt) ==
    LET list == IF stmt.ctes = <<>> THEN stmt.query.list ELSE stmt.ctes[1].query.list
    IN  CASE list = "count" -> "match_count"
          [] list \in {"figure", "windowed"} -> "summary"
          [] OTHER -> "rows"
Shape(stmt) ==
    LET list == IF stmt.ctes = <<>> THEN stmt.query.list ELSE stmt.ctes[1].query.list
    IN  CASE list = "count" /\ ~Grouping(stmt) -> "match_count"
          [] list \in {"figure", "windowed"} \/ Grouping(stmt) -> "summary"
          [] OTHER -> "rows"

-----------------------------------------------------------------------------
(* PostgreSQL.                                                              *)

With(stmt) == [recursive |-> stmt.recursive, ctes |-> stmt.ctes]

\* WITH RECURSIVE puts every name of the clause in scope everywhere, WITH only
\* after its definition.  The statement itself comes after all of them.
Defines(with, i, ref, place) == /\ ref.schema = "none"
                                /\ ref.name = with.ctes[i].name
                                /\ with.recursive \/ i < place
Definitions(with, ref, place) == {i \in DOMAIN with.ctes : Defines(with, i, ref, place)}

TablesRead(stmt) ==
    LET After == Len(stmt.ctes) + 1
        In(query, place) ==
            {ref \in {query.from[i] : i \in DOMAIN query.from} :
                Definitions(With(stmt), ref, place) = {}}
    IN  UNION ({In(stmt.ctes[i].query, i) : i \in DOMAIN stmt.ctes}
                 \cup {In(q, After) : q \in BodyQueries(stmt)})

\* A second LIMIT for the same query is a syntax error, two common table
\* expressions of one name are refused, and so are those that need themselves.
\* (One that does so by UNION is not among the queries here.)
Reads(with, i, j) == \E k \in DOMAIN with.ctes[i].query.from :
                        Defines(with, j, with.ctes[i].query.from[k], i)
Evaluable(with) ==
    /\ \A i, j \in DOMAIN with.ctes : with.ctes[i].name = with.ctes[j].name => i = j
    /\ \E rank \in [DOMAIN with.ctes -> DOMAIN with.ctes] :
           \A i, j \in DOMAIN with.ctes : Reads(with, i, j) => rank[j] < rank[i]
Accepts(stmt, bound) == Parses(Append(stmt.layers, bound)) /\ Evaluable(With(stmt))

\* Which rows of n a bound leaves.
Left(bound, n) ==
    LET from == IF bound.offset \in Nat THEN bound.offset ELSE 0
        upto == IF bound.limit \in Nat THEN from + bound.limit ELSE n
    IN  {i \in 1..n : from < i /\ i <= upto}

\* The rows a query ranges over, where what it reads has n.
Ranged(query, n) == IF query.spread THEN n * Values ELSE n

\* How many rows it makes of them: a row for each group or different row, so many for
\* each, one for each, or one figure.
Produces(query, n) ==
    IF query.grouped \/ query.list = "distinct" THEN IF n < Groups THEN n ELSE Groups
    ELSE IF query.list = "expanded" THEN n * Values
    ELSE IF query.list \in {"rows", "windowed"} THEN n ELSE 1

\* How many rows each common table expression has when clean_jobs has n that
\* match; those it reads are less deep than it is.  A query reads the first of the
\* relations it names: what a join with a second makes is left out.
Sizes(with, n) ==
    LET size[depth \in 0..Len(with.ctes)] ==
            [i \in DOMAIN with.ctes |->
                IF depth = 0 THEN 0
                ELSE LET query == with.ctes[i].query
                         read == Definitions(with, query.from[1], i)
                         rows == IF read = {} THEN n ELSE size[depth - 1][Least(read)]
                     IN  Cardinality(Left(with.ctes[i].bound,
                                          Produces(query, Ranged(query, rows))))]
    IN  size[Len(with.ctes)]

\* The rows a query outside the WITH clause ranges over.
Over(stmt, query, n) ==
    LET read == Definitions(With(stmt), query.from[1], Len(stmt.ctes) + 1)
    IN  Ranged(query, IF read = {} THEN n ELSE Sizes(With(stmt), n)[Least(read)])

\* What the statement's own query ranges over, and the rows it has before its
\* own bounds.
Source(stmt, n) ==
    IF stmt.derived = <<>> THEN Over(stmt, stmt.query, n)
    ELSE LET table == stmt.derived[1]
             rows == Produces(table.query, Over(stmt, table.query, n))
         IN  Ranged(stmt.query, Cardinality(Left(table.bound, rows)))
Matches(stmt, n) == Produces(stmt.query, Source(stmt, n))

\* The number in a result of one row and one column: a count, or one a common
\* table expression has made (those that count read clean_jobs).
Cell(stmt, n) == IF stmt.query.list = "count" THEN Source(stmt, n) ELSE n
=============================================================================
