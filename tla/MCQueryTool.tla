---------------------------- MODULE MCQueryTool -----------------------------
(* QueryTool for TLC: families of statements, each of which varies what one  *)
(* part of the guard or of the executor looks at.                           *)
EXTENDS QueryTool, TLC

Table(name) == [schema |-> "none", name |-> name]
In(schema, name) == [schema |-> schema, name |-> name]
Selecting(refs, list) ==
    [from |-> refs, spread |-> FALSE, marks |-> {}, list |-> list, grouped |-> FALSE]
Listing(name) == Selecting(<<Table(name)>>, "rows")
Cte(name, selects, bound) ==
    [name |-> name, modifies |-> FALSE, query |-> selects, bound |-> bound]
Statement(ctes, selects, layers) ==
    [form |-> "select", recursive |-> FALSE, ctes |-> ctes, subqueries |-> {},
     derived |-> <<>>, query |-> selects, layers |-> layers, byId |-> TRUE]
BoundsOf(limits, offsets) == [limit : limits, offset : offsets]

\* Which names are whose: up to two common table expressions, each reading a
\* name that may be its own, an earlier or a later one's, or a table's.
Reading == {Table("clean_jobs"), Table("raw_jobs"), Table("x"),
            In("public", "clean_jobs"), In("public", "x"), In("pg_catalog", "clean_jobs")}
OfScope ==
    LET Rows(ref) == Selecting(<<ref>>, "rows")
        CteNamed == {"clean_jobs", "raw_jobs", "x"}
        Chains == {<<>>}
                    \cup {<<Cte(a, Rows(r), Unbounded)>> : a \in CteNamed, r \in Reading}
                    \cup {<<Cte(a, Rows(r), Unbounded), Cte(b, Rows(q), Unbounded)>> :
                            a, b \in CteNamed,
                            r \in {Table("clean_jobs"), Table("x")},
                            q \in {Table("clean_jobs"), Table("raw_jobs"), Table("x")}}
    IN  {[Statement(ctes, Rows(ref), <<Unbounded>>) EXCEPT !.recursive = rec,
                                                            !.subqueries = sub] :
            ctes \in Chains, ref \in Reading, rec \in BOOLEAN,
            sub \in {{}, {Listing("raw_jobs")}}}

\* What is refused wherever it stands.
OfMarks ==
    LET Marked(mark) == [Listing("clean_jobs") EXCEPT !.marks = {mark}]
        Plain == Statement(<<>>, Listing("clean_jobs"), <<Unbounded>>)
    IN  {[Plain EXCEPT !.query = Marked(mark)] : mark \in Marks}
          \cup {[Plain EXCEPT !.subqueries = {Marked(mark)}] : mark \in Marks}
          \cup {[Plain EXCEPT !.ctes = <<Cte("x", Marked(mark), Unbounded)>>] : mark \in Marks}
          \cup {[Plain EXCEPT !.form = form] :
                    form \in {"empty", "comment", "several", "other", "unparsable"}}
          \cup {[Plain EXCEPT !.query.from = <<Table("clean_jobs"), Table("clean_jobs")>>],
                [Plain EXCEPT !.query.from = <<Table("pg_class")>>],
                [Plain EXCEPT !.query.from = <<>>,
                              !.derived = <<[query |-> Listing("raw_jobs"), bound |-> Unbounded]>>],
                [Plain EXCEPT !.ctes = <<[Cte("x", Listing("clean_jobs"), Unbounded)
                                            EXCEPT !.modifies = TRUE]>>]}

\* Where the bounds stand, and what they are.
OfBounds ==
    LET Outer == BoundsOf({Absent, 0, 1, 3, All, Odd}, {Absent, 0, 1, Odd})
        Inner == BoundsOf({Absent, 1, 3}, {Absent, 0, 1})
        OfCte == BoundsOf({Absent, 2}, {Absent, 1})
    IN  {Statement(<<>>, Listing("clean_jobs"), <<a, b>>) : a \in Outer, b \in Inner}
          \cup {[Statement(<<>>, Listing("clean_jobs"), <<a>>) EXCEPT !.byId = FALSE] :
                    a \in Outer}
          \cup {Statement(<<Cte("x", Listing("clean_jobs"), c)>>, Listing("x"), <<a, b>>) :
                    a \in BoundsOf({Absent, 1, 3, All}, {Absent, 0, 1}), b \in Inner, c \in OfCte}

\* What the rows are, and what they are made from.
OfShapes ==
    LET FromJobs == <<Table("clean_jobs")>>
        Shaped(list, grouped) == [Selecting(FromJobs, list) EXCEPT !.grouped = grouped]
        Spread(list) == [Selecting(FromJobs, list) EXCEPT !.spread = TRUE]
        Pages == BoundsOf({Absent, 1}, {Absent, 1})
        Inner == {Shaped(list, FALSE) : list \in {"rows", "distinct", "count"}}
                   \cup {Shaped("rows", TRUE)}
    IN  {[Statement(<<>>, Shaped(list, grouped), <<a>>) EXCEPT !.byId = byId] :
            list \in {"rows", "count", "distinct"}, grouped \in BOOLEAN, byId \in BOOLEAN,
            a \in Pages}
          \cup {Statement(<<>>, selects, <<a>>) :
                    selects \in {Shaped(list, FALSE) : list \in Lists}
                                  \cup {Spread("rows"), Spread("count")}, a \in Pages}
          \cup {[Statement(<<>>, Selecting(<<>>, list), <<a>>) EXCEPT
                    !.derived = <<[query |-> inner, bound |-> b]>>] :
                    list \in {"rows", "distinct", "count"}, inner \in Inner,
                    a \in BoundsOf({Absent, 1}, {Absent}),
                    b \in {Unbounded, [limit |-> 2, offset |-> 1]}}
          \cup {Statement(<<Cte("x", Shaped(list, grouped), Unbounded)>>,
                          Listing("x"), <<Unbounded>>) :
                    list \in {"rows", "count"}, grouped \in BOOLEAN}

MCStatements == OfScope \cup OfMarks \cup OfBounds \cup OfShapes

MCRequests == UNION {[1..n -> Ids] : n \in 0..4}

\* No posting differs from another but in its name.
IdSymmetry == Permutations(Ids)
=============================================================================
