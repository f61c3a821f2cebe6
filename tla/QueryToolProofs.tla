--------------------------- MODULE QueryToolProofs ---------------------------
(***************************************************************************)
(* Proofs about QueryTool and SqlStatement, for statements with any number *)
(* of common table expressions, subqueries and layers of bounds, any table *)
(* and any bounds of the tools: what an admitted statement reads, that a   *)
(* page is the page the statement asks for, and that its count is honest;  *)
(* and, for requests of any length, that every posting asked for by id is  *)
(* accounted for once.                                                     *)
(***************************************************************************)
EXTENDS QueryTool, FiniteSetTheorems, SequenceTheorems, WellFoundedInduction, TLAPS

-----------------------------------------------------------------------------
(* What the guard decides of one query.                                    *)

\* A name of a query in which nothing is refused is clean_jobs or in scope.
LEMMA QueryReadsJobs ==
    ASSUME NEW q \in Queries, NEW visible, QueryFacts(q, visible) = {},
           NEW i \in DOMAIN q.from, ~IsCte(q.from[i], visible)
    PROVE  IsAllowed(q.from[i])
<1> DEFINE ref == q.from[i]
           tables == TablesOf(q, visible)
<1>1. i \in tables
  BY DEF TablesOf
<1>2. {j \in tables : IsSystem(q.from[j])} = {}
  BY DEF QueryFacts
<1>3. {j \in tables : ~IsSystem(q.from[j]) /\ ~IsAllowed(q.from[j])} = {}
  BY DEF QueryFacts
<1> QED  BY <1>1, <1>2, <1>3

\* The queries outside the WITH clause are queries.
LEMMA BodyTyped ==
    ASSUME NEW stmt \in AllStatements, NEW q \in BodyQueries(stmt)
    PROVE  q \in Queries
<1>1. stmt.derived \in Seq(DerivedTables)
  BY DEF AllStatements
<1>2. ASSUME NEW i \in DOMAIN stmt.derived PROVE stmt.derived[i].query \in Queries
  <2>1. stmt.derived[i] \in DerivedTables
    <3> HIDE DEF DerivedTables
    <3> QED  BY <1>1
  <2> QED  BY <2>1 DEF DerivedTables
<1>3. stmt.subqueries \in SUBSET Queries /\ stmt.query \in Queries
  BY DEF AllStatements
<1>4. CASE q \in stmt.subqueries \cup {stmt.query}
  BY <1>3, <1>4
<1>5. CASE \E i \in DOMAIN stmt.derived : q = stmt.derived[i].query
  BY <1>2, <1>5
<1> QED  BY <1>4, <1>5 DEF BodyQueries

\* Of an admitted statement, nothing is refused in any of its queries.
LEMMA AdmittedFacts ==
    ASSUME NEW stmt \in AllStatements, Admitted(stmt)
    PROVE  /\ \A i \in DOMAIN stmt.ctes : QueryFacts(stmt.ctes[i].query, Visible(stmt, i)) = {}
           /\ \A q \in BodyQueries(stmt) :
                 QueryFacts(q, CteNames(stmt, DOMAIN stmt.ctes)) = {}
<1> DEFINE body == CteNames(stmt, DOMAIN stmt.ctes)
           CteFacts(i) == IF stmt.ctes[i].modifies THEN {"modifying"}
                          ELSE QueryFacts(stmt.ctes[i].query, Visible(stmt, i))
           all == {CteFacts(i) : i \in DOMAIN stmt.ctes}
                     \cup {QueryFacts(q, body) : q \in BodyQueries(stmt)}
<1>1. UNION all = {}
  BY DEF Admitted, Facts
<1>2. \A facts \in all : facts = {}
  BY <1>1
<1>3. ASSUME NEW i \in DOMAIN stmt.ctes
      PROVE  QueryFacts(stmt.ctes[i].query, Visible(stmt, i)) = {}
  <2>1. CteFacts(i) = {}
    BY <1>2
  <2> QED  BY <2>1
<1>4. ASSUME NEW q \in BodyQueries(stmt) PROVE QueryFacts(q, body) = {}
  BY <1>2
<1> QED  BY <1>3, <1>4

\* By PostgreSQL's rules of scope too, an admitted statement reads clean_jobs alone.
LEMMA AdmittedReadsJobs ==
    ASSUME NEW stmt \in AllStatements, Admitted(stmt), NEW ref \in TablesRead(stmt)
    PROVE  IsAllowed(ref)
<1> DEFINE After == Len(stmt.ctes) + 1
           body == CteNames(stmt, DOMAIN stmt.ctes)
<1>1. DOMAIN stmt.ctes = 1..Len(stmt.ctes) /\ \A i \in DOMAIN stmt.ctes : stmt.ctes[i] \in Ctes
  <2>1. stmt.ctes \in Seq(Ctes)
    BY DEF AllStatements
  <2> QED  BY <2>1
<1>2. ASSUME NEW i \in DOMAIN stmt.ctes, NEW k \in DOMAIN stmt.ctes[i].query.from,
             ref = stmt.ctes[i].query.from[k], Definitions(With(stmt), ref, i) = {}
      PROVE  IsAllowed(ref)
  <2>1. stmt.ctes[i].query \in Queries
    BY <1>1 DEF Ctes
  <2>2. ~IsCte(ref, Visible(stmt, i))
    BY <1>1, <1>2 DEF IsCte, Visible, CteNames, Definitions, Defines, With
  <2> QED  BY <1>2, <2>1, <2>2, AdmittedFacts, QueryReadsJobs
<1>3. ASSUME NEW q \in BodyQueries(stmt), NEW k \in DOMAIN q.from,
             ref = q.from[k], Definitions(With(stmt), ref, After) = {}
      PROVE  IsAllowed(ref)
  <2>1. q \in Queries
    BY BodyTyped
  <2>2. ~IsCte(ref, body)
    BY <1>1, <1>3 DEF IsCte, CteNames, Definitions, Defines, With
  <2> QED  BY <1>3, <2>1, <2>2, AdmittedFacts, QueryReadsJobs
<1>4. \/ \E i \in DOMAIN stmt.ctes : \E k \in DOMAIN stmt.ctes[i].query.from :
            /\ ref = stmt.ctes[i].query.from[k]
            /\ Definitions(With(stmt), ref, i) = {}
      \/ \E q \in BodyQueries(stmt) : \E k \in DOMAIN q.from :
            /\ ref = q.from[k]
            /\ Definitions(With(stmt), ref, After) = {}
  BY DEF TablesRead
<1> QED  BY <1>2, <1>3, <1>4

-----------------------------------------------------------------------------
(* What cutting a statement's own bound away leaves alone.                 *)

LEMMA CutKeeps ==
    ASSUME NEW stmt \in AllStatements
    PROVE  LET base == WithoutOwnBound(stmt)
           IN  /\ base.recursive = stmt.recursive
               /\ base.subqueries = stmt.subqueries
               /\ base.derived = stmt.derived
               /\ base.query = stmt.query
               /\ BodyQueries(base) = BodyQueries(stmt)
               /\ DOMAIN base.ctes = DOMAIN stmt.ctes
               /\ Len(base.ctes) = Len(stmt.ctes)
               /\ \A i \in DOMAIN stmt.ctes : /\ base.ctes[i].name = stmt.ctes[i].name
                                              /\ base.ctes[i].query = stmt.ctes[i].query
<1> DEFINE base == WithoutOwnBound(stmt)
           k == Least(BoundedCtes(stmt))
           l == Least(BoundedLayers(stmt))
<1>1. stmt.ctes \in Seq(Ctes)
  BY DEF AllStatements
<1>2. CASE BoundedLayers(stmt) # {} /\ InCte(stmt)
  <2>1. base = [stmt EXCEPT !.ctes[k].bound = Unbounded]
    BY <1>2 DEF WithoutOwnBound
  <2>2. base.ctes = [stmt.ctes EXCEPT ![k].bound = Unbounded]
    BY <2>1 DEF AllStatements
  <2>3. \A i \in DOMAIN stmt.ctes : base.ctes[i] = IF i = k
                                       THEN [stmt.ctes[i] EXCEPT !.bound = Unbounded]
                                       ELSE stmt.ctes[i]
    BY <2>2, <1>1
  <2>4. DOMAIN base.ctes = DOMAIN stmt.ctes /\ Len(base.ctes) = Len(stmt.ctes)
    BY <2>2, <1>1
  <2>5. \A i \in DOMAIN stmt.ctes : stmt.ctes[i] \in Ctes
    BY <1>1
  <2>6. \A i \in DOMAIN stmt.ctes : /\ base.ctes[i].name = stmt.ctes[i].name
                                    /\ base.ctes[i].query = stmt.ctes[i].query
    BY <2>3, <2>5 DEF Ctes
  <2>7. /\ base.recursive = stmt.recursive
        /\ base.subqueries = stmt.subqueries
        /\ base.derived = stmt.derived
        /\ base.query = stmt.query
    BY <2>1 DEF AllStatements
  <2> QED  BY <2>4, <2>6, <2>7 DEF BodyQueries
<1>3. CASE BoundedLayers(stmt) # {} /\ ~InCte(stmt)
  <2>1. base = [stmt EXCEPT !.layers[l] = Unbounded]
    BY <1>3 DEF WithoutOwnBound
  <2> QED  BY <2>1 DEF AllStatements, BodyQueries
<1>4. CASE BoundedLayers(stmt) = {}
  <2>1. base = stmt
    BY <1>4 DEF WithoutOwnBound
  <2> QED  BY <2>1
<1> QED  BY <1>2, <1>3, <1>4

LEMMA CutReads ==
    ASSUME NEW stmt \in AllStatements
    PROVE  TablesRead(WithoutOwnBound(stmt)) \subseteq TablesRead(stmt)
<1> DEFINE base == WithoutOwnBound(stmt)
           After == Len(stmt.ctes) + 1
<1>1. \A ref, place : Definitions(With(base), ref, place) = Definitions(With(stmt), ref, place)
  BY CutKeeps DEF Definitions, Defines, With
<1> SUFFICES ASSUME NEW ref \in TablesRead(base) PROVE ref \in TablesRead(stmt)
  OBVIOUS
<1>2. \/ \E i \in DOMAIN base.ctes : \E k \in DOMAIN base.ctes[i].query.from :
            /\ ref = base.ctes[i].query.from[k]
            /\ Definitions(With(base), ref, i) = {}
      \/ \E q \in BodyQueries(base) : \E k \in DOMAIN q.from :
            /\ ref = q.from[k]
            /\ Definitions(With(base), ref, Len(base.ctes) + 1) = {}
  BY DEF TablesRead
<1>3. \/ \E i \in DOMAIN stmt.ctes : \E k \in DOMAIN stmt.ctes[i].query.from :
            /\ ref = stmt.ctes[i].query.from[k]
            /\ Definitions(With(stmt), ref, i) = {}
      \/ \E q \in BodyQueries(stmt) : \E k \in DOMAIN q.from :
            /\ ref = q.from[k]
            /\ Definitions(With(stmt), ref, After) = {}
  BY <1>1, <1>2, CutKeeps
<1> DEFINE In(q, place) == {r \in {q.from[i] : i \in DOMAIN q.from} :
                              Definitions(With(stmt), r, place) = {}}
<1>4. TablesRead(stmt) = UNION ({In(stmt.ctes[i].query, i) : i \in DOMAIN stmt.ctes}
                                \cup {In(q, After) : q \in BodyQueries(stmt)})
  BY DEF TablesRead
<1>5. \/ \E i \in DOMAIN stmt.ctes : ref \in In(stmt.ctes[i].query, i)
      \/ \E q \in BodyQueries(stmt) : ref \in In(q, After)
  BY <1>3
<1> HIDE DEF In
<1> QED  BY <1>4, <1>5

-----------------------------------------------------------------------------
(* The call: what it keeps of the statement that was admitted.             *)

Running == {"opening", "fetching", "counting", "shaping", "returned"}

\* The statement the tool runs is the admitted one, less its own bound, with the
\* bounds that were read off it.
StatementInv ==
    /\ DOMAIN query = DOMAIN NoQuery
    /\ query.at \in Running \cup {"idle", "failed"}
    /\ query.at \in Running =>
          /\ query.stmt \in Statements /\ Admitted(query.stmt)
          /\ query.base = WithoutOwnBound(query.stmt)
          /\ query.limit = Limit(query.stmt, MaxRows)
          /\ query.offset = Offset(query.stmt)

LEMMA StatementInit == Init => StatementInv
  BY DEF Init, StatementInv, NoQuery, Running

LEMMA StatementStep == StatementInv /\ [Next]_vars => StatementInv'
<1> SUFFICES ASSUME StatementInv, [Next]_vars PROVE StatementInv'
  OBVIOUS
<1> USE DEF StatementInv, Running, NoQuery
<1>1. ASSUME NEW kind, QueryFails(kind) PROVE StatementInv'
  BY <1>1 DEF QueryFails
<1>2. ASSUME NEW stmt \in Statements, Accepted(stmt) PROVE StatementInv'
  BY <1>2 DEF Accepted
<1>3. CASE Opens
  BY <1>3 DEF Opens
<1>4. CASE Fetches
  BY <1>4 DEF Fetches
<1>5. CASE Counts
  BY <1>5 DEF Counts
<1>6. CASE QueryReturns
  BY <1>6 DEF QueryReturns
<1>7. CASE UNCHANGED query
  BY <1>7
<1>8. CASE Query
  BY <1>1, <1>2, <1>3, <1>4, <1>5, <1>6, <1>8
     DEF Query, GenerationFails, Refuses, RefusesOrder, FetchesTooMuch, RejectsSyntax,
         QueryFailsInDb
<1>9. CASE Details \/ Ingests \/ UNCHANGED vars
  BY <1>7, <1>9 DEF Details, AsksDetails, DetailsReturn, DetailsFailInDb, DetailsTooLarge,
                    DetailsFail, Ingests, vars
<1> QED  BY <1>8, <1>9 DEF Next

\* No statement that reaches the database reads another relation than clean_jobs, by
\* PostgreSQL's own rules of scope (sql_validator.py, statement.py).
THEOREM OnlyJobsAlwaysRead == Spec => []OnlyJobsRead
<1>1. StatementInv => OnlyJobsRead
  <2> SUFFICES ASSUME StatementInv, query.at \notin {"idle", "failed"},
                      NEW ref \in TablesRead(query.base)
               PROVE  IsAllowed(ref)
    BY DEF OnlyJobsRead
  <2>1. /\ query.stmt \in AllStatements /\ Admitted(query.stmt)
        /\ query.base = WithoutOwnBound(query.stmt)
    BY StatementsAssumption DEF StatementInv
  <2> QED  BY <2>1, CutReads, AdmittedReadsJobs
<1> QED  BY <1>1, StatementInit, StatementStep, PTL DEF Spec

-----------------------------------------------------------------------------
(* Bounds.                                                                 *)

\* The rows a bound of plain numbers leaves.
Slice(limit, offset, m) == {i \in 1..m : offset < i /\ i <= offset + limit}

LEMMA SliceSize ==
    ASSUME NEW limit \in Nat, NEW offset \in Nat, NEW m \in Nat
    PROVE  LET rows == Slice(limit, offset, m)
           IN  /\ Cardinality(rows) \in Nat
               /\ offset = 0 /\ Cardinality(rows) # limit => Cardinality(rows) = m
               /\ Cardinality(rows) < m <=> rows # 1..m
<1> DEFINE rows == Slice(limit, offset, m)
<1>1. rows \in SUBSET (1..m)
  BY DEF Slice
<1>2. IsFiniteSet(1..m) /\ Cardinality(1..m) = m
  BY FS_Interval
<1>3. IsFiniteSet(rows) /\ Cardinality(rows) <= m /\ (Cardinality(rows) = m => rows = 1..m)
  BY <1>1, <1>2, FS_Subset
<1>4. Cardinality(rows) \in Nat
  BY <1>3, FS_CardinalityType
<1>5. ASSUME offset = 0, Cardinality(rows) # limit PROVE Cardinality(rows) = m
  <2>1. CASE limit < m
    <3>1. rows = 1..limit
      BY <1>5, <2>1 DEF Slice
    <3>2. Cardinality(1..limit) = limit
      BY FS_Interval
    <3> QED  BY <1>5, <3>1, <3>2
  <2>2. CASE m <= limit
    <3>1. rows = 1..m
      BY <1>5, <2>2 DEF Slice
    <3> QED  BY <1>2, <3>1
  <2> QED  BY <2>1, <2>2
<1>6. Cardinality(rows) < m <=> rows # 1..m
  BY <1>2, <1>3, <1>4
<1> QED  BY <1>4, <1>5, <1>6

\* What the tool makes of the bounds a statement states.
LEMMA BoundTypes ==
    ASSUME NEW stmt
    PROVE  Limit(stmt, MaxRows) \in Nat /\ Offset(stmt) \in Nat
  BY LimitsAssumption DEF Limit, Offset

LEMMA OwnTypes ==
    ASSUME NEW stmt \in AllStatements, Admitted(stmt)
    PROVE  /\ Own(stmt.layers, "limit") \in Nat \cup {Absent, All}
           /\ Own(stmt.layers, "offset") \in Nat \cup {Absent}
<1>1. stmt.layers \in Seq(Bounds)
  BY DEF AllStatements
<1>2. \A i \in DOMAIN stmt.layers : stmt.layers[i] \in Bounds
  BY <1>1
<1>3. ASSUME NEW clause
      PROVE  \/ Own(stmt.layers, clause) = Absent
             \/ \E i \in DOMAIN stmt.layers : Own(stmt.layers, clause) = stmt.layers[i][clause]
  <2>1. CASE Stated(stmt.layers, clause) = {}
    BY <2>1 DEF Own
  <2>2. CASE Stated(stmt.layers, clause) # {}
    <3> DEFINE i == CHOOSE j \in Stated(stmt.layers, clause) : TRUE
    <3>1. i \in Stated(stmt.layers, clause)
      BY <2>2
    <3>2. i \in DOMAIN stmt.layers
      BY <3>1 DEF Stated
    <3>3. Own(stmt.layers, clause) = stmt.layers[i][clause]
      BY <2>2 DEF Own
    <3> QED  BY <3>2, <3>3
  <2> QED  BY <2>1, <2>2
<1>4. Own(stmt.layers, "limit") \in Nat \cup {Absent, All, Odd}
  BY <1>2, <1>3 DEF Bounds
<1>5. Own(stmt.layers, "offset") \in Nat \cup {Absent, Odd}
  BY <1>2, <1>3 DEF Bounds
<1> QED  BY <1>4, <1>5 DEF Admitted

\* The page is what the statement's own bounds leave, up to the cap.
LEMMA PageOfOwn ==
    ASSUME NEW stmt \in AllStatements, Admitted(stmt), NEW m \in Nat
    PROVE  LET own == [limit |-> Own(stmt.layers, "limit"), offset |-> Own(stmt.layers, "offset")]
           IN  {i \in Left(own, m) : i <= Offset(stmt) + MaxRows}
                  = Slice(Limit(stmt, MaxRows), Offset(stmt), m)
<1> DEFINE limit == Own(stmt.layers, "limit")
           offset == Own(stmt.layers, "offset")
<1>1. limit \in Nat \cup {Absent, All} /\ offset \in Nat \cup {Absent}
  BY OwnTypes
<1>2. Limit(stmt, MaxRows) = IF limit \in 0..MaxRows THEN limit ELSE MaxRows
  BY DEF Limit
<1>3. Offset(stmt) = IF offset \in Nat THEN offset ELSE 0
  BY DEF Offset
<1>4. Left([limit |-> limit, offset |-> offset], m)
        = {i \in 1..m : /\ Offset(stmt) < i
                        /\ i <= IF limit \in Nat THEN Offset(stmt) + limit ELSE m}
  BY <1>3 DEF Left
<1>5. MaxRows \in Nat
  BY LimitsAssumption
<1>6. Offset(stmt) \in Nat
  BY BoundTypes
<1> HIDE DEF limit, offset
<1>7. ASSUME NEW i \in 1..m
      PROVE  (i <= (IF limit \in Nat THEN Offset(stmt) + limit ELSE m) /\ i <= Offset(stmt) + MaxRows)
               <=> i <= Offset(stmt) + Limit(stmt, MaxRows)
  BY <1>1, <1>2, <1>5, <1>6 DEF Absent, All
<1>8. {i \in Left([limit |-> limit, offset |-> offset], m) : i <= Offset(stmt) + MaxRows}
        = Slice(Limit(stmt, MaxRows), Offset(stmt), m)
  BY <1>4, <1>7 DEF Slice
<1> QED  BY <1>8 DEF limit, offset

LEMMA PageIsSlice ==
    ASSUME query.limit \in Nat, query.offset \in Nat,
           NEW m \in Nat, m = Matches(query.base, Cardinality(query.snapshot))
    PROVE  Page = Slice(query.limit, query.offset, m)
  BY DEF Page, Bound, Left, Slice, Absent

-----------------------------------------------------------------------------
(* The page and the count.                                                 *)

\* No common table expression has lost its bound.
Uncut(stmt) == With(WithoutOwnBound(stmt)) = With(stmt)

\* Without that, the statement's own query ranges over what it did before.
LEMMA UncutMatches ==
    ASSUME NEW stmt \in AllStatements, Uncut(stmt), NEW n
    PROVE  Matches(WithoutOwnBound(stmt), n) = Matches(stmt, n)
  BY CutKeeps DEF Uncut, Matches, Source, Over

LEMMA WithoutCtesUncut ==
    ASSUME NEW stmt \in AllStatements, stmt.ctes = <<>>
    PROVE  Uncut(stmt)
<1>1. BoundedCtes(stmt) = {}
  BY DEF BoundedCtes
<1>2. ~InCte(stmt)
  BY <1>1 DEF InCte
<1> QED  BY <1>2 DEF Uncut, With, WithoutOwnBound, AllStatements

\* Where the statement's own bounds are found, they and nothing else are cut.
LEMMA FoundIsCut ==
    ASSUME NEW stmt \in AllStatements, OwnBoundFound(stmt)
    PROVE  LET base == WithoutOwnBound(stmt)
           IN  /\ Uncut(stmt)
               /\ base.layers \in Seq(Bounds)
               /\ \A i \in DOMAIN base.layers : base.layers[i] = Unbounded
<1> DEFINE base == WithoutOwnBound(stmt)
           bounded == BoundedLayers(stmt)
           l == Least(bounded)
<1>1. stmt.layers \in Seq(Bounds)
  BY DEF AllStatements
<1>2. bounded \in SUBSET (1..Len(stmt.layers))
  BY <1>1 DEF BoundedLayers
<1>3. CASE bounded = {}
  <2>1. base = stmt
    BY <1>3 DEF WithoutOwnBound
  <2>2. \A i \in DOMAIN stmt.layers : stmt.layers[i] = Unbounded
    BY <1>3 DEF BoundedLayers, IsBounded
  <2> QED  BY <1>1, <2>1, <2>2 DEF Uncut
<1>4. CASE bounded # {}
  <2>1. IsFiniteSet(bounded) /\ Cardinality(bounded) \in Nat
    <3>1. IsFiniteSet(1..Len(stmt.layers))
      BY <1>1, FS_Interval
    <3>2. IsFiniteSet(bounded)
      BY <1>2, <3>1, FS_Subset
    <3> QED  BY <3>2, FS_CardinalityType
  <2>2. Cardinality(bounded) = 1
    BY <1>4, <2>1, FS_EmptySet DEF OwnBoundFound
  <2>3. PICK k : bounded = {k}
    BY <2>1, <2>2, FS_Singleton
  <2>4. k \in 1..Len(stmt.layers)
    BY <1>2, <2>3
  <2>5. l = k
    BY <2>3, <2>4 DEF Least
  <2>6. ~InCte(stmt)
    BY <2>3, <2>4, <2>5 DEF InCte, OwnBoundFound
  <2>7. base = [stmt EXCEPT !.layers[k] = Unbounded]
    BY <1>4, <2>5, <2>6 DEF WithoutOwnBound
  <2>8. base.layers = [stmt.layers EXCEPT ![k] = Unbounded] /\ With(base) = With(stmt)
    BY <2>7 DEF AllStatements, With
  <2>9. Unbounded \in Bounds
    BY DEF Unbounded, Bounds
  <2>10. base.layers \in Seq(Bounds)
    BY <1>1, <2>4, <2>8, <2>9
  <2>11. \A i \in DOMAIN stmt.layers : i # k => stmt.layers[i] = Unbounded
    BY <2>3 DEF BoundedLayers, IsBounded
  <2>12. \A i \in DOMAIN base.layers : base.layers[i] = Unbounded
    BY <1>1, <2>8, <2>11
  <2> QED  BY <2>8, <2>10, <2>12 DEF Uncut
<1> QED  BY <1>3, <1>4

\* So the database takes the bound that is appended.
LEMMA FoundIsAccepted ==
    ASSUME NEW stmt \in AllStatements, OwnBoundFound(stmt), Accepts(stmt, Unbounded), NEW bound
    PROVE  Accepts(WithoutOwnBound(stmt), bound)
<1> DEFINE layers == WithoutOwnBound(stmt).layers
           new == Append(layers, bound)
           last == Len(layers) + 1
<1>1. layers \in Seq(Bounds) /\ \A i \in DOMAIN layers : layers[i] = Unbounded
  BY FoundIsCut
<1> HIDE DEF layers
<1>2. DOMAIN new = 1..last /\ \A i \in 1..Len(layers) : new[i] = layers[i]
  BY <1>1
<1>3. ASSUME NEW clause \in {"limit", "offset"}
      PROVE  Cardinality(Stated(new, clause)) <= 1
  <2>1. \A i \in 1..Len(layers) : new[i][clause] = Absent
    BY <1>1, <1>2 DEF Unbounded
  <2>2. Stated(new, clause) \in SUBSET {last}
    BY <1>1, <1>2, <2>1 DEF Stated
  <2>3. IsFiniteSet({last}) /\ Cardinality({last}) = 1
    BY FS_Singleton
  <2> QED  BY <2>2, <2>3, FS_Subset
<1>4. Parses(new)
  BY <1>3 DEF Parses
<1>5. Evaluable(With(WithoutOwnBound(stmt)))
  BY FoundIsCut DEF Uncut, Accepts
<1> QED  BY <1>4, <1>5 DEF Accepts, layers

-----------------------------------------------------------------------------
(* The rows of a statement are so many, however its common table           *)
(* expressions build on each other.                                         *)

Less == OpToRel(<, Nat)

\* A nonempty set of natural numbers has a least one.
LEMMA LeastOne ==
    ASSUME NEW S \in SUBSET Nat, S # {}
    PROVE  \E m \in S : \A k \in S : m <= k
<1>1. IsWellFoundedOn(Less, Nat)
  BY NatLessThanWellFounded DEF Less
<1>2. PICK m \in S : \A k \in S : ~(<<k, m>> \in Less)
  BY <1>1, WFMin
<1>3. \A x, y \in Nat : <<x, y>> \in Less <=> x < y
  BY DEF Less, OpToRel
<1>4. ASSUME NEW k \in S
      PROVE  m <= k
  <2>1. ~(k < m)
    BY <1>2, <1>3
  <2> QED  BY <2>1
<1> QED  BY <1>4

\* The sizes of the common table expressions when those they read have these sizes.
SizesFrom(with, n, below) ==
    [i \in DOMAIN with.ctes |->
        LET made == with.ctes[i].query
            read == Definitions(with, made.from[1], i)
            rows == IF read = {} THEN n ELSE below[Least(read)]
        IN  Cardinality(Left(with.ctes[i].bound, Produces(made, Ranged(made, rows))))]

Empties(with) == [i \in DOMAIN with.ctes |-> 0]

\* The sizes of the first d depths.
SizeTable(with, n, g, d) ==
    [depth \in 0..d |-> IF depth = 0 THEN Empties(with) ELSE SizesFrom(with, n, g[depth - 1])]

LEMMA SizesAre ==
    ASSUME NEW with, NEW n
    PROVE  Sizes(with, n) = (CHOOSE g : g = SizeTable(with, n, g, Len(with.ctes)))[Len(with.ctes)]
<1> DEFINE Body(g, depth) ==
             [i \in DOMAIN with.ctes |->
                IF depth = 0 THEN 0
                ELSE LET made == with.ctes[i].query
                         read == Definitions(with, made.from[1], i)
                         rows == IF read = {} THEN n ELSE g[depth - 1][Least(read)]
                     IN  Cardinality(Left(with.ctes[i].bound, Produces(made, Ranged(made, rows))))]
<1>1. ASSUME NEW g, NEW depth
      PROVE  Body(g, depth) = IF depth = 0 THEN Empties(with) ELSE SizesFrom(with, n, g[depth - 1])
  BY DEF Empties, SizesFrom
<1>2. Sizes(with, n) = (CHOOSE g : g = [depth \in 0..Len(with.ctes) |-> Body(g, depth)])[Len(with.ctes)]
  BY DEF Sizes
<1> HIDE DEF Body
<1>3. ASSUME NEW g
      PROVE  [depth \in 0..Len(with.ctes) |-> Body(g, depth)] = SizeTable(with, n, g, Len(with.ctes))
  BY <1>1 DEF SizeTable
<1> QED  BY <1>2, <1>3

LEMMA SizeTableExists ==
    ASSUME NEW with, NEW n, NEW d \in Nat
    PROVE  \E g : g = SizeTable(with, n, g, d)
<1> DEFINE Lacking == {m \in Nat : ~\E g : g = SizeTable(with, n, g, m)}
<1>1. Lacking = {}
  <2> SUFFICES ASSUME Lacking # {} PROVE FALSE
    OBVIOUS
  <2>1. PICK m \in Lacking : \A k \in Lacking : m <= k
    <3> Lacking \in SUBSET Nat
      OBVIOUS
    <3> HIDE DEF Lacking
    <3> QED  BY LeastOne
  <2>2. m \in Nat /\ ~\E g : g = SizeTable(with, n, g, m)
    OBVIOUS
  <2>3. CASE m = 0
    <3> DEFINE g == [i \in 0..0 |-> Empties(with)]
    <3>1. g = SizeTable(with, n, g, 0)
      BY DEF SizeTable
    <3> QED  BY <2>2, <2>3, <3>1
  <2>4. CASE m # 0
    <3>1. m - 1 \in Nat /\ m - 1 \notin Lacking
      BY <2>1, <2>2, <2>4
    <3>2. PICK g : g = SizeTable(with, n, g, m - 1)
      BY <3>1
    <3> DEFINE h == [i \in 0..m |-> IF i = m THEN SizesFrom(with, n, g[m - 1]) ELSE g[i]]
    <3>3. \A i \in 0..m : i # m => i \in 0..(m - 1)
      BY <2>2
    <3>4. \A i \in 0..(m - 1) :
             g[i] = IF i = 0 THEN Empties(with) ELSE SizesFrom(with, n, g[i - 1])
      BY <3>2 DEF SizeTable
    <3>5. ASSUME NEW i \in 0..m
          PROVE  h[i] = IF i = 0 THEN Empties(with) ELSE SizesFrom(with, n, h[i - 1])
      <4>1. CASE i = m
        <5>1. m - 1 \in 0..m /\ m - 1 # m
          BY <2>2, <2>4
        <5> QED  BY <2>2, <2>4, <4>1, <5>1
      <4>2. CASE i # m
        <5>1. i \in 0..(m - 1) /\ (i # 0 => i - 1 \in 0..m /\ i - 1 # m)
          BY <2>2, <4>2
        <5> QED  BY <3>4, <4>2, <5>1
      <4> QED  BY <4>1, <4>2
    <3>6. h = SizeTable(with, n, h, m)
      <4> HIDE DEF h
      <4>1. h = [i \in 0..m |-> h[i]]
        BY DEF h
      <4> QED  BY <3>5, <4>1 DEF SizeTable
    <3> QED  BY <2>2, <3>6
  <2> QED  BY <2>3, <2>4
<1> QED  BY <1>1

LEMMA TimesNat ==
    ASSUME NEW n \in Nat
    PROVE  n * Values \in Nat
  BY CountsAssumption

LEMMA ProducesNat ==
    ASSUME NEW made, NEW n \in Nat
    PROVE  Ranged(made, n) \in Nat /\ Produces(made, n) \in Nat
  BY TimesNat, CountsAssumption DEF Ranged, Produces

\* What a bound leaves of some rows is a number of rows.
LEMMA LeftNat ==
    ASSUME NEW bound, NEW n \in Nat
    PROVE  Cardinality(Left(bound, n)) \in Nat
<1>1. Left(bound, n) \subseteq 1..n
  BY DEF Left
<1>2. IsFiniteSet(1..n)
  BY FS_Interval
<1> QED  BY <1>1, <1>2, FS_Subset, FS_CardinalityType

\* However its common table expressions build on each other, each has a number of rows.
LEMMA SizesInNat ==
    ASSUME NEW with, Len(with.ctes) \in Nat, DOMAIN with.ctes = 1..Len(with.ctes), NEW n \in Nat,
           NEW i \in DOMAIN with.ctes
    PROVE  Sizes(with, n)[i] \in Nat
<1> DEFINE d == Len(with.ctes)
           g == CHOOSE g : g = SizeTable(with, n, g, d)
<1>1. g = SizeTable(with, n, g, d)
  BY SizeTableExists
<1>2. Sizes(with, n) = g[d]
  BY SizesAre
<1> HIDE DEF g
<1>3. ASSUME NEW below, \A k \in DOMAIN with.ctes : below[k] \in Nat, NEW j \in DOMAIN with.ctes
      PROVE  SizesFrom(with, n, below)[j] \in Nat
  <2> DEFINE made == with.ctes[j].query
             read == Definitions(with, made.from[1], j)
             rows == IF read = {} THEN n ELSE below[Least(read)]
  <2>1. rows \in Nat
    <3> SUFFICES ASSUME read # {} PROVE below[Least(read)] \in Nat
      OBVIOUS
    <3>1. read \subseteq DOMAIN with.ctes
      BY DEF Definitions
    <3>2. read \in SUBSET Nat
      BY <3>1
    <3>3. Least(read) \in read
      <4> HIDE DEF read
      <4> QED  BY <3>2, LeastOne DEF Least
    <3> QED  BY <1>3, <3>1, <3>3
  <2>2. Produces(made, Ranged(made, rows)) \in Nat
    <3> HIDE DEF rows
    <3> QED  BY <2>1, ProducesNat
  <2>3. Cardinality(Left(with.ctes[j].bound, Produces(made, Ranged(made, rows)))) \in Nat
    <3> HIDE DEF rows
    <3> QED  BY <2>2, LeftNat
  <2> QED  BY <2>3 DEF SizesFrom
<1> DEFINE Bad == {m \in Nat : m <= d /\ \E j \in DOMAIN with.ctes : g[m][j] \notin Nat}
<1>4. Bad = {}
  <2> SUFFICES ASSUME Bad # {} PROVE FALSE
    OBVIOUS
  <2>1. PICK m \in Bad : \A k \in Bad : m <= k
    <3> Bad \in SUBSET Nat
      OBVIOUS
    <3> HIDE DEF Bad
    <3> QED  BY LeastOne
  <2>2. PICK j \in DOMAIN with.ctes : g[m][j] \notin Nat
    OBVIOUS
  <2>3. m \in 0..d /\ g[m] = IF m = 0 THEN Empties(with) ELSE SizesFrom(with, n, g[m - 1])
    BY <1>1 DEF SizeTable
  <2>4. m # 0
    BY <2>2, <2>3 DEF Empties
  <2>5. m - 1 \in Nat /\ m - 1 <= d /\ m - 1 \notin Bad
    BY <2>1, <2>3, <2>4
  <2>6. \A k \in DOMAIN with.ctes : g[m - 1][k] \in Nat
    BY <2>5
  <2> QED  BY <1>3, <2>2, <2>3, <2>4, <2>6
<1> QED  BY <1>2, <1>4

LEMMA OverNat ==
    ASSUME NEW stmt \in AllStatements, NEW made, NEW n \in Nat
    PROVE  Over(stmt, made, n) \in Nat
<1> DEFINE with == With(stmt)
           read == Definitions(with, made.from[1], Len(stmt.ctes) + 1)
           rows == IF read = {} THEN n ELSE Sizes(with, n)[Least(read)]
<1>1. with.ctes = stmt.ctes /\ Len(stmt.ctes) \in Nat /\ DOMAIN stmt.ctes = 1..Len(stmt.ctes)
  BY DEF With, AllStatements
<1>2. Over(stmt, made, n) = Ranged(made, rows)
  BY DEF Over
<1> HIDE DEF with
<1>3. ASSUME read # {} PROVE Sizes(with, n)[Least(read)] \in Nat
  <2>1. read \subseteq DOMAIN stmt.ctes
    BY <1>1 DEF Definitions
  <2>2. read \in SUBSET Nat
    BY <1>1, <2>1
  <2>3. Least(read) \in DOMAIN stmt.ctes
    <3> HIDE DEF read
    <3> QED  BY <1>3, <2>1, <2>2, LeastOne DEF Least
  <2> HIDE DEF read
  <2> QED  BY <1>1, <2>3, SizesInNat
<1>4. rows \in Nat
  BY <1>3
<1> HIDE DEF rows
<1> QED  BY <1>2, <1>4, ProducesNat

LEMMA MatchesNat ==
    ASSUME NEW stmt \in AllStatements, NEW n \in Nat
    PROVE  Matches(stmt, n) \in Nat
<1> DEFINE table == stmt.derived[1]
           rows == Produces(table.query, Over(stmt, table.query, n))
           left == Cardinality(Left(table.bound, rows))
<1>1. left \in Nat
  <2>1. rows \in Nat
    BY OverNat, ProducesNat
  <2> HIDE DEF rows
  <2> QED  BY <2>1, LeftNat
<1>2. Ranged(stmt.query, left) \in Nat
  <2> HIDE DEF left
  <2> QED  BY <1>1, ProducesNat
<1>3. Source(stmt, n) \in Nat
  BY <1>2, OverNat DEF Source
<1> QED  BY <1>3, ProducesNat DEF Matches

-----------------------------------------------------------------------------
(* A call of query_clean_jobs.                                               *)

Snapped == Running \ {"opening"}
Seen == Cardinality(query.snapshot)

\* The rows are the page of the snapshot, and the total is the snapshot's.
PageInv ==
    /\ jobs \in SUBSET Ids
    /\ query.at \in Snapped => query.snapshot \in SUBSET Ids
    /\ query.at \in {"counting", "shaping", "returned"} => query.rows = Page
    /\ query.at \in {"shaping", "returned"} /\ Uncut(query.stmt)
          => query.total = Matches(query.stmt, Seen)
    /\ query.at = "returned" => query.facts = ResultFacts

CallInv == StatementInv /\ PageInv

\* Of a statement that is running and lost no bound of a common table expression.
LEMMA RunningFacts ==
    ASSUME StatementInv, PageInv, query.at \in Snapped
    PROVE  /\ query.stmt \in Statements /\ query.stmt \in AllStatements
           /\ Admitted(query.stmt) /\ query.base = WithoutOwnBound(query.stmt)
           /\ query.limit \in Nat /\ query.offset \in Nat
           /\ Seen \in Nat /\ Matches(query.stmt, Seen) \in Nat
           /\ Uncut(query.stmt) =>
                 /\ Matches(query.base, Seen) = Matches(query.stmt, Seen)
                 /\ Page = Slice(query.limit, query.offset, Matches(query.stmt, Seen))
<1>1. /\ query.stmt \in Statements /\ query.stmt \in AllStatements
      /\ Admitted(query.stmt) /\ query.base = WithoutOwnBound(query.stmt)
      /\ query.limit \in Nat /\ query.offset \in Nat
  BY StatementsAssumption, BoundTypes DEF StatementInv, Snapped
<1>2. Seen \in Nat
  BY IdsAssumption, FS_Subset, FS_CardinalityType DEF PageInv, Seen
<1>3. Matches(query.stmt, Seen) \in Nat
  BY <1>1, <1>2, MatchesNat
<1>4. ASSUME Uncut(query.stmt)
      PROVE  /\ Matches(query.base, Seen) = Matches(query.stmt, Seen)
             /\ Page = Slice(query.limit, query.offset, Matches(query.stmt, Seen))
  BY <1>1, <1>3, <1>4, UncutMatches, PageIsSlice DEF Seen
<1> QED  BY <1>1, <1>2, <1>3, <1>4

LEMMA PageInit == Init => PageInv
  BY DEF Init, PageInv, NoQuery, Snapped, Running

\* What Page, Seen and the facts are made of does not change while a call goes on.
LEMMA PageFrame ==
    ASSUME UNCHANGED <<query.base, query.limit, query.offset, query.snapshot>>
    PROVE  Page' = Page /\ Seen' = Seen
  BY DEF Page, Bound, Seen

LEMMA FactsFrame ==
    ASSUME UNCHANGED <<query.stmt, query.base, query.offset, query.snapshot,
                       query.rows, query.total>>
    PROVE  ResultFacts' = ResultFacts
  BY DEF ResultFacts, Counted

LEMMA PageStep == CallInv /\ [Next]_vars => PageInv'
<1> SUFFICES ASSUME StatementInv, PageInv, [Next]_vars PROVE PageInv'
  BY DEF CallInv
<1>0. DOMAIN query = {"at", "kind", "stmt", "base", "limit", "offset", "snapshot", "rows",
                      "total", "facts"}
  BY DEF StatementInv, NoQuery
<1>1. ASSUME NEW kind, QueryFails(kind) PROVE PageInv'
  BY <1>0, <1>1 DEF QueryFails, PageInv, Snapped, Running
<1>2. ASSUME NEW stmt \in Statements, Accepted(stmt) PROVE PageInv'
  BY <1>0, <1>2 DEF Accepted, PageInv, Snapped, Running
<1>3. CASE Opens
  BY <1>0, <1>3 DEF Opens, PageInv, Snapped, Running
<1>4. CASE Fetches
  <2>1. /\ query'.at = IF query.offset > 0 \/ Cardinality(Page) = query.limit
                       THEN "counting" ELSE "shaping"
        /\ query'.rows = Page /\ query'.total = Cardinality(Page)
        /\ UNCHANGED <<query.stmt, query.base, query.limit, query.offset, query.snapshot>>
        /\ UNCHANGED jobs
    BY <1>0, <1>4 DEF Fetches
  <2>2. Page' = Page /\ Seen' = Seen
    BY <2>1, PageFrame
  <2>3. ASSUME query'.at = "shaping", Uncut(query.stmt)
        PROVE  query'.total = Matches(query.stmt, Seen)
    <3>1. query.at \in Snapped
      BY <1>4 DEF Fetches, Snapped, Running
    <3>2. query.offset = 0 /\ Cardinality(Page) # query.limit
      BY <2>1, <2>3, <3>1, RunningFacts
    <3> DEFINE m == Matches(query.stmt, Seen)
    <3>3. m \in Nat /\ query.limit \in Nat /\ Page = Slice(query.limit, 0, m)
      BY <2>3, <3>1, <3>2, RunningFacts
    <3>4. Cardinality(Slice(query.limit, 0, m)) # query.limit
            => Cardinality(Slice(query.limit, 0, m)) = m
      BY <3>3, SliceSize
    <3> QED  BY <2>1, <3>2, <3>3, <3>4
  <2> QED  BY <1>4, <2>1, <2>2, <2>3 DEF Fetches, PageInv, Snapped, Running
<1>5. CASE Counts
  <2>1. /\ query'.at = "shaping" /\ query'.total = Matches(query.base, Seen)
        /\ UNCHANGED <<query.stmt, query.base, query.limit, query.offset, query.snapshot,
                       query.rows>>
        /\ UNCHANGED jobs
    BY <1>0, <1>5 DEF Counts, Seen
  <2>2. Page' = Page /\ Seen' = Seen
    BY <2>1, PageFrame
  <2>3. query.at = "counting" /\ query.at \in Snapped
    BY <1>5 DEF Counts, Snapped, Running
  <2> QED  BY <2>1, <2>2, <2>3, RunningFacts DEF PageInv
<1>6. CASE QueryReturns
  <2>1. /\ query'.at = "returned" /\ query'.facts = ResultFacts
        /\ UNCHANGED <<query.stmt, query.base, query.limit, query.offset, query.snapshot,
                       query.rows, query.total>>
        /\ UNCHANGED jobs
    BY <1>0, <1>6 DEF QueryReturns
  <2>2. Page' = Page /\ Seen' = Seen /\ ResultFacts' = ResultFacts
    BY <2>1, PageFrame, FactsFrame
  <2>3. query.at = "shaping"
    BY <1>6 DEF QueryReturns
  <2> QED  BY <2>1, <2>2, <2>3 DEF PageInv, Snapped, Running
<1>7. ASSUME UNCHANGED query, jobs' \in SUBSET Ids PROVE PageInv'
  <2>1. Page' = Page /\ Seen' = Seen /\ ResultFacts' = ResultFacts
    BY <1>7, PageFrame, FactsFrame
  <2> QED  BY <1>7, <2>1 DEF PageInv
<1>8. CASE Query
  BY <1>1, <1>2, <1>3, <1>4, <1>5, <1>6, <1>8
     DEF Query, GenerationFails, Refuses, RefusesOrder, FetchesTooMuch, RejectsSyntax,
         QueryFailsInDb
<1>9. CASE Details \/ Ingests \/ UNCHANGED vars
  <2>1. UNCHANGED query /\ jobs' \in SUBSET Ids
    BY <1>9 DEF Details, AsksDetails, DetailsReturn, DetailsFailInDb, DetailsTooLarge,
                DetailsFail, Ingests, vars, PageInv
  <2> QED  BY <1>7, <2>1
<1> QED  BY <1>8, <1>9 DEF Next

LEMMA CallInductive ==
    /\ Init => CallInv
    /\ CallInv /\ [Next]_vars => CallInv'
  BY StatementInit, PageInit, StatementStep, PageStep DEF CallInv

\* Of a statement whose own bounds are found, the page holds the first max_rows rows
\* of those the statement asks for, its total is that of the same snapshot, it says
\* that it is cut exactly when it is, and the database takes the cut statement
\* (row_bound.py, executor.py).
THEOREM PageAlwaysExact == Spec => []PageExact
<1>1. CallInv => PageExact
  <2> SUFFICES ASSUME StatementInv, PageInv, query.at \in {"fetching", "returned"},
                      OwnBoundFound(query.stmt)
               PROVE  PageExact
    BY DEF CallInv, PageExact
  <2> DEFINE stmt == query.stmt
             m == Matches(stmt, Seen)
  <2>1. query.at \in Snapped
    BY DEF Snapped, Running
  <2>2. Uncut(stmt)
    BY <2>1, RunningFacts, FoundIsCut
  <2>3. CASE query.at = "fetching"
    <3>1. Accepts(stmt, Unbounded) => Accepts(query.base, Bound)
      BY <2>1, RunningFacts, FoundIsAccepted
    <3> QED  BY <2>3, <3>1 DEF PageExact
  <2>4. CASE query.at = "returned"
    <3> DEFINE own == [limit |-> Own(stmt.layers, "limit"), offset |-> Own(stmt.layers, "offset")]
               rows == Slice(Limit(stmt, MaxRows), Offset(stmt), m)
    <3>1. m \in Nat /\ Limit(stmt, MaxRows) \in Nat /\ Offset(stmt) \in Nat
      BY <2>1, RunningFacts, BoundTypes
    <3>2. query.limit = Limit(stmt, MaxRows) /\ query.offset = Offset(stmt)
      BY <2>4 DEF StatementInv, Running
    <3>3. query.rows = rows
      BY <2>1, <2>2, <2>4, <3>2, RunningFacts DEF PageInv
    <3>4. rows = {i \in Left(own, m) : i <= Offset(stmt) + MaxRows}
      BY <2>1, <3>1, RunningFacts, PageOfOwn
    <3>5. query.total = m
      BY <2>2, <2>4 DEF PageInv
    <3>6. query.facts.returned # Missing => (query.facts.truncated <=> query.rows # 1..m)
      <4>1. Cardinality(rows) < m <=> rows # 1..m
        BY <3>1, SliceSize
      <4>2. query.facts = ResultFacts
        BY <2>4 DEF PageInv
      <4>3. query.facts.returned # Missing => query.facts.truncated = (Cardinality(rows) < m)
        <5>1. CASE Shape(query.base) = "rows"
          BY <3>3, <3>5, <4>2, <5>1 DEF ResultFacts
        <5>2. CASE Shape(query.base) # "rows"
          BY <4>2, <5>2 DEF ResultFacts, NoFacts
        <5> QED  BY <5>1, <5>2
      <4> QED  BY <3>3, <4>1, <4>3
    <3> QED  BY <2>4, <3>3, <3>4, <3>5, <3>6 DEF PageExact, Seen
  <2> QED  BY <2>3, <2>4
<1> QED  BY <1>1, CallInductive, PTL DEF Spec

\* Of a statement without common table expressions whose aggregates the classifier can
\* see, the number on the card is how many rows the statement lists, without its bounds,
\* or how many it counts; any other statement has none (result_shape.py).
THEOREM CountAlwaysHonest == Spec => []CountHonest
<1>1. CallInv => CountHonest
  <2> SUFFICES ASSUME StatementInv, PageInv, query.at = "returned", query.stmt.ctes = <<>>,
                      query.stmt.query.list # "aggregated", query.facts.count # Missing
               PROVE  /\ query.stmt.query.list \in Listings \cup {"count"}
                      /\ ~query.stmt.query.grouped
                      /\ query.facts.count = IF query.stmt.query.list = "count"
                                             THEN Source(query.stmt, Seen)
                                             ELSE Matches(query.stmt, Seen)
    BY DEF CallInv, CountHonest, Seen
  <2> DEFINE stmt == query.stmt
  <2>1. query.at \in Snapped
    BY DEF Snapped, Running
  <2>2. Uncut(stmt)
    BY <2>1, RunningFacts, WithoutCtesUncut
  <2>3. query.base.ctes = <<>> /\ query.base.query = stmt.query
    BY <2>1, <2>2, RunningFacts, CutKeeps DEF Uncut, With
  <2>4. query.facts = ResultFacts /\ query.total = Matches(stmt, Seen)
    BY <2>2 DEF PageInv
  <2>5. stmt.query.list \in Lists
    BY <2>1, RunningFacts DEF AllStatements, Queries
  <2>6. ~Grouping(query.base) => ~stmt.query.grouped
    BY <2>3 DEF Grouping, QueriesOf, BodyQueries
  <2>7. CASE Shape(query.base) = "match_count"
    <3>1. stmt.query.list = "count" /\ ~stmt.query.grouped
      BY <2>3, <2>6, <2>7 DEF Shape
    <3>2. query.facts.count = Counted
      BY <2>4, <2>7 DEF ResultFacts, NoFacts
    <3> QED  BY <3>1, <3>2 DEF Counted, Cell, Seen
  <2>8. CASE Shape(query.base) = "rows"
    <3>1. ~Grouping(query.base) /\ stmt.query.list \notin {"count", "figure", "windowed"}
      BY <2>3, <2>8 DEF Shape
    <3>2. stmt.query.list \in Listings /\ stmt.query.list # "count" /\ ~stmt.query.grouped
      BY <2>5, <2>6, <3>1 DEF Lists, Listings
    <3>3. query.facts.count = query.total
      BY <2>4, <2>8 DEF ResultFacts
    <3> QED  BY <2>4, <3>2, <3>3
  <2>9. CASE Shape(query.base) \notin {"match_count", "rows"}
    BY <2>4, <2>9 DEF ResultFacts, NoFacts
  <2> QED  BY <2>7, <2>8, <2>9
<1> QED  BY <1>1, CallInductive, PTL DEF Spec

-----------------------------------------------------------------------------
(* What stands at some positions of a sequence, in order.                   *)

Ranked(places, i) == Cardinality({j \in places : j <= i})
UpThrough(places, i) == {j \in places : j <= i}

\* Every position is the k-th of its set for exactly one k.
LEMMA Ranks ==
    ASSUME NEW places, IsFiniteSet(places), places \subseteq Nat
    PROVE  /\ \A i \in places : Ranked(places, i) \in 1..Cardinality(places)
           /\ \A i, j \in places : i < j => Ranked(places, i) < Ranked(places, j)
           /\ \A k \in 1..Cardinality(places) : \E i \in places : Ranked(places, i) = k
<1> DEFINE n == Cardinality(places)
<1>1. n \in Nat
  BY FS_CardinalityType
<1>2. ASSUME NEW i \in places
      PROVE  /\ IsFiniteSet(UpThrough(places, i)) /\ UpThrough(places, i) \subseteq places
             /\ Ranked(places, i) \in 1..n
  <2>1. UpThrough(places, i) \subseteq places /\ i \in UpThrough(places, i)
    BY DEF UpThrough
  <2>2. IsFiniteSet(UpThrough(places, i)) /\ Cardinality(UpThrough(places, i)) <= n
    BY <2>1, FS_Subset
  <2>3. Cardinality(UpThrough(places, i)) \in Nat /\ Cardinality(UpThrough(places, i)) # 0
    BY <2>1, <2>2, FS_CardinalityType, FS_EmptySet
  <2> QED  BY <1>1, <2>1, <2>2, <2>3 DEF Ranked, UpThrough
<1>3. ASSUME NEW i \in places, NEW j \in places, i < j
      PROVE  Ranked(places, i) < Ranked(places, j)
  <2>0. i \in Nat /\ j \in Nat /\ \A x \in places : x \in Nat
    OBVIOUS
  <2>1. UpThrough(places, i) \subseteq UpThrough(places, j)
    <3> SUFFICES ASSUME NEW x \in UpThrough(places, i)
                 PROVE  x \in UpThrough(places, j)
      OBVIOUS
    <3>1. x \in places /\ x \in Nat /\ x <= i
      BY <2>0 DEF UpThrough
    <3>2. x <= j
      BY <1>3, <2>0, <3>1
    <3> QED  BY <3>1, <3>2 DEF UpThrough
  <2>2. j \in UpThrough(places, j) /\ j \notin UpThrough(places, i)
    BY <1>3 DEF UpThrough
  <2>3. /\ Cardinality(UpThrough(places, i)) <= Cardinality(UpThrough(places, j))
        /\ Cardinality(UpThrough(places, i)) # Cardinality(UpThrough(places, j))
    BY <1>2, <2>1, <2>2, FS_Subset
  <2>4. Cardinality(UpThrough(places, i)) \in Nat /\ Cardinality(UpThrough(places, j)) \in Nat
    BY <1>2, FS_CardinalityType
  <2> QED  BY <2>3, <2>4 DEF Ranked, UpThrough
<1>4. ASSUME NEW k \in 1..n
      PROVE  \E i \in places : Ranked(places, i) = k
  <2> DEFINE rank == [i \in places |-> Ranked(places, i)]
  <2>1. rank \in [places -> 1..n]
    BY <1>2
  <2>2. \A i, j \in places : rank[i] = rank[j] => i = j
    <3> SUFFICES ASSUME NEW i \in places, NEW j \in places, rank[i] = rank[j]
                 PROVE  i = j
      OBVIOUS
    <3>1. i \in Nat /\ j \in Nat /\ Ranked(places, i) = Ranked(places, j)
      OBVIOUS
    <3>2. Ranked(places, i) \in Nat
      BY <1>1, <1>2
    <3> QED  BY <1>3, <3>1, <3>2
  <2> HIDE DEF rank
  <2>3. rank \in Injection(places, 1..n)
    BY <2>1, <2>2 DEF Injection, IsInjective
  <2>4. IsFiniteSet(1..n) /\ Cardinality(1..n) = n
    BY <1>1, FS_Interval
  <2>5. rank \in Surjection(places, 1..n)
    BY <2>3, <2>4, FS_Injection
  <2>6. PICK i \in places : rank[i] = k
    BY <2>5 DEF Surjection
  <2> QED  BY <2>6 DEF rank
<1> QED  BY <1>2, <1>3, <1>4

LEMMA KthRanked ==
    ASSUME NEW places, IsFiniteSet(places), places \subseteq Nat,
           NEW k \in 1..Cardinality(places)
    PROVE  Kth(places, k) \in places /\ Ranked(places, Kth(places, k)) = k
<1>1. \E i \in places : Ranked(places, i) = k
  BY Ranks
<1>2. \E i \in places : Cardinality({j \in places : j <= i}) = k
  BY <1>1 DEF Ranked
<1> QED  BY <1>2 DEF Kth, Ranked

\* Picked keeps the order of the sequence and drops nothing at the places.
LEMMA PickedFacts ==
    ASSUME NEW S, NEW s \in Seq(S), NEW places \in SUBSET (1..Len(s))
    PROVE  /\ Picked(s, places) \in Seq(S)
           /\ IsFiniteSet(places) /\ Len(Picked(s, places)) = Cardinality(places)
           /\ \A k \in 1..Cardinality(places) :
                 Kth(places, k) \in places /\ Picked(s, places)[k] = s[Kth(places, k)]
           /\ \A j, k \in 1..Cardinality(places) : j < k => Kth(places, j) < Kth(places, k)
           /\ \A i \in places : \E k \in 1..Cardinality(places) : Kth(places, k) = i
<1> DEFINE n == Cardinality(places)
<1>1. IsFiniteSet(places) /\ places \subseteq Nat /\ n \in Nat
  <2>1. IsFiniteSet(1..Len(s)) /\ 1..Len(s) \subseteq Nat
    BY FS_Interval
  <2>2. IsFiniteSet(places)
    BY <2>1, FS_Subset
  <2>3. n \in Nat
    BY <2>2, FS_CardinalityType
  <2> QED  BY <2>1, <2>2, <2>3
<1>2. \A k \in 1..n : Kth(places, k) \in places /\ Ranked(places, Kth(places, k)) = k
  BY <1>1, KthRanked
<1>r. \A x, y \in places : x < y => Ranked(places, x) < Ranked(places, y)
  BY <1>1, Ranks
<1>3. ASSUME NEW j \in 1..n, NEW k \in 1..n, j < k
      PROVE  Kth(places, j) < Kth(places, k)
  <2> DEFINE a == Kth(places, j)
             b == Kth(places, k)
  <2>1. /\ a \in places /\ b \in places /\ Ranked(places, a) = j /\ Ranked(places, b) = k
        /\ a \in Nat /\ b \in Nat
    BY <1>1, <1>2
  <2> HIDE DEF a, b
  <2>2. ~(b < a) /\ a # b
    BY <1>1, <1>3, <1>r, <2>1
  <2> QED  BY <2>1, <2>2 DEF a, b
<1>4. ASSUME NEW i \in places
      PROVE  \E k \in 1..n : Kth(places, k) = i
  <2> DEFINE k == Ranked(places, i)
             b == Kth(places, k)
  <2>1. k \in 1..n
    BY <1>1, Ranks
  <2>2. b \in places /\ Ranked(places, b) = k
    BY <1>2, <2>1
  <2>3. i \in Nat /\ b \in Nat
    BY <1>1, <2>2
  <2>k. k \in Nat /\ Ranked(places, i) = k
    BY <1>1, <2>1
  <2> HIDE DEF b, k
  <2>4. ~(b < i) /\ ~(i < b)
    BY <1>r, <2>k, <2>2, <2>3
  <2> QED  BY <2>1, <2>3, <2>4 DEF b, k
<1>5. /\ Picked(s, places) \in Seq(S) /\ Len(Picked(s, places)) = n
      /\ \A k \in 1..n : Picked(s, places)[k] = s[Kth(places, k)]
  <2>0. \A i \in places : i \in 1..Len(s) /\ s[i] \in S
    OBVIOUS
  <2>1. \A k \in 1..n : s[Kth(places, k)] \in S
    BY <1>2, <2>0
  <2> HIDE DEF n
  <2> QED  BY <1>1, <2>1 DEF Picked, n
<1> QED  BY <1>1, <1>2, <1>3, <1>4, <1>5

-----------------------------------------------------------------------------
(* get_job_details: the unique ids, and the three lists they are split into. *)

\* Every id that was asked for is among the unique ones, once, and they stand in the
\* order of their first places.
LEMMA UniqueFacts ==
    ASSUME NEW ids \in Seq(Ids)
    PROVE  LET u == UniqueIds(ids)
           IN  /\ u \in Seq(Ids)
               /\ \A j, k \in 1..Len(u) : u[j] = u[k] => j = k
               /\ \A k \in 1..Len(u) : \E i \in 1..Len(ids) : ids[i] = u[k]
               /\ \A i \in 1..Len(ids) : \E k \in 1..Len(u) : ids[i] = u[k]
               /\ \A j, k \in 1..Len(u) : j < k =>
                     \A y \in 1..Len(ids) : ids[y] = u[k] =>
                        \E x \in 1..(y - 1) : ids[x] = u[j]
<1> DEFINE firsts == {i \in 1..Len(ids) : \A j \in 1..(i - 1) : ids[j] # ids[i]}
           u == UniqueIds(ids)
           n == Cardinality(firsts)
<1>1. DOMAIN ids = 1..Len(ids) /\ Len(ids) \in Nat
  OBVIOUS
<1>2. u = Picked(ids, firsts)
  BY <1>1 DEF UniqueIds
<1> DEFINE place(k) == Kth(firsts, k)
<1>3. /\ u \in Seq(Ids) /\ Len(u) = n
      /\ \A k \in 1..n : place(k) \in firsts /\ u[k] = ids[place(k)]
      /\ \A j, k \in 1..n : j < k => place(j) < place(k)
      /\ \A i \in firsts : \E k \in 1..n : place(k) = i
  <2>1. firsts \in SUBSET (1..Len(ids))
    OBVIOUS
  <2> HIDE DEF firsts
  <2> QED  BY <1>2, <2>1, PickedFacts
<1>4. Len(u) \in Nat
  BY <1>3
<1>5. \A i \in firsts : i \in 1..Len(ids) /\ \A j \in 1..(i - 1) : ids[j] # ids[i]
  OBVIOUS
<1>6. \A i \in 1..Len(ids) : \E m \in firsts : m <= i /\ ids[m] = ids[i]
  <2> SUFFICES ASSUME NEW i \in 1..Len(ids)
               PROVE  \E m \in firsts : m <= i /\ ids[m] = ids[i]
    OBVIOUS
  <2> DEFINE Same == {j \in 1..Len(ids) : ids[j] = ids[i]}
  <2>1. PICK m \in Same : \A j \in Same : m <= j
    <3>1. Same \in SUBSET Nat /\ Same # {}
      OBVIOUS
    <3> HIDE DEF Same
    <3> QED  BY <3>1, LeastOne
  <2>2. \A j \in 1..(m - 1) : j \in 1..Len(ids) /\ ~(m <= j)
    OBVIOUS
  <2>3. m \in firsts
    BY <2>1, <2>2
  <2>4. i \in Same
    OBVIOUS
  <2> QED  BY <2>1, <2>3, <2>4
<1> HIDE DEF firsts, u, n
<1>7. ASSUME NEW j \in 1..Len(u), NEW k \in 1..Len(u), u[j] = u[k]
      PROVE  j = k
  <2> DEFINE a == place(j)
             b == place(k)
  <2>1. /\ a \in firsts /\ b \in firsts /\ ids[a] = ids[b]
        /\ (j < k => a < b) /\ (k < j => b < a)
    BY <1>3, <1>7
  <2> HIDE DEF a, b
  <2>2. ~(a < b) /\ ~(b < a)
    BY <1>5, <2>1
  <2> QED  BY <1>4, <2>1, <2>2
<1>8. \A k \in 1..Len(u) : \E i \in 1..Len(ids) : ids[i] = u[k]
  BY <1>3, <1>5
<1>9. ASSUME NEW i \in 1..Len(ids)
      PROVE  \E k \in 1..Len(u) : ids[i] = u[k]
  <2>1. PICK m \in firsts : ids[m] = ids[i]
    BY <1>6
  <2>2. PICK k \in 1..n : place(k) = m
    BY <1>3
  <2>3. u[k] = ids[m]
    BY <1>3, <2>2
  <2> QED  BY <1>3, <2>1, <2>3
<1>10. ASSUME NEW j \in 1..Len(u), NEW k \in 1..Len(u), j < k,
              NEW y \in 1..Len(ids), ids[y] = u[k]
       PROVE  \E x \in 1..(y - 1) : ids[x] = u[j]
  <2> DEFINE a == place(j)
             b == place(k)
  <2>1. /\ a \in firsts /\ b \in firsts /\ ids[a] = u[j] /\ ids[b] = u[k] /\ a < b
    BY <1>3, <1>10
  <2> HIDE DEF a, b
  <2>2. a \in 1..Len(ids) /\ b \in 1..Len(ids)
    BY <1>5, <2>1
  <2>3. ~(y < b)
    <3> SUFFICES ASSUME y < b PROVE FALSE
      OBVIOUS
    <3>1. y \in 1..(b - 1)
      BY <2>2
    <3> QED  BY <1>5, <1>10, <2>1, <3>1
  <2>4. a \in 1..(y - 1)
    BY <1>1, <2>1, <2>2, <2>3
  <2> QED  BY <2>1, <2>4
<1> QED
  <2>1. u \in Seq(Ids)
    BY <1>3
  <2> QED  BY <2>1, <1>7, <1>8, <1>9, <1>10 DEF u

\* What the call returned is a split of the unique ids at the tool's limit, by what
\* the table held when it was read.
DetailsInv ==
    /\ details.at = "reading" => details.asked \in Requests
    /\ details.at = "returned" =>
         LET ids == Fetched(details.asked)
         IN  /\ details.asked \in Requests
             /\ details.found =
                   Picked(ids, {i \in DOMAIN ids : ids[i] \in details.snapshot})
             /\ details.notFound =
                   Picked(ids, {i \in DOMAIN ids : ids[i] \notin details.snapshot})
             /\ details.notFetched = NotFetched(details.asked)
    /\ DOMAIN details = {"at", "kind", "asked", "snapshot", "found", "notFound", "notFetched"}

LEMMA DetailsInit == Init => DetailsInv
  BY DEF Init, DetailsInv, NoDetails

LEMMA DetailsStep == DetailsInv /\ [Next]_vars => DetailsInv'
<1> SUFFICES ASSUME DetailsInv, [Next]_vars PROVE DetailsInv'
  OBVIOUS
<1>1. CASE UNCHANGED details
  <2>1. details' = details
    BY <1>1
  <2>2. /\ Fetched(details'.asked) = Fetched(details.asked)
        /\ NotFetched(details'.asked) = NotFetched(details.asked)
    BY <2>1
  <2> QED  BY <2>1, <2>2 DEF DetailsInv
<1>2. ASSUME NEW ids \in Requests, AsksDetails(ids) PROVE DetailsInv'
  <2>1. details'.at = "reading" /\ details'.asked = ids /\ DOMAIN details' = DOMAIN details
    BY <1>2 DEF AsksDetails, DetailsInv
  <2> QED  BY <2>1 DEF DetailsInv
<1>3. CASE DetailsReturn
  <2> DEFINE ids == Fetched(details.asked)
             here == {i \in DOMAIN ids : ids[i] \in jobs}
             gone == {i \in DOMAIN ids : ids[i] \notin jobs}
  <2>1. /\ details.at = "reading"
        /\ details'.at = "returned" /\ details'.asked = details.asked /\ details'.snapshot = jobs
        /\ details'.found = Picked(ids, here) /\ details'.notFound = Picked(ids, gone)
        /\ details'.notFetched = NotFetched(details.asked) /\ DOMAIN details' = DOMAIN details
    <3> HIDE DEF here, gone
    <3> QED  BY <1>3 DEF DetailsReturn, DetailsInv, here, gone
  <2>2. Fetched(details'.asked) = ids /\ NotFetched(details'.asked) = NotFetched(details.asked)
    BY <2>1
  <2> QED  BY <2>1, <2>2 DEF DetailsInv
<1>4. CASE DetailsFailInDb \/ DetailsTooLarge
  <2>1. details'.at = "failed" /\ DOMAIN details' = DOMAIN details
    BY <1>4 DEF DetailsFailInDb, DetailsTooLarge, DetailsFail, DetailsInv
  <2> QED  BY <2>1 DEF DetailsInv
<1>5. Query \/ Ingests \/ UNCHANGED vars => UNCHANGED details
  BY DEF Query, Ingests, vars, GenerationFails, Refuses, Accepted, RefusesOrder, Opens, Fetches,
         FetchesTooMuch, Counts, RejectsSyntax, QueryFailsInDb, QueryReturns, QueryFails
<1> QED  BY <1>1, <1>2, <1>3, <1>4, <1>5 DEF Next, Details

\* The entries of three lists without repetitions that share none, one after another.
LEMMA ThreeLists ==
    ASSUME NEW S, NEW a \in Seq(S), NEW b \in Seq(S), NEW c \in Seq(S),
           \A j, k \in 1..Len(a) : a[j] = a[k] => j = k,
           \A j, k \in 1..Len(b) : b[j] = b[k] => j = k,
           \A j, k \in 1..Len(c) : c[j] = c[k] => j = k,
           \A j \in 1..Len(a), k \in 1..Len(b) : a[j] # b[k],
           \A j \in 1..Len(a), k \in 1..Len(c) : a[j] # c[k],
           \A j \in 1..Len(b), k \in 1..Len(c) : b[j] # c[k]
    PROVE  /\ IsInjective(a \o b \o c)
           /\ ToSet(a \o b \o c) = ToSet(a) \cup ToSet(b) \cup ToSet(c)
<1> DEFINE t == a \o b \o c
           m == Len(a)
           n == Len(a) + Len(b)
           l == Len(a) + Len(b) + Len(c)
<1>1. /\ m \in Nat /\ n \in Nat /\ l \in Nat /\ m <= n /\ n <= l
      /\ DOMAIN t = 1..l /\ t \in Seq(S)
  OBVIOUS
<1>2. /\ \A i \in 1..m : t[i] = a[i]
      /\ \A i \in (m + 1)..n : t[i] = b[i - m]
      /\ \A i \in (n + 1)..l : t[i] = c[i - n]
  <2>1. \A i \in 1..n : (a \o b)[i] = IF i <= m THEN a[i] ELSE b[i - m]
    OBVIOUS
  <2>2. a \o b \in Seq(S) /\ Len(a \o b) = n
    OBVIOUS
  <2>3. \A i \in 1..l : t[i] = IF i <= n THEN (a \o b)[i] ELSE c[i - n]
    BY <2>2
  <2> QED  BY <1>1, <2>1, <2>3
<1>3. /\ \A i \in 1..m : i \in 1..l
      /\ \A i \in (m + 1)..n : i \in 1..l /\ i - m \in 1..Len(b)
      /\ \A i \in (n + 1)..l : i \in 1..l /\ i - n \in 1..Len(c)
      /\ \A i \in 1..l : i \in 1..m \/ i \in (m + 1)..n \/ i \in (n + 1)..l
  BY <1>1
<1> HIDE DEF t, m, n, l
<1>4. ASSUME NEW i \in 1..l, NEW j \in 1..l, t[i] = t[j]
      PROVE  i = j
  <2>0. i \in Nat /\ j \in Nat
    BY <1>1
  <2>1. CASE i \in 1..m
    <3>1. j \in 1..m
      BY <1>2, <1>3, <1>4, <2>1 DEF m
    <3> QED  BY <1>2, <1>4, <2>1, <3>1 DEF m
  <2>2. CASE i \in (m + 1)..n
    <3>1. j \in (m + 1)..n
      BY <1>2, <1>3, <1>4, <2>2 DEF m
    <3>2. i - m = j - m
      BY <1>2, <1>3, <1>4, <2>2, <3>1
    <3> QED  BY <1>1, <2>0, <3>2
  <2>3. CASE i \in (n + 1)..l
    <3>1. j \in (n + 1)..l
      BY <1>2, <1>3, <1>4, <2>3 DEF m
    <3>2. i - n = j - n
      BY <1>2, <1>3, <1>4, <2>3, <3>1
    <3> QED  BY <1>1, <2>0, <3>2
  <2> QED  BY <1>3, <2>1, <2>2, <2>3
<1>5. IsInjective(t)
  BY <1>1, <1>4 DEF IsInjective
<1>6. ToSet(t) = ToSet(a) \cup ToSet(b) \cup ToSet(c)
  <2>1. \A x \in ToSet(t) : x \in ToSet(a) \cup ToSet(b) \cup ToSet(c)
    <3> SUFFICES ASSUME NEW i \in 1..l PROVE t[i] \in ToSet(a) \cup ToSet(b) \cup ToSet(c)
      BY <1>1 DEF ToSet
    <3> QED  BY <1>2, <1>3 DEF ToSet, m
  <2>2. \A i \in 1..Len(a) : a[i] \in ToSet(t)
    BY <1>1, <1>2, <1>3 DEF ToSet, m
  <2>3. \A i \in 1..Len(b) : b[i] \in ToSet(t)
    <3> SUFFICES ASSUME NEW i \in 1..Len(b) PROVE b[i] \in ToSet(t)
      OBVIOUS
    <3>1. i + m \in (m + 1)..n /\ (i + m) - m = i
      BY <1>1 DEF m, n
    <3>2. t[i + m] = b[i] /\ i + m \in DOMAIN t
      BY <1>1, <1>2, <1>3, <3>1
    <3> QED  BY <3>2 DEF ToSet
  <2>4. \A i \in 1..Len(c) : c[i] \in ToSet(t)
    <3> SUFFICES ASSUME NEW i \in 1..Len(c) PROVE c[i] \in ToSet(t)
      OBVIOUS
    <3>1. i + n \in (n + 1)..l /\ (i + n) - n = i
      BY <1>1 DEF n, l
    <3>2. t[i + n] = c[i] /\ i + n \in DOMAIN t
      BY <1>1, <1>2, <1>3, <3>1
    <3> QED  BY <3>2 DEF ToSet
  <2>5. /\ \A x \in ToSet(a) : x \in ToSet(t)
        /\ \A x \in ToSet(b) : x \in ToSet(t)
        /\ \A x \in ToSet(c) : x \in ToSet(t)
    <3>1. DOMAIN a = 1..Len(a) /\ DOMAIN b = 1..Len(b) /\ DOMAIN c = 1..Len(c)
      OBVIOUS
    <3>2. /\ \A x \in ToSet(a) : \E i \in 1..Len(a) : x = a[i]
          /\ \A x \in ToSet(b) : \E i \in 1..Len(b) : x = b[i]
          /\ \A x \in ToSet(c) : \E i \in 1..Len(c) : x = c[i]
      BY <3>1 DEF ToSet
    <3> QED  BY <2>2, <2>3, <2>4, <3>2
  <2> QED  BY <2>1, <2>5
<1> QED  BY <1>5, <1>6 DEF t

\* The two slices of the unique ids.
LEMMA Slices ==
    ASSUME NEW ids \in Seq(Ids)
    PROVE  LET u == UniqueIds(ids)
               f == Fetched(ids)
               o == NotFetched(ids)
               m == Cut(ids)
           IN  /\ m \in Nat /\ m <= Len(u) /\ m <= MaxDetailIds /\ (m < Len(u) => m = MaxDetailIds)
               /\ f \in Seq(Ids) /\ Len(f) = m /\ \A i \in 1..m : f[i] = u[i]
               /\ o \in Seq(Ids) /\ Len(o) = Len(u) - m
               /\ \A i \in 1..Len(o) : o[i] = u[m + i]
<1> DEFINE u == UniqueIds(ids)
           m == Cut(ids)
           n == Len(u)
<1>1. u \in Seq(Ids) /\ n \in Nat
  BY UniqueFacts
<1>2. m \in Nat /\ m <= n /\ m <= MaxDetailIds /\ (m < n => m = MaxDetailIds)
  BY <1>1, LimitsAssumption DEF Cut
<1>3. Fetched(ids) = SubSeq(u, 1, m) /\ NotFetched(ids) = SubSeq(u, m + 1, n)
  BY DEF Fetched, NotFetched
<1>4. \A i \in 1..n : u[i] \in Ids
  BY <1>1
<1> HIDE DEF u, m, n
<1>5. /\ SubSeq(u, 1, m) \in Seq(Ids) /\ Len(SubSeq(u, 1, m)) = m
      /\ \A i \in 1..m : SubSeq(u, 1, m)[i] = u[i]
  <2>1. \A i \in 1..m : u[i] \in Ids
    BY <1>1, <1>2, <1>4
  <2>2. /\ SubSeq(u, 1, m) \in Seq(Ids)
        /\ Len(SubSeq(u, 1, m)) = IF 1 <= m THEN m - 1 + 1 ELSE 0
        /\ \A i \in 1..(m - 1 + 1) : SubSeq(u, 1, m)[i] = u[1 + i - 1]
    BY <1>2, <2>1, SubSeqProperties
  <2>3. m - 1 + 1 = m /\ \A i \in 1..m : 1 + i - 1 = i
    BY <1>2
  <2>4. Len(SubSeq(u, 1, m)) = m
    BY <1>2, <2>2, <2>3
  <2>5. \A i \in 1..m : SubSeq(u, 1, m)[i] = u[i]
    BY <2>2, <2>3
  <2> QED  BY <2>2, <2>4, <2>5
<1>6. /\ SubSeq(u, m + 1, n) \in Seq(Ids) /\ Len(SubSeq(u, m + 1, n)) = n - m
      /\ \A i \in 1..(n - m) : SubSeq(u, m + 1, n)[i] = u[m + i]
  <2> DEFINE a == m + 1
  <2>1. a \in Int /\ n \in Int /\ \A i \in a..n : u[i] \in Ids
    BY <1>1, <1>2, <1>4
  <2>2. n - a + 1 = n - m /\ (a <= n <=> n - m > 0) /\ \A i \in 1..(n - m) : a + i - 1 = m + i
    BY <1>1, <1>2
  <2> HIDE DEF a
  <2>3. /\ SubSeq(u, a, n) \in Seq(Ids)
        /\ Len(SubSeq(u, a, n)) = IF a <= n THEN n - a + 1 ELSE 0
        /\ \A i \in 1..(n - a + 1) : SubSeq(u, a, n)[i] = u[a + i - 1]
    BY <2>1, SubSeqProperties
  <2>4. Len(SubSeq(u, a, n)) = n - m
    BY <1>1, <1>2, <2>2, <2>3
  <2>5. \A i \in 1..(n - m) : SubSeq(u, a, n)[i] = u[m + i]
    BY <2>2, <2>3
  <2> QED  BY <2>3, <2>4, <2>5 DEF a
<1>7. n - m \in Nat
  BY <1>1, <1>2
<1>8. /\ Len(NotFetched(ids)) = n - m /\ NotFetched(ids) \in Seq(Ids)
      /\ \A i \in 1..Len(NotFetched(ids)) : NotFetched(ids)[i] = u[m + i]
  BY <1>3, <1>6
<1>9. /\ Fetched(ids) \in Seq(Ids) /\ Len(Fetched(ids)) = m
      /\ \A i \in 1..m : Fetched(ids)[i] = u[i]
  BY <1>3, <1>5
<1> QED  BY <1>2, <1>8, <1>9 DEF u, m, n

\* A list that holds unique ids at growing places has no repetition, and keeps the
\* order in which they were asked for.
LEMMA ListFacts ==
    ASSUME NEW ids \in Seq(Ids), NEW list \in Seq(Ids), NEW at,
           \A k \in 1..Len(list) : /\ at[k] \in 1..Len(UniqueIds(ids))
                                   /\ list[k] = UniqueIds(ids)[at[k]],
           \A j, k \in 1..Len(list) : j < k => at[j] < at[k]
    PROVE  /\ \A j, k \in 1..Len(list) : list[j] = list[k] => j = k
           /\ \A j, k \in DOMAIN list : j < k =>
                 \A y \in DOMAIN ids : ids[y] = list[k] => \E x \in 1..(y - 1) : ids[x] = list[j]
<1> DEFINE u == UniqueIds(ids)
<1>1. /\ \A j, k \in 1..Len(u) : u[j] = u[k] => j = k
      /\ \A j, k \in 1..Len(u) : j < k =>
            \A y \in 1..Len(ids) : ids[y] = u[k] => \E x \in 1..(y - 1) : ids[x] = u[j]
      /\ Len(u) \in Nat
  BY UniqueFacts
<1>2. DOMAIN list = 1..Len(list) /\ DOMAIN ids = 1..Len(ids) /\ Len(list) \in Nat
  OBVIOUS
<1> HIDE DEF u
<1>3. \A k \in 1..Len(list) : at[k] \in 1..Len(u) /\ list[k] = u[at[k]]
  BY DEF u
<1>4. ASSUME NEW j \in 1..Len(list), NEW k \in 1..Len(list), list[j] = list[k]
      PROVE  j = k
  <2>1. at[j] = at[k] /\ at[j] \in Nat
    BY <1>1, <1>3, <1>4
  <2>2. ~(j < k) /\ ~(k < j)
    BY <2>1
  <2> QED  BY <2>2
<1>5. ASSUME NEW j \in 1..Len(list), NEW k \in 1..Len(list), j < k,
             NEW y \in 1..Len(ids), ids[y] = list[k]
      PROVE  \E x \in 1..(y - 1) : ids[x] = list[j]
  <2>1. at[j] < at[k]
    BY <1>5
  <2> QED  BY <1>1, <1>3, <1>5, <2>1
<1> QED  BY <1>2, <1>4, <1>5

\* Every posting asked for is accounted for exactly once, as found, not found or not
\* fetched, in the order in which it was asked for, within the limit of the tool; for
\* any request, limit and table (get_job_details.py).
THEOREM DetailsAlwaysAccounted == Spec => []DetailsAccounted
<1>1. DetailsInv => DetailsAccounted
  <2> SUFFICES ASSUME DetailsInv, details.at = "returned" PROVE DetailsAccounted
    BY DEF DetailsAccounted
  <2> DEFINE ids == details.asked
             u == UniqueIds(ids)
             f == Fetched(ids)
             m == Cut(ids)
             a == details.found
             b == details.notFound
             c == details.notFetched
             here == {i \in 1..m : f[i] \in details.snapshot}
             gone == {i \in 1..m : f[i] \notin details.snapshot}
  <2>1. ids \in Seq(Ids)
    BY IdsAssumption DEF DetailsInv
  <2>2. /\ m \in Nat /\ m <= Len(u) /\ m <= MaxDetailIds /\ (m < Len(u) => m = MaxDetailIds)
        /\ f \in Seq(Ids) /\ Len(f) = m /\ \A i \in 1..m : f[i] = u[i]
        /\ c \in Seq(Ids) /\ Len(c) = Len(u) - m /\ \A i \in 1..Len(c) : c[i] = u[m + i]
    BY <2>1, Slices DEF DetailsInv
  <2>3. a = Picked(f, here) /\ b = Picked(f, gone)
    <3>1. DOMAIN f = 1..m
      BY <2>2
    <3>2. /\ a = Picked(f, {i \in DOMAIN f : f[i] \in details.snapshot})
          /\ b = Picked(f, {i \in DOMAIN f : f[i] \notin details.snapshot})
      BY DEF DetailsInv
    <3> QED  BY <3>1, <3>2
  <2>4. /\ u \in Seq(Ids) /\ Len(u) \in Nat
        /\ \A j, k \in 1..Len(u) : u[j] = u[k] => j = k
        /\ \A k \in 1..Len(u) : \E i \in 1..Len(ids) : ids[i] = u[k]
        /\ \A i \in 1..Len(ids) : \E k \in 1..Len(u) : ids[i] = u[k]
    <3>1. /\ u \in Seq(Ids)
          /\ \A j, k \in 1..Len(u) : u[j] = u[k] => j = k
          /\ \A k \in 1..Len(u) : \E i \in 1..Len(ids) : ids[i] = u[k]
          /\ \A i \in 1..Len(ids) : \E k \in 1..Len(u) : ids[i] = u[k]
      BY <2>1, UniqueFacts
    <3>2. Len(u) \in Nat
      <4> HIDE DEF u
      <4> QED  BY <3>1
    <3> QED  BY <3>1, <3>2
  <2>5. /\ \A i \in here : i \in 1..m /\ i \in 1..Len(u) /\ f[i] \in details.snapshot
        /\ \A i \in gone : i \in 1..m /\ i \in 1..Len(u) /\ f[i] \notin details.snapshot
        /\ \A i \in 1..m : i \in here \/ i \in gone
        /\ here \in SUBSET (1..Len(f)) /\ gone \in SUBSET (1..Len(f))
    BY <2>2, <2>4
  <2>6. here \cup gone = 1..m /\ here \cap gone = {}
    OBVIOUS
  <2> HIDE DEF ids, u, f, m, a, b, c, here, gone
  <2>7. /\ a \in Seq(Ids) /\ IsFiniteSet(here) /\ Len(a) = Cardinality(here)
        /\ \A k \in 1..Len(a) : Kth(here, k) \in here /\ a[k] = f[Kth(here, k)]
        /\ \A j, k \in 1..Len(a) : j < k => Kth(here, j) < Kth(here, k)
        /\ \A i \in here : \E k \in 1..Len(a) : Kth(here, k) = i
    BY <2>2, <2>3, <2>5, PickedFacts
  <2>8. /\ b \in Seq(Ids) /\ IsFiniteSet(gone) /\ Len(b) = Cardinality(gone)
        /\ \A k \in 1..Len(b) : Kth(gone, k) \in gone /\ b[k] = f[Kth(gone, k)]
        /\ \A j, k \in 1..Len(b) : j < k => Kth(gone, j) < Kth(gone, k)
        /\ \A i \in gone : \E k \in 1..Len(b) : Kth(gone, k) = i
    BY <2>2, <2>3, <2>5, PickedFacts
  <2>9. Len(a) + Len(b) = m
    <3>1. Cardinality(here \cup gone) = Cardinality(here) + Cardinality(gone) - Cardinality({})
      BY <2>6, <2>7, <2>8, FS_Union
    <3>2. Cardinality(1..m) = m /\ Cardinality({}) = 0
      BY <2>2, FS_Interval, FS_EmptySet
    <3>3. Cardinality(here) \in Nat /\ Cardinality(gone) \in Nat
      BY <2>7, <2>8, FS_CardinalityType
    <3>4. Cardinality(here \cup gone) = m
      BY <2>6, <3>2
    <3>5. Len(a) = Cardinality(here) /\ Len(b) = Cardinality(gone)
      BY <2>7, <2>8
    <3> QED  BY <2>2, <3>1, <3>2, <3>3, <3>4, <3>5
  <2>10. /\ \A k \in 1..Len(a) : Kth(here, k) \in 1..m /\ Kth(here, k) \in 1..Len(u)
                                    /\ a[k] = u[Kth(here, k)]
         /\ \A k \in 1..Len(b) : Kth(gone, k) \in 1..m /\ Kth(gone, k) \in 1..Len(u)
                                    /\ b[k] = u[Kth(gone, k)]
         /\ \A k \in 1..Len(c) : m + k \in 1..Len(u) /\ m + k \notin 1..m /\ c[k] = u[m + k]
    <3>1. \A k \in 1..Len(c) : m + k \in 1..Len(u) /\ m + k \notin 1..m
      BY <2>2, <2>4
    <3>2. ASSUME NEW k \in 1..Len(a)
          PROVE  Kth(here, k) \in 1..m /\ Kth(here, k) \in 1..Len(u) /\ a[k] = u[Kth(here, k)]
      <4>1. Kth(here, k) \in here /\ a[k] = f[Kth(here, k)]
        BY <2>7
      <4>2. Kth(here, k) \in 1..m /\ Kth(here, k) \in 1..Len(u)
        BY <2>5, <4>1
      <4> QED  BY <2>2, <4>1, <4>2
    <3>3. ASSUME NEW k \in 1..Len(b)
          PROVE  Kth(gone, k) \in 1..m /\ Kth(gone, k) \in 1..Len(u) /\ b[k] = u[Kth(gone, k)]
      <4>1. Kth(gone, k) \in gone /\ b[k] = f[Kth(gone, k)]
        BY <2>8
      <4>2. Kth(gone, k) \in 1..m /\ Kth(gone, k) \in 1..Len(u)
        BY <2>5, <4>1
      <4> QED  BY <2>2, <4>1, <4>2
    <3>4. \A k \in 1..Len(c) : c[k] = u[m + k]
      BY <2>2
    <3> QED  BY <3>1, <3>2, <3>3, <3>4
  <2>11. /\ \A j, k \in 1..Len(a) : a[j] = a[k] => j = k
         /\ InAskedOrder(a)
    <3> DEFINE at == [k \in 1..Len(a) |-> Kth(here, k)]
    <3>1. /\ \A k \in 1..Len(a) : at[k] \in 1..Len(u) /\ a[k] = u[at[k]]
          /\ \A j, k \in 1..Len(a) : j < k => at[j] < at[k]
      BY <2>7, <2>10
    <3> HIDE DEF at
    <3> QED  BY <2>1, <2>7, <3>1, ListFacts DEF InAskedOrder, ids, u
  <2>12. /\ \A j, k \in 1..Len(b) : b[j] = b[k] => j = k
         /\ InAskedOrder(b)
    <3> DEFINE at == [k \in 1..Len(b) |-> Kth(gone, k)]
    <3>1. /\ \A k \in 1..Len(b) : at[k] \in 1..Len(u) /\ b[k] = u[at[k]]
          /\ \A j, k \in 1..Len(b) : j < k => at[j] < at[k]
      BY <2>8, <2>10
    <3> HIDE DEF at
    <3> QED  BY <2>1, <2>8, <3>1, ListFacts DEF InAskedOrder, ids, u
  <2>13. /\ \A j, k \in 1..Len(c) : c[j] = c[k] => j = k
         /\ InAskedOrder(c)
    <3> DEFINE at == [k \in 1..Len(c) |-> m + k]
    <3>1. /\ \A k \in 1..Len(c) : at[k] \in 1..Len(u) /\ c[k] = u[at[k]]
          /\ \A j, k \in 1..Len(c) : j < k => at[j] < at[k]
      BY <2>2, <2>10
    <3> HIDE DEF at
    <3> QED  BY <2>1, <2>2, <3>1, ListFacts DEF InAskedOrder, ids, u
  <2>14. /\ \A j \in 1..Len(a), k \in 1..Len(b) : a[j] # b[k]
         /\ \A j \in 1..Len(a), k \in 1..Len(c) : a[j] # c[k]
         /\ \A j \in 1..Len(b), k \in 1..Len(c) : b[j] # c[k]
    <3>1. \A i \in here : i \notin gone
      BY <2>6
    <3>2. ASSUME NEW x \in 1..Len(u), NEW y \in 1..Len(u), x # y
          PROVE  u[x] # u[y]
      <4>1. \A j, k \in 1..Len(u) : u[j] = u[k] => j = k
        BY <2>4
      <4> QED  BY <3>2, <4>1
    <3>3. ASSUME NEW j \in 1..Len(a), NEW k \in 1..Len(b) PROVE a[j] # b[k]
      <4>1. Kth(here, j) # Kth(gone, k)
        BY <2>7, <2>8, <3>1
      <4>2. /\ Kth(here, j) \in 1..Len(u) /\ a[j] = u[Kth(here, j)]
            /\ Kth(gone, k) \in 1..Len(u) /\ b[k] = u[Kth(gone, k)]
        BY <2>10
      <4> QED  BY <3>2, <4>1, <4>2
    <3>4. ASSUME NEW j \in 1..Len(a), NEW k \in 1..Len(c) PROVE a[j] # c[k]
      <4>1. Kth(here, j) # m + k
        BY <2>10
      <4> QED  BY <2>10, <3>2, <4>1
    <3>5. ASSUME NEW j \in 1..Len(b), NEW k \in 1..Len(c) PROVE b[j] # c[k]
      <4>1. Kth(gone, j) # m + k /\ b[j] = u[Kth(gone, j)] /\ c[k] = u[m + k]
        BY <2>10
      <4>2. Kth(gone, j) \in 1..Len(u) /\ m + k \in 1..Len(u)
        BY <2>10
      <4> QED  BY <3>2, <4>1, <4>2
    <3> QED  BY <3>3, <3>4, <3>5
  <2>15. /\ IsInjective(a \o b \o c)
         /\ ToSet(a \o b \o c) = ToSet(a) \cup ToSet(b) \cup ToSet(c)
    <3>1. /\ a \in Seq(Ids) /\ b \in Seq(Ids) /\ c \in Seq(Ids)
          /\ \A j, k \in 1..Len(a) : a[j] = a[k] => j = k
          /\ \A j, k \in 1..Len(b) : b[j] = b[k] => j = k
          /\ \A j, k \in 1..Len(c) : c[j] = c[k] => j = k
      BY <2>2, <2>7, <2>8, <2>11, <2>12, <2>13
    <3> QED  BY <2>14, <3>1, ThreeLists
  <2>16. /\ \A x : x \in ToSet(a) <=> \E k \in 1..Len(a) : x = a[k]
         /\ \A x : x \in ToSet(b) <=> \E k \in 1..Len(b) : x = b[k]
         /\ \A x : x \in ToSet(c) <=> \E k \in 1..Len(c) : x = c[k]
         /\ \A x : x \in ToSet(ids) <=> \E k \in 1..Len(ids) : x = ids[k]
    <3>1. DOMAIN a = 1..Len(a) /\ DOMAIN b = 1..Len(b) /\ DOMAIN c = 1..Len(c)
            /\ DOMAIN ids = 1..Len(ids)
      BY <2>1, <2>2, <2>7, <2>8
    <3> QED  BY <3>1 DEF ToSet
  <2>17. ToSet(a) \cup ToSet(b) \cup ToSet(c) = ToSet(ids)
    <3>1. ASSUME NEW x \in ToSet(a) \cup ToSet(b) \cup ToSet(c) PROVE x \in ToSet(ids)
      <4>1. \E k \in 1..Len(u) : x = u[k]
        BY <2>10, <2>16
      <4> QED  BY <2>4, <2>16, <4>1
    <3>2. ASSUME NEW x \in ToSet(ids) PROVE x \in ToSet(a) \cup ToSet(b) \cup ToSet(c)
      <4>1. PICK k \in 1..Len(u) : x = u[k]
        BY <2>4, <2>16
      <4>2. CASE k \in here
        BY <2>7, <2>10, <2>16, <4>1, <4>2
      <4>3. CASE k \in gone
        BY <2>8, <2>10, <2>16, <4>1, <4>3
      <4>4. CASE k \notin 1..m
        <5>1. k - m \in 1..Len(c) /\ m + (k - m) = k
          BY <2>2, <2>4, <4>4
        <5>2. c[k - m] = u[m + (k - m)]
          BY <2>10, <5>1
        <5> QED  BY <2>16, <4>1, <5>1, <5>2
      <4> QED  BY <2>5, <4>2, <4>3, <4>4
    <3> QED  BY <3>1, <3>2
  <2>18. ToSet(a) \subseteq details.snapshot /\ ToSet(b) \cap details.snapshot = {}
    <3>1. \A k \in 1..Len(a) : a[k] \in details.snapshot
      BY <2>5, <2>7
    <3>2. \A k \in 1..Len(b) : b[k] \notin details.snapshot
      BY <2>5, <2>8
    <3> QED  BY <2>16, <3>1, <3>2
  <2>19. c # <<>> => m = MaxDetailIds
    <3>1. c # <<>> => Len(c) > 0
      BY <2>2
    <3> QED  BY <2>2, <2>4, <3>1
  <2> QED
    BY <2>2, <2>9, <2>11, <2>12, <2>13, <2>15, <2>17, <2>18, <2>19
       DEF DetailsAccounted, ids, a, b, c
<1> QED  BY <1>1, DetailsInit, DetailsStep, PTL DEF Spec
=============================================================================
