\* A table of up to three matching postings, pages of up to two, two groups or values,
\* and every kind of statement that the guard and the executor tell apart.  The postings are
\* interchangeable.
SPECIFICATION Spec
CONSTANTS
    Names = {"clean_jobs", "raw_jobs", "pg_class", "x"}
    SystemNames = {"pg_class"}
    Groups = 2
    Values = 2
    Ids = {j1, j2, j3}
    Statements <- MCStatements
    Requests <- MCRequests
    MaxRows = 2
    MaxDetailIds = 2
SYMMETRY IdSymmetry
INVARIANTS
    OnlyJobsRead
    PageExact
    CountHonest
    DetailsAccounted
