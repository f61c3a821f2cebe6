\* Two fetches of two pages of two queries; a request has two socket operations.
SPECIFICATION Spec
CONSTANTS
    Queries = 2
    Pages = 2
    Retries = 2
    Timeout = 1
    Operations = 2
    Backoff = 1
    Delay = 1
    MaxElapsed = 4
    CacheTtl = 3
    Allow404 = TRUE
    Ids = {a}
    MaxHits = 2
    MaxFetches = 2
    MaxGap = 1
INVARIANTS
    TypeOK
    PoliteSpacing
    RequestsPermitted
    PagesAccounted
    TruncatesEvenly
    EveryPostingOnce
    FetchWithinBudget
