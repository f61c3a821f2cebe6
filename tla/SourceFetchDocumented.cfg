\* One fetch, of one page of two queries; a request has two socket operations.
SPECIFICATION Spec
CONSTANTS
    Queries = 2
    Pages = 1
    Retries = 2
    Timeout = 1
    Operations = 2
    Backoff = 1
    Delay = 1
    MaxElapsed = 4
    CacheTtl = 3
    Allow404 = TRUE
    Ids = {a}
    MaxHits = 1
    MaxFetches = 1
    MaxGap = 0
INVARIANT DocumentedBound
