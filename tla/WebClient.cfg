\* Two turns of up to three tokens and tool frames of one call, whose result
\* counts nothing, no rows or some.
SPECIFICATION Spec
CONSTANTS
    Calls = {c1}
    Rows <- Counts
    MaxItems = 3
    MaxAsks = 2
INVARIANTS
    ShownIsWhatWasSent
    AnnouncedOnce
CHECK_DEADLOCK FALSE
