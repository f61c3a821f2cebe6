\* Three turns on a thread, two tool calls each, alone or in parallel; a request
\* carries two turns at most.
SPECIFICATION Spec
CONSTANTS
    Turns = {t1, t2, t3}
    MaxTurns = 2
    MaxCalls = 2
SYMMETRY TurnSymmetry
INVARIANT RequestsSound
PROPERTY HistoryKept
CHECK_DEADLOCK FALSE
