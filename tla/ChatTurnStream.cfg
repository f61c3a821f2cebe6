\* Two interchangeable parallel tool calls: how their events, the tokens and the
\* end of the turn interleave.
SPECIFICATION Spec
CONSTANTS
    Calls = {c1, c2}
    MaxTokens = 1
    FailureKinds = {"rate_limited"}
SYMMETRY CallSymmetry
INVARIANTS
    TypeOK
    AnswerInOrder
    ToolCardsPaired
    NoOrphanConsumer
PROPERTY ImplementsContract
