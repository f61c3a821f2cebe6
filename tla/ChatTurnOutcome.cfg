\* Every kind of failure and two tokens: what the turn is recorded, answered and
\* logged as, and that it ends.
SPECIFICATION FairSpec
CONSTANTS
    Calls = {c1}
    MaxTokens = 2
    FailureKinds = {"rate_limited", "unavailable", "internal"}
INVARIANTS
    AnswerSourceTruthful
    OutcomeMatchesStream
    ReplyMatchesStream
PROPERTIES
    OutcomeInsideSpan
    SilentAfterDisconnect
    ConnectedTurnEnds
    DisconnectTearsDown
