SPECIFICATION AgentFairSpec
CONSTANTS
    Calls = {c1}
    MaxTokens = 1
    FailureKinds = {"rate_limited", "internal"}
PROPERTY DisconnectStopsProducer
