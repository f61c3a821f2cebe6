\* Two attempts over three postings, each in two sound versions and a malformed
\* one; two postings are enough, and a third of them may be dropped.
SPECIFICATION Spec
CONSTANTS
    Runs = {r1, r2}
    Keys = {k1, k2, k3}
    Contents = {v1, v2, malformed}
    Malformed = {malformed}
    LowQuality = {}
    MinYield = 2
    MaxRejected <- OneThird
SYMMETRY RunAndKeySymmetry
INVARIANTS
    TypeOK
    CountsExact
    CompletedAddsUp
    CleanOnlyFromPassedRuns
    CleanLagsOnlyDropped
    SafetyAbortKeepsPayloads
    PingMeansLoaded
