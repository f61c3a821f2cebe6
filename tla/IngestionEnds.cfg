\* Two attempts over one posting, sound or of low quality.
SPECIFICATION FairSpec
CONSTANTS
    Runs = {r1, r2}
    Keys = {k1}
    Contents = {v1, poor}
    Malformed = {}
    LowQuality = {poor}
    MinYield = 1
    MaxRejected <- OneThird
PROPERTY EveryRunEnds
