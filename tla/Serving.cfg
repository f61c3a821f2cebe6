\* Two lifespans of a process, two refreshes after each boot, two surfaces, a
\* managed version that matches the release text and one that drifted.
SPECIFICATION FairSpec
CONSTANTS
    Surfaces = {system, sql}
    Versions = {1, 2}
    Matching = {1}
    Turns = {t1}
    MaxLives = 2
    MaxRounds = 3
INVARIANTS
    LifespanOwnsItsResources
    TurnReadsOneSnapshot
PROPERTY LifespanEnds
CHECK_DEADLOCK FALSE
