\* A last run and a new one, three states of the working tree, and one run that a
\* hand edits or an interruption leaves.
SPECIFICATION Spec
CONSTANTS
    Labels = {"last", "new"}
    Questions = {"listing", "safety"}
    Trees <- MCTrees
    Turns <- MCTurns
    Generated <- MCGenerated
    Explanations <- MCExplanations
    MaxTouched = 1
INVARIANTS
    CommandsKeepTheBinding
    VerdictsHold
CHECK_DEADLOCK FALSE
