SPECIFICATION SaveSpec
CONSTANTS
    Settle = 1
    MaxDelay = 2
    Autosaves = {TRUE}
    MaxWrites = 3
    MaxLosses = 6
INVARIANT NeverRolledBack
CHECK_DEADLOCK FALSE
