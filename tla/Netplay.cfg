\* One host with a ring of two snapshots and matches of three ticks; and two
\* seats that play seven.
SPECIFICATION NetplaySpec
CONSTANTS
    Rows <- MCRows
    Depth = 2
    MaxTick = 3
    MaxBase = 1
    Guests = {1}
    Ticks = {0, 1, 2, 3, 4, 5, 6, 7}
    States = {"a", "b"}
    NoState = "none"
    Delay = 1
    Ahead = 1
    Lead = 3
    LastTick = 7
INVARIANTS CheckpointsAreThisTimeline CandidateIsThisTimeline CacheIsCurrent
INVARIANTS PinnedBoundarySurvives RequestIsInHistory
INVARIANTS SameBoundary NeverTooLate QuiesceWhenAllHold SavedAsAgreed
CHECK_DEADLOCK FALSE
