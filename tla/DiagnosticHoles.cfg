SPECIFICATION ReplaySpec
CONSTANTS
    Capacity = 8
    SegmentFrames = 1
    Segments = 3
    MaxFrames = 4
    MaxRestores = 0
INVARIANT MatchedMeansAll
CHECK_DEADLOCK FALSE
