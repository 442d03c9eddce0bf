SPECIFICATION ServicesSpec
CONSTANTS
    Settle = 1
    MaxDelay = 2
    Autosaves = {TRUE, FALSE}
    MaxWrites = 3
    MaxLosses = 5
    Capacity = 8
    SegmentFrames = 1
    Segments = 2
    MaxFrames = 3
    MaxRestores = 1
    AdapterCount = 3
    Programs <- TwoPrograms
    Setups <- RoomSetups
    Sizes = {16, 17, 88}
    Masks <- TakenSlots
    Plugging = TRUE
INVARIANTS NothingRolledBack CleanMeansOnDisk FlushedInTime CrashGuardHolds
INVARIANTS RecordingReruns AssociationsAgree NoCycle
PROPERTIES ReplaceLosesNothing NothingLost DropsAreNoticed
ACTION_CONSTRAINT ThirdStays
CHECK_DEADLOCK FALSE
