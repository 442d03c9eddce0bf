SPECIFICATION CodeSpec
CONSTANTS
    Prescale <- MCPrescale
    Overflow = 4
    Visible = 4
    Line = 6
    VisibleLines = 2
    Lines = 3
    SioCycles = 3
    DmaCost = 2
    Controls <- MCControls
    Reloads = {2}
    Stats <- MCStats
    Serials <- MCSerials
    Dmas <- MCDmas
    Costs = {1, 3}
    WakeDelay = 2
    MaxStores = 2
    RomKeys = {"r1", "r2"}
    RamKeys = {"w1"}
    LostKeys = {"x1"}
INVARIANTS CatchUpFiresNothing InflightIsAccounted CaptureLogsResults
PROPERTIES IsEager RequestIsAnswered
CHECK_DEADLOCK FALSE
