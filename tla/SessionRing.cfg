SPECIFICATION FairSession
CONSTANTS
    PortCount = 2
    Byte = {"x", "ff"}
    Ones = "ff"
    MultiCycles <- MCMultiCycles
    NormalCycles <- MCNormalCycles
    Slices = TRUE
    Lookahead = 2
    WakeLatency = 1
    Costs = {0, 2}
    EventPeriod = 3
    FrameCycles = 5
    ZeroPassLimit = 1
    Enabled <- MCEnabled
    Registers <- RingTraffic
    MaxCycle = 10
INVARIANTS NeverCrosses CpuStartsAtRendezvous NoInterruptBehind BoundaryLoads
CHECK_DEADLOCK FALSE
PROPERTIES TransferEnds HaltedWakes
