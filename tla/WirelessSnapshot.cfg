\* Adapters that host, join and send, and the snapshots they leave.
SPECIFICATION RadioSpec
CONSTANTS
    AdapterCount = 3
    Programs <- TwoPrograms
    Setups = {}
    Sizes = {16, 87}
    Masks <- TakenSlots
    Plugging = FALSE
INVARIANT SnapshotLoads
CHECK_DEADLOCK FALSE
