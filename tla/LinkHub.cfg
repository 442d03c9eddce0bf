SPECIFICATION MCSpec
CONSTANTS
    PortCount = 2
    Byte = {"x", "ff"}
    Ones = "ff"
    MultiCycles <- MCMultiCycles
    NormalCycles <- MCNormalCycles
    Owners <- TwoOwners
INVARIANTS LoadAccepts NoClockConflict
PROPERTY ExchangesData
CHECK_DEADLOCK FALSE
