SPECIFICATION LoaderSpec
CONSTANTS
    RomKeys = {"r1"}
    RamKeys = {}
    LostKeys = {}
PROPERTY ShutdownReturns
CHECK_DEADLOCK FALSE
