SPECIFICATION LoaderSpec
CONSTANTS
    RomKeys = {"r1"}
    RamKeys = {"w1"}
    LostKeys = {}
INVARIANT NeverAdoptsOnItsOwn
CHECK_DEADLOCK FALSE
