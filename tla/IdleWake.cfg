\* A machine that halts with cycles its devices have not seen.
SPECIFICATION MCSpec
CONSTANTS
    Prescale <- MCPrescale
    Overflow = 4
    Visible = 4
    Line = 6
    VisibleLines = 2
    Lines = 3
    SioCycles = 3
    DmaCost = 2
    Controls = {}
    Reloads = {}
    Stats <- MCStats
    Serials = {}
    Dmas = {}
    Costs = {1, 3}
    WakeDelay = 2
    MaxStores = 2
PROPERTY WakesPromptly
CHECK_DEADLOCK FALSE
