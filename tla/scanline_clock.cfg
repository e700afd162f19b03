SPECIFICATION Spec
CONSTANTS
    TMR0_INIT = 65
    SYNC_SHORT = 19
    SYNC_LONG = 235
    H_BACK = 150
    NCOLS = 32
INVARIANTS
    TypeOK
    NeverAsleep
    SteadyLines
    DarkBlanking
PROPERTIES
    PixelGrid
    PixelOrder
    LinesGoOn
CHECK_DEADLOCK FALSE
