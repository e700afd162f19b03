\* The frame and the registers of the hardware, a host that meets its deadlines.
SPECIFICATION FairSpec
CONSTANTS
    NWORDS = 8
    WORD_COLS = 4
    V_FRONT = 19
    V_SYNC = 3
    V_BACK = 48
    V_ACTIVE = 192
    FRAMES_PER_MODE = 2
    MAY_BE_LATE = FALSE
    MAIN_PRINTS = FALSE
INVARIANTS TypeOK CleanFrame LineNumberTrue VblankSeen
PROPERTIES CommandTaken ScreenSpec EveryModeShown
