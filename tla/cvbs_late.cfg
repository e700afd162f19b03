\* A host that may answer at any time or never; a row of characters and a bit,
\* while main prints.
SPECIFICATION PiocFairSpec
CONSTANTS
    NWORDS = 1
    WORD_COLS = 2
    V_FRONT = 1
    V_SYNC = 1
    V_BACK = 1
    V_ACTIVE = 10
    FRAMES_PER_MODE = 1
    MAY_BE_LATE = TRUE
    MAIN_PRINTS = TRUE
INVARIANTS IInv CleanFrame AckIsCurrent
PROPERTIES FramesGoOn
