\* A prompt host; the mode changes every other frame.
SPECIFICATION Spec
CONSTANTS
    NWORDS = 1
    WORD_COLS = 1
    V_FRONT = 1
    V_SYNC = 1
    V_BACK = 1
    V_ACTIVE = 16
    FRAMES_PER_MODE = 2
    MAY_BE_LATE = FALSE
    MAIN_PRINTS = FALSE
INVARIANTS TextRequests
