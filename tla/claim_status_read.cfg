\* A prompt host; main prints its diagnostics.
SPECIFICATION Spec
CONSTANTS
    NWORDS = 1
    WORD_COLS = 1
    V_FRONT = 1
    V_SYNC = 1
    V_BACK = 1
    V_ACTIVE = 16
    FRAMES_PER_MODE = 1
    MAY_BE_LATE = FALSE
    MAIN_PRINTS = TRUE
INVARIANTS RequestAnswered
