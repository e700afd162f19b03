SPECIFICATION Spec
CONSTANTS
    NWORDS = 1
    WORD_COLS = 1
    V_FRONT = 1
    V_SYNC = 1
    V_BACK = 1
    V_ACTIVE = 18
    COMMANDS = {0, 64, 128}
INVARIANTS
    EveryLineOnBit6
