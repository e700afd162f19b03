\* Two rows of characters and a bit; every row to start from, with and without
\* an interrupt per line, bitmap, and a bit the program ignores.
SPECIFICATION Spec
CONSTANTS
    NWORDS = 2
    WORD_COLS = 1
    V_FRONT = 1
    V_SYNC = 1
    V_BACK = 1
    V_ACTIVE = 18
    COMMANDS = {0, 1, 2, 3, 4, 5, 6, 7, 8, 11, 15, 32, 128, 136}
INVARIANTS
    RendersOrder
    PendsWhenDue
    EveryLineOnBit3
