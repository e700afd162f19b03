SPECIFICATION FairSpec
CONSTANTS
    FRAMES_PER_MODE = 6
    LAG = 2
    BYTES = 4
    PAGE = 2
    STROKE = 2
INVARIANTS
    TypeOK
    OldPixels
    TextPageTrue
    PictureWhole
    Paced
PROPERTIES
    EveryModeGetsItsTurn
    EveryDemoDrawn
