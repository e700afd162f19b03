SPECIFICATION Spec
CONSTANTS
    RETRIES = 2
    TILES = 32
INVARIANTS
    TypeOK
    PutcharTruthful
    FaultFound
    CodeWhole
    GlyphShown
PROPERTIES
    PictureStarts
CHECK_DEADLOCK FALSE
