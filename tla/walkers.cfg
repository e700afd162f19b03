SPECIFICATION WalkersSpec
CONSTANTS
    XMAX = 3
    YMAX = 2
    DEN = 8
    STROKE = 2
    DVD_WIDTH = 2
    DVD_HEIGHT = 1
INVARIANTS
    InVram
    LogoInFrame
PROPERTIES
    StraightLine
    StrokeEnds
    MeetsBorders
    LogoMeetsBorders
