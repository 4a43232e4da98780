SPECIFICATION Spec
CONSTANTS
    MaxTable = 2
    MaxPage = 3
    PageRoom = 4
    Rows = {"small", "large"}
    RowSize <- MCRowSize
    LegacyFile = TRUE
    NoPage = 0
    Hole = Hole
    Tomb = Tomb
    Missing = Missing
INVARIANT ChainsSound
INVARIANT OwnRidsOnly
PROPERTY RidsStable
CHECK_DEADLOCK FALSE
