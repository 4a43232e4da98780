SPECIFICATION MCSpec
CONSTANTS
    Conns = {c1, c2}
    MaxValue = 2
    MaxFaults = 2
    MaxCrashes = 1
    MaxPowerLosses = 1
    InitialDb = 0
    OrderedMetadata = TRUE
    Empty = Empty
    Torn = Torn
    NoJournal = NoJournal
    Nobody = Nobody
SYMMETRY Symmetry
INVARIANT LockHeld
INVARIANT ImagesRecover
PROPERTY WriteAhead
PROPERTY AtomicSerial
