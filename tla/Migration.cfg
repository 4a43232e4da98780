SPECIFICATION MSpec
CONSTANTS
    Conns = {c1, c2}
    Migrators = {m1, m2}
    MaxValue = 1
    MaxFaults = 0
    MaxCrashes = 1
    MaxPowerLosses = 1
    InitialDb = Empty
    OrderedMetadata = TRUE
    Empty = Empty
    Torn = Torn
    NoJournal = NoJournal
    Nobody = Nobody
    OldConns = {c1}
    HeapPages = {1, 3}
    IndexPages = {2}
INVARIANT BackupHolds
PROPERTY AtomicSerial
PROPERTY CallReturns
