SPECIFICATION MSpec
CONSTANTS
    Conns = {c1}
    OldConns = {c1}
    Migrators = {m1}
    MaxValue = 1
    MaxFaults = 0
    MaxCrashes = 0
    MaxPowerLosses = 0
    InitialDb = Empty
    OrderedMetadata = TRUE
    Empty = Empty
    Torn = Torn
    NoJournal = NoJournal
    Nobody = Nobody
    HeapPages = {1, 3}
    IndexPages = {2}
INVARIANT IndexesOpen
