SPECIFICATION Spec
CONSTANTS
    MaxPage = 3
    MaxCapacity = 2
    Data = {v1, v2}
    MaxFaults = 1
    NoPage = NoPage
    Unused = Unused
    Torn = Torn
SYMMETRY Symmetry
INVARIANT CleanMatchesDisk
INVARIANT FreeUncached
PROPERTY PagesKept
