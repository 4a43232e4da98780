SPECIFICATION Spec
VIEW Shape
CONSTANTS
    MaxKey = 3
    Rids = 3
    MaxPage = 12
    Spare = 4
    EntrySize = 4
    ChildSize = 1
    MaxBody = 14
    NoPage = NoPage
INVARIANT Balanced
INVARIANT Ordered
INVARIANT EntriesKept
PROPERTY OnlyMergesOutgrow
