SPECIFICATION Spec
CONSTANTS
    Tables <- MCTables
    Columns = {"k", "r"}
    Keys = {1, 2}
    Null = Null
    MaxRid = 2
    MaxStatements = 2
    KeyConstraints <- MCKeyConstraints
    ForeignKeys <- MCForeignKeys
    Admitted <- MCAdmitted
    IndexDefs <- MCIndexDefs
    TriggerNames = {"copy", "erase", "change", "chain", "detach"}
    Triggers <- MCTriggers
    Action <- MCAction
    Statements <- MCStatements
    NoRow = NoRow
    NoTrigger = NoTrigger
    NoStore = NoStore
INVARIANT IndexesMatch
INVARIANT KeysUnique
INVARIANT ReferencesHold
INVARIANT NoReentry
INVARIANT Mirrored
