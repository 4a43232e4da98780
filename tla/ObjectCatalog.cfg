SPECIFICATION Spec
CONSTANTS
    TableNames = {"s", "t"}
    ViewNames = {"t", "v"}
    TriggerNames = {"g"}
    IndexNames = {"i"}
    Columns = {"a", "b"}
    MaxId = 2
    MaxTree = 2
    NoTable = "none"
INVARIANT ObjectsResolve
INVARIANT ReloadAgrees
INVARIANT ViewsResolve
INVARIANT DependenciesOwned
CHECK_DEADLOCK FALSE
