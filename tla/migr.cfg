CONSTANTS
    N = 3
    Rebuild = 2
    MaxBackups = 2
    StaleAfter = 2
    MaxTime = 4
    MaxRows = 2
    MaxFaults = 2
SPECIFICATION Spec
CHECK_DEADLOCK FALSE
INVARIANTS RowsKept SchemaReady RefusedOnlyAfterGap SnapshotFirst
