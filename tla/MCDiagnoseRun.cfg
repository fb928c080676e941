CONSTANTS
    Cases = 3
    Timeout = 2
SPECIFICATION Spec
INVARIANTS TypeOK RecordsMatchResponses NoWorkerLeftBehind SnapshotWhole
PROPERTY RunEnds
CHECK_DEADLOCK FALSE
