SPECIFICATION TasksSpec
CONSTANTS
    Records = 5
    Operators = 2
    max_records = 2
    Seekable = TRUE
    MaxDeployments = 2
    None = None
    Upstreams = {u1, u2}
    Checkpoints = 2
    MaxRecords = 2
    MaxRepeats = 1
    Keys = {k1, k2}
    Values = {v1, v2}
    Callers = {c1, c2}
    MaxWrites = 2
    Absent = Absent
INVARIANTS ReadIsProcessed LossIsBounded SnapshotCoversBarriers SnapshotsInOrder NoMarksLeft CellsExact
PROPERTIES InputIsCounted SnapshotsPerKey
CHECK_DEADLOCK FALSE
