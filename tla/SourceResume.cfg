SPECIFICATION SourceSpec
CONSTANTS
    Records = 3
    Operators = 1
    max_records = 2
    Seekable = FALSE
    MaxDeployments = 2
    None = None
INVARIANT ResumesFromCheckpoint
CHECK_DEADLOCK FALSE
