SPECIFICATION FairSpec
CONSTANTS
    TMs = {m1}
    Slots = 3
    Jobs = {j1, j2}
    Parallelism = 2
    MaxCrashes = 1
    MaxLosses = 1
    MaxCancels = 1
    None = None
INVARIANT SlotsAccounted
PROPERTY CountsConverge
CHECK_DEADLOCK FALSE
