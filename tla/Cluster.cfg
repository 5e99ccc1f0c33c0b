SPECIFICATION Spec
CONSTANTS
    TMs = {m1, m2}
    Slots = 3
    Jobs = {j1, j2}
    Parallelism = 2
    MaxCrashes = 0
    MaxLosses = 0
    MaxCancels = 0
    None = None
SYMMETRY JobSymmetry
INVARIANTS AcceptedJobsRun DeployedInOrder
CHECK_DEADLOCK FALSE
