SPECIFICATION Spec
CONSTANTS
    Jobs = {"job"}
    Job = "job"
    Tasks = {t1, t2}
    Ackers = {a1, a2}
    AtomicPut = FALSE
    MaxTriggers = 2
    MaxRecoveries = 1
    MaxRestarts = 1
    None = None
SYMMETRY Symmetry
INVARIANTS AcksAccounted OnlyWholeCheckpoints CompletedIsDurable
CHECK_DEADLOCK FALSE
