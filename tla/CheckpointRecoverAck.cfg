SPECIFICATION Spec
CONSTANTS
    Jobs = {"job"}
    Job = "job"
    Tasks = {t1, t2}
    Ackers = {a1, a2}
    AtomicPut = TRUE
    MaxTriggers = 3
    MaxRecoveries = 1
    MaxRestarts = 0
    None = None
SYMMETRY Symmetry
INVARIANT AckMatchesAttempt
CHECK_DEADLOCK FALSE
