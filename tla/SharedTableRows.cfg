SPECIFICATION Spec
CONSTANTS
    JobA = "jobA"
    JobB = "jobB"
    Tasks = {t1}
    Ackers = {a1}
    AtomicPut = TRUE
    MaxTriggers = 1
    MaxRecoveries = 0
    MaxRestarts = 0
    None = None
INVARIANT CommitsAreOwn
CHECK_DEADLOCK FALSE
