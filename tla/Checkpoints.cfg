SPECIFICATION FairSpec
CONSTANTS
    Jobs = {"job"}
    Job = "job"
    Tasks = {t1, t2}
    Ackers = {a1, a2}
    AtomicPut = TRUE
    MaxTriggers = 2
    MaxRecoveries = 0
    MaxRestarts = 0
    None = None
INVARIANTS CompletedIsRestorable AckMatchesAttempt LatestIsNewest
PROPERTIES RunningTimesOut ImplementsAtomicCheckpoint
CHECK_DEADLOCK FALSE
