SPECIFICATION ChainSpec
CONSTANTS
    Keys = {k1, k2}
    MaxCopies = 2
    MaxTime = 5
    Inputs <- TheInputs
    MaxReads = 4
    MaxEvents = 3
    size = 2
    slide = 1
    max_out_of_orderness = 1
    time_bound = 1
    outer_size = 2
    MaxFailures = 1
    MaxRecoveries = 1
    None = None
SYMMETRY KeySymmetry
INVARIANTS WindowsFireComplete NothingDropped JoinsExactly OuterFiresComplete SinkAccounts
PROPERTY WatermarksAdvance
CHECK_DEADLOCK FALSE
