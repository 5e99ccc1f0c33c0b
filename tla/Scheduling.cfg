SPECIFICATION Spec
CONSTANTS
    NumVertices = 3
    MaxEdges = 3
    MaxParallelism = 2
    TMs = {m1, m2}
    MaxSlots = 3
    None = None
INVARIANTS SortIsTopological ChainsAreExact UpstreamFirst FluentGraphsRun NeverOvercommits
CHECK_DEADLOCK FALSE
