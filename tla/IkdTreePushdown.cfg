SPECIFICATION Spec
CONSTANTS
    Points <- MCPoints
    Dim = 2
    Boxes <- MCBoxes
    Batches <- MCBatches
    Queries <- MCQueries
    MinRebuildSize = 2
    ParallelRebuildSize = 3
    MaxNodes = 6
    BuildInFlight = FALSE
INVARIANT
    PushdownNeverNested
