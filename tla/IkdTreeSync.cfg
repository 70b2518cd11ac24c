SPECIFICATION Spec
CONSTANTS
    Points <- MCPoints
    Dim = 2
    Boxes <- MCBoxes
    Batches <- MCBatches
    Queries <- MCQueries
    MinRebuildSize = 2
    ParallelRebuildSize = 100
    MaxNodes = 8
    BuildInFlight = FALSE
INVARIANTS
    KnnIsNearest
    BalancedWithoutWorker
