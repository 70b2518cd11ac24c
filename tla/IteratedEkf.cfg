SPECIFICATION CoupledFairSpec
CONSTANTS
    MaxIterations = 3
    RejectOutliers = TRUE
    NumNeighbors = 2
    ScanSizes = {0, 1, 2}
    MaxScans = 3
    MaxSteps = 2
INVARIANTS
    TypeOK
    CovarianceFollowsState
    ReportExplainsStop
    MapHoldsPosteriors
    BareMapCorrectsNothing
    PinnedExtrinsicStays
    HiddenStatesReached
PROPERTY
    ScansEnd
CHECK_DEADLOCK FALSE
