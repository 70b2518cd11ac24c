SPECIFICATION FairSpec
CONSTANTS
    Runs <- MCRuns
    OffsetLimit = 5
    Parts = 2
    FloatStep = 3
    Leaf = 2
    KeySpan = 4
    InitImuCount = 2
    Offset <- MCOffset
    WrapBase = 100
    MaxScans = 5
    Horizon = 9
INVARIANTS
    TypeOK
    BagReadWhole
    FilesFollowResults
    OnlyTailUnreported
    SweepsNormalized
    CentroidsPartition
    SettingsInEffect
PROPERTY
    ProgramEnds
CHECK_DEADLOCK FALSE
