SPECIFICATION FairSpec
CONSTANTS
    InitImuCount = 2
    Offset <- MCOffset
    WrapBase = 100
    ImuSteps <- MCImuSteps
    Clouds <- MCClouds
    MaxScans = 3
    Horizon = 7
INVARIANTS
    TypeOK
    ResultsAdvance
    EveryCloudAccounted
    HeadWaitsForImu
    OnlyLongScansThrow
    OnlyExactHitLosesTail
    WindowsSound
    PosesSound
    PointsMeetPrediction
PROPERTY
    CloudsLeave
CHECK_DEADLOCK FALSE
