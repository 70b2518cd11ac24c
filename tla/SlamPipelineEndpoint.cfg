SPECIFICATION Spec
CONSTANTS
    InitImuCount = 2
    Offset <- MCOffset
    WrapBase = 100
    ImuSteps <- MCImuSteps
    Clouds <- MCClouds
    MaxScans = 3
    Horizon = 7
INVARIANT
    WindowEndsAtScanEnd
CHECK_DEADLOCK FALSE
