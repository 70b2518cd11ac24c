SPECIFICATION Spec
CONSTANTS
    Axes <- MCAxes
    SensorRange = 2
    SlideMargin = 3
    KeepHalfExtent = 4
    Leaf2 = 2
    CropEnabled = TRUE
    VoxelOnInsert = TRUE
    Positions <- MCPositions
    Shapes <- MCShapes
    MaxScans = 4
INVARIANTS
    TypeOK
    MapInsideCube
    CubeCoversRange
    ScansSpaced
PROPERTY
    ObservedPointsStay
CHECK_DEADLOCK FALSE
