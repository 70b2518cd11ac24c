SPECIFICATION Spec
CONSTANTS
    p = p
    q = q
    Points <- MCPoints
    Regions <- MCRegions
    Batches <- MCBatches
    MaxCopies = 3
INVARIANTS
    TypeOK
    ReplayRestoresFrozen
PROPERTY
    ImplementsPointMap
