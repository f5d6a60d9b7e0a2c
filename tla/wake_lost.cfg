SPECIFICATION Spec
SYMMETRY Symmetry
CONSTANTS
    Users = {u1, u2}
    Frames = 4
    VAs = 6
    Slots = 4
    FreePageCacheSize = 2
    MaxWriteBatch = 4
    MaxTrimBatch = 4
    RowSurplus = 0
    LowPages = 5
    DesperatePages = 3
INVARIANTS
    WaitsOnlyWithoutPages
CHECK_DEADLOCK FALSE
