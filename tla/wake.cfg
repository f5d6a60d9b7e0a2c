SPECIFICATION Spec
SYMMETRY Symmetry
CONSTANTS
    Users = {u1, u2}
    Frames = 2
    VAs = 3
    Slots = 4
    FreePageCacheSize = 1
    MaxWriteBatch = 2
    MaxTrimBatch = 2
    RowSurplus = 0
    LowPages = 2
    DesperatePages = 2
INVARIANTS
    TypeOK
    NothingIsLost
    ShortageKeepsWorkersAwake
    
CHECK_DEADLOCK FALSE
