SPECIFICATION Spec
CONSTANTS
    BitsPerRow = 2
    PagesInPageFile = 7
    MaxWriteBatch = 2
    MinWriteBatch = 1
    Faulters = {f1, f2}
    NoSlot = NoSlot
INVARIANTS
    TypeOK
    SlotsOwnedOnce
    SnapshotStaysClear
    StackInBounds
    PopFindsSlot
    CounterAccounts
PROPERTIES
    ImplementsSlotPool
    EverySlotIsReused
