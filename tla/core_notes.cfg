SPECIFICATION Spec
CONSTANTS
    Users = {u1, u2}
    Trimmer = trimmer
    Writer = writer
    Ptes = {p1, p2}
    Frames = {n1}
    Slots = {n1}
    Vals = {v1}
    Zero = zero
    Nil = nil
    CacheSize = 1
    StealBatch = 1
    MaxTrimBatch = 1
    MaxWriteBatch = 1
INVARIANT SoftFaultAssertions
CHECK_DEADLOCK FALSE
