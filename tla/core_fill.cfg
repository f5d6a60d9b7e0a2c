SPECIFICATION OrderlySpec
SYMMETRY Symmetry
CONSTANTS
    Users = {u1, u2}
    Trimmer = trimmer
    Writer = writer
    Ptes = {p1, p2}
    Frames = {f1, f2}
    Slots = {s1, s2}
    Vals = {v1}
    Zero = zero
    Nil = nil
    CacheSize = 2
    StealBatch = 2
    MaxTrimBatch = 2
    MaxWriteBatch = 2
PROPERTY FillIsPrivate
