SPECIFICATION Spec
CONSTANTS
    Pages = {p1, p2, p3, p4}
    ListHead = ListHead
    Faulters = {}
    Removers = {r1, r2}
    Inserters = {i}
    NoThread = NoThread
    Nil = Nil
    BatchCapacity = 2
    InsertBatch = 2
INVARIANTS
    BatchIsTaken
