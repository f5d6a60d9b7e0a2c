SPECIFICATION SoftSpec
SYMMETRY Symmetry
CONSTANTS
    Pages = {p1, p2, p3, p4}
    ListHead = ListHead
    Faulters = {f1, f2}
    Removers = {}
    Inserters = {i}
    NoThread = NoThread
    Nil = Nil
    BatchCapacity = 2
    InsertBatch = 2
INVARIANTS
    LinksAgree
