SPECIFICATION SoftSpec
SYMMETRY Symmetry
CONSTRAINT InOrder
CONSTANTS
    Pages = {p1, p2, p3, p4}
    ListHead = ListHead
    Faulters = {f1, f2}
    Removers = {r}
    Inserters = {i}
    NoThread = NoThread
    Nil = Nil
    BatchCapacity = 2
    InsertBatch = 2
INVARIANTS
    TypeOK
    LinksAgreeUntilOvertaken
    StatusIsTrue
    BatchIsTakenUntilOvertaken
    SizeCounts
    EqualNeighboursAreTheHead
PROPERTIES
    ImplementsPageQueue
