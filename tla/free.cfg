SPECIFICATION SeparateSpec
CONSTANTS
    NumUsers = 2
    NumLists = 2
    NumPages = 6
    FreePageCacheSize = 2
    StealBatch = 1
    MaxPruneBatch = 2
INVARIANTS
    TypeOK
    NoPageIsLost
    PageCountAccounts
    ClearFindsBit
PROPERTIES
    SearchMissesNothing
