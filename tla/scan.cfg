SPECIFICATION FairSpec
CONSTANTS
    Users = {u1, u2}
    Nobody = nobody
    NumPtes = 4
    MaxTrimBatch = 2
    MaxTrimAttempts = 3
INVARIANT TypeOK
PROPERTIES
    NoneIsOvertaken
    ReachableIsTrimmed
