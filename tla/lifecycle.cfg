SPECIFICATION BoundedSpec
CONSTANTS
    Avatars = {"a1"}
    Workers = {"w1","w2"}
    Sizes = {"small","large"}
    Pictures = {"fits", "broken"}
    Decodes <- SameLimits
    NoAvatar = "none"
    MaxRetries = 1
    ReconcileBatch = 2
    AmbiguousCommits = TRUE
    MaxFaults = 3
    MaxQueued = 1
CHECK_DEADLOCK FALSE
INVARIANT TypeOK
INVARIANT ReferencedObjectsExist
INVARIANT DeletedOriginalIsTracked
PROPERTY ImplementsCatalog
PROPERTY PendingAvatarsSettle
PROPERTY DeletedOriginalIsRemoved
