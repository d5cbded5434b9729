SPECIFICATION NoDeletions
CONSTANTS
    Avatars = {"a1", "a2"}
    Workers = {"w1"}
    Sizes = {"small"}
    Pictures = {"fits"}
    Decodes <- SameLimits
    NoAvatar = "none"
    MaxRetries = 0
    ReconcileBatch = 1
    AmbiguousCommits = TRUE
    MaxFaults = 2
    MaxQueued = 1
CHECK_DEADLOCK FALSE
PROPERTY PendingAvatarsSettle
