SPECIFICATION Spec
CONSTANTS
    Avatars = {"a1"}
    Workers = {"w1"}
    Sizes = {"small", "large"}
    Pictures = {"fits", "broken"}
    Decodes <- SameLimits
    NoAvatar = "none"
    MaxRetries = 1
    ReconcileBatch = 2
    AmbiguousCommits = TRUE
    MaxFaults = 1
    MaxQueued = 1
CHECK_DEADLOCK FALSE
INVARIANT OrphansAreUnreferenced
