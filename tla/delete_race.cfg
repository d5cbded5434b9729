SPECIFICATION Spec
CONSTANTS
    Avatars = {"a1"}
    Workers = {"w1"}
    Sizes = {"small", "large"}
    Pictures = {"fits"}
    Decodes <- SameLimits
    NoAvatar = "none"
    MaxRetries = 1
    ReconcileBatch = 2
    AmbiguousCommits = FALSE
    MaxFaults = 0
    MaxQueued = 1
CHECK_DEADLOCK FALSE
INVARIANT DeletedAvatarLeavesNoFiles
