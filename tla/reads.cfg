SPECIFICATION ReadsSpec
CONSTANTS
    Avatars = {"a1"}
    Workers = {"w1"}
    Sizes = {"small"}
    Pictures = {"fits", "broken"}
    Decodes <- SameLimits
    NoAvatar = "none"
    MaxRetries = 0
    ReconcileBatch = 1
    AmbiguousCommits = FALSE
    MaxFaults = 1
    MaxQueued = 1
    Clients = {"c1"}
CHECK_DEADLOCK FALSE
INVARIANT CurrentTagMeansCurrentCopy
INVARIANT VisibleAvatarIsServed
INVARIANT HeaderIsReadAsSpecified
