SPECIFICATION FairSpec
CONSTANTS
    Callers = {"c1", "c2", "c3"}
    FailureThreshold = 2
    HalfOpenRequests = 2
    ExclusionFreesProbe = TRUE
    MaxFailures = 5
    MaxCancels = 2
INVARIANT TypeOK
INVARIANT ProbesAreLimited
PROPERTY TripsOnFreshFailures
PROPERTY RecoversWhenHealthy
