SPECIFICATION FairSpec
CONSTANTS
    Messages = {m1, m2}
    Replicas = {r1}
    Nobody = nobody
    MaxRetries = 2
    Prefetch = 2
    MaxFaults = 1
    MaxStops = 1
CHECK_DEADLOCK FALSE
INVARIANT TypeOK
INVARIANT NoMessageLost
INVARIANT ParkedOncePerFault
INVARIANT ParkedOnlyWhenExhausted
INVARIANT AttemptsAreBounded
PROPERTY EveryMessageSettles
PROPERTY StopCompletes
