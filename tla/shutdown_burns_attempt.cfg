SPECIFICATION Spec
CONSTANTS
    Messages = {m1}
    Replicas = {r1}
    Nobody = nobody
    MaxRetries = 1
    Prefetch = 1
    MaxFaults = 0
    MaxStops = 1
CHECK_DEADLOCK FALSE
INVARIANT RejectionsAreRefusals
