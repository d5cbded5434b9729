SPECIFICATION FairServerSpec
CONSTANTS
    Requests = {"r1", "r2"}
    DrainDelay = TRUE
    DelayCoversProbe = TRUE
    MaxSignals = 2
    MaxFaults = 2
CHECK_DEADLOCK FALSE
INVARIANT ServerTypeOK
INVARIANT NobodyTurnedAwayWhileDraining
INVARIANT CleanStopAnswersEverything
PROPERTY StopsWhenItMust
