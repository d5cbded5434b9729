SPECIFICATION FairWorkerSpec
CONSTANTS
    Consumers = {"process", "delete"}
    MaxFaults = 3
CHECK_DEADLOCK FALSE
INVARIANT WorkerTypeOK
INVARIANT NothingRunsWithoutDependencies
INVARIANT OnlyConsumersEndTheWorker
PROPERTY DeafWorkerEnds
