CONSTANTS
    Targets = {targetA, targetB}
    Clients = {client1}
    Poller = Poller
    InitJob = InitJob
    None = None
    Operations <- McpOperations
    MaxCachedTargets = 1
    CacheTtl = 0
    AutoReloadOnPoll = TRUE
    Polling = TRUE
    MaxRuns = 2
    MaxFaults = 1
    MaxGeneration = 1
SPECIFICATION Spec
PROPERTIES
    EveryCallSettles
    SnapshotCatchesUp
