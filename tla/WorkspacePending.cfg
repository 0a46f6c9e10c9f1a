CONSTANTS
    Targets = {targetA, targetB}
    Clients = {client1}
    Poller = Poller
    InitJob = InitJob
    None = None
    Operations <- PendingOperations
    MaxCachedTargets = 1
    CacheTtl = 0
    AutoReloadOnPoll = FALSE
    Polling = FALSE
    MaxRuns = 2
    MaxFaults = 1
    MaxGeneration = 2
SPECIFICATION Spec
INVARIANT LoadedBelongsToTarget
