CONSTANTS
    Targets = {targetA}
    Clients = {client1, client2}
    Poller = Poller
    InitJob = InitJob
    None = None
    Operations <- PublicOperations
    MaxCachedTargets = 1
    CacheTtl = 0
    AutoReloadOnPoll = FALSE
    Polling = FALSE
    MaxRuns = 2
    MaxFaults = 1
    MaxGeneration = 2
SPECIFICATION Spec
SYMMETRY Symmetry
INVARIANTS
    LoadedBelongsToTarget
