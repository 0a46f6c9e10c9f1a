CONSTANTS
    Targets = {targetA, targetB}
    Clients = {client1, client2}
    Poller = Poller
    InitJob = InitJob
    None = None
    Operations <- McpOperations
    MaxCachedTargets = 1
    CacheTtl = 0
    AutoReloadOnPoll = TRUE
    Polling = TRUE
    MaxRuns = 2
    MaxFaults = 1
    MaxGeneration = 2
SPECIFICATION Spec
SYMMETRY Symmetry
INVARIANTS
    TypeOK
    LoadedBelongsToTarget
    RunsBelongToTarget
    CacheBelongsToKey
    UnchangedTokenMeansExact
    OutdatedIsStale
PROPERTIES
    RefreshLoads
