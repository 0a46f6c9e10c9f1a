CONSTANTS
    Targets = {targetA, targetB, targetC}
    Clients = {client1}
    Poller = Poller
    InitJob = InitJob
    None = None
    Operations <- McpOperations
    MaxCachedTargets = 2
    CacheTtl = 1
    AutoReloadOnPoll = TRUE
    Polling = FALSE
    MaxRuns = 2
    MaxFaults = 0
    MaxGeneration = 3
SPECIFICATION Spec
SYMMETRY Symmetry
INVARIANTS
    CacheIsLRU
PROPERTIES
   NoExpiredHit
   ImplementsSession
