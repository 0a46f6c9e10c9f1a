CONSTANTS
    Targets = {prefixA, dirB}
    LocalTargets = {dirB}
    tab = tab
    otherTab = otherTab
    timer = timer
    Handlers = {tab, timer}
    Uses <- PolledTab
    Boot = Boot
    None = None
    MaxRuns = 2
    MaxFaults = 1
    MaxGeneration = 1
SPECIFICATION FairSpec
PROPERTIES
    EveryRequestSettles
    NewRunIsNoticed
