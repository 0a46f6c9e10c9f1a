CONSTANTS
    Targets = {prefixA, dirB}
    LocalTargets = {dirB}
    tab = tab
    otherTab = otherTab
    timer = timer
    Handlers = {tab, timer}
    Uses <- Polled
    Boot = Boot
    None = None
    MaxRuns = 1
    MaxFaults = 0
    MaxGeneration = 1
SPECIFICATION Spec
PROPERTIES
    RefreshKeepsSource
