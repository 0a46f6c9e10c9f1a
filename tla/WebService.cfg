CONSTANTS
    Targets = {prefixA, dirB}
    LocalTargets = {dirB}
    tab = tab
    otherTab = otherTab
    timer = timer
    Handlers = {tab, otherTab, timer}
    Uses <- OneTab
    Boot = Boot
    None = None
    MaxRuns = 2
    MaxFaults = 1
    MaxGeneration = 1
SPECIFICATION Spec
INVARIANTS
    CacheBelongsToVersion
    UnchangedVersionIsExact
