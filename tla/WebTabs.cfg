CONSTANTS
    Targets = {prefixA, dirB}
    LocalTargets = {dirB}
    tab = tab
    otherTab = otherTab
    timer = timer
    Handlers = {tab, otherTab, timer}
    Uses <- TwoTabs
    Boot = Boot
    None = None
    MaxRuns = 2
    MaxFaults = 1
    MaxGeneration = 2
SPECIFICATION Spec
INVARIANTS
    ConfigureTakesEffect
