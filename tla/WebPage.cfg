CONSTANTS
    Loads = {l1, l2}
    Reloads = {h1}
    MaxVersion = 2
    MaxFaults = 1
    MaxClicks = 2
SPECIFICATION Spec
SYMMETRY Interchangeable
INVARIANTS
    ReloadIsNotBlocked
    CardIsBacked
    ShownIsSearchable
    EveryWaitIsAnswered
PROPERTIES
    NewerClickWins
    NoAutoSwitch
CHECK_DEADLOCK FALSE
