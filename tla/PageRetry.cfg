CONSTANTS
    Loads = {l1}
    Reloads = {}
    MaxVersion = 2
    MaxFaults = 2
    MaxClicks = 2
SPECIFICATION Spec
INVARIANT RetryIsOffered
