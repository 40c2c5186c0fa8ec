SPECIFICATION Spec
CONSTANTS
    Local = {"mine"}
    Pulled = {}
    Runs = {"r1"}
    FirstWork <- MCFirstWork
    MaxDay = 2
    MaxVersion = 2
    MaxRuns = 2
    MaxTroubles = 0
CHECK_DEADLOCK FALSE
INVARIANT NothingTakenBack
