SPECIFICATION Spec
CONSTANTS
    OtherEvents = {}
    UserEvents = {"Stop"}
    MaxWrites = 2
    Debounce = 1
    LockWait = 1
    MaxPublishers = 3
    MaxLength = 3
    MaxTroubles = 1
PROPERTY TheirsSurvive
INVARIANT NoPileUp
PROPERTY TailReachesStore
