SPECIFICATION FairSpec
CONSTANTS
    Sessions = {1, 2}
    Granted = {1}
    Schemes = {"plain", "aead"}
    Legacy = {TRUE, FALSE}
    Page = 2
    MaxLength = 1
    MaxTime = 2
    MaxDeletes = 0
    MaxTroubles = 0
INVARIANT NothingSkippedUnlessLate
PROPERTY CatchesUp
