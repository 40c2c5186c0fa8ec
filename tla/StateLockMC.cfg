SPECIFICATION FairSpec
CONSTANTS
    p1 = p1
    p2 = p2
    p3 = p3
    Nobody = Nobody
    Publishers = {p1, p2, p3}
    LockWait = 1
    LockStale = 2
    MaxDeaths = 2
    MaxBreaks = 2
INVARIANT OneMorePerBreak
INVARIANT HolderOwnsFile
PROPERTY OrphanIsBroken
