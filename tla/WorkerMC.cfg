SPECIFICATION Spec
CONSTANTS
    r1 = r1
    r2 = r2
    r3 = r3
    x = x
    y = y
    a = a
    b = b
    Requests <- Slots
    Authors <- TwoAuthors
    Bodies <- TwoBodies
    Ranges <- ThreeRanges
    Readers = {"reader"}
    MaxGen = 1
    MaxRequests = 5
    MaxTroubles = 1
SYMMETRY Symmetric
\* requests are bounded
CHECK_DEADLOCK FALSE
INVARIANT RowsHaveBodies
INVARIANT DeletedLeavesNothing
INVARIANT StoredIsAnnounced
PROPERTY RevokedGetsNothingNew
