SPECIFICATION Spec
CONSTANTS
    Files = {"f", "g"}
    Turns <- MCTurns
    MaxGoals = 3
    MaxRows = 2
    MaxEntries = 7
CHECK_DEADLOCK FALSE
INVARIANT LanesTellTheTruth
INVARIANT CandidatesAreCurrent
