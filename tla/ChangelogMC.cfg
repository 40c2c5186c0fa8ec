SPECIFICATION Spec
CONSTANTS
    Local = {"mine"}
    Pulled = {"mates"}
    Runs = {r1, r2}
    FirstWork <- MCFirstWork
    MaxDay = 2
    MaxVersion = 2
    MaxRuns = 2
    MaxTroubles = 1
    Commits = {"c"}
    MaxBeats = 1
SYMMETRY Symmetry
CHECK_DEADLOCK FALSE
INVARIANT IndexIsTrue
INVARIANT JournalSeesWhatWasPicked
INVARIANT JournalIsGrounded
