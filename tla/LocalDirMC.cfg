SPECIFICATION Spec
CONSTANTS
    Sessions = {"edited", "other"}
    Edited = {"edited"}
    MaxLength = 2
    MaxVersion = 2
    MaxTroubles = 1
    MaxUnpublished = 1
    MaxEdits = 1
CHECK_DEADLOCK FALSE
PROPERTY ContractKept
INVARIANT EntriesHaveFiles
INVARIANT DeleteLeavesNothing
INVARIANT PublishedIsIndexed
