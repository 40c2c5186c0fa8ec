SPECIFICATION Spec
CONSTANTS
    MaxChunk = 2
    PrefixBytes = 1
    MaxRecoveries = 2
    Modes = {"aead"}
    Keys = {1, 2, 3, 4, 5, 6, 7, 8}
    Troubles = {"end", "lose", "spoil", "unpublish", "share"}
    MaxLength = 3
    MaxEpoch = 2
    MaxTroubles = 2
PROPERTY ConsentUnlessMisled
INVARIANT CheckpointUnlessAbandoned
INVARIANT NewGenerationUnlessTombstone
INVARIANT RefusedOnlyByTombstone
INVARIANT AddressUnlessUnsaved
INVARIANT StoreDecryptsUnlessUnsaved
INVARIANT OneRunUnlessUnsaved
