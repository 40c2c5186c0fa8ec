SPECIFICATION Spec
CONSTANTS
    Depth = 2
    Stores = {"a", "b"}
    DefaultStore = "b"
    NoStore = "no store"
    Publishers = {p1}
    Machines = {"no store"}
    Configs <- SmallConfigs
    Trees <- SmallTrees
    Commands = {"on", "off", "clear", "ack", "unpublish"}
    MaxLength = 2
    MaxEvents = 3
CHECK_DEADLOCK FALSE
INVARIANT TypeOK
INVARIANT ResolveIsUnanimous
PROPERTY SentIsConsented
INVARIANT UnpublishLeavesNothing
INVARIANT NothingMissingBelow
INVARIANT DestinationAsPrinted
