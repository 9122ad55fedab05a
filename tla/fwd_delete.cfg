SPECIFICATION Spec
CONSTANTS
    l1 = l1
    l2 = l2
    Links <- TwoLinks
    NoLink = NoLink
    Routes <- ByPriority
    Singleton = TRUE
    CustodyRequested = TRUE
    Reliable = TRUE
    ReactiveFrag = TRUE
    Commands = {"delete", "expire", "custody_timeout", "custody_signal", "link_cancel", "idle"}
    MaxFaults = 3
INVARIANTS
    BlocksOutliveUse
PROPERTIES
    NotQueuedOnceDeleted
CHECK_DEADLOCK FALSE
