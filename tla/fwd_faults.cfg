SPECIFICATION FairSpec
CONSTANTS
    l1 = l1
    l2 = l2
    Links <- TwoLinks
    NoLink = NoLink
    Routes <- ByPriority
    Singleton = TRUE
    CustodyRequested = TRUE
    Reliable = TRUE
    ReactiveFrag = TRUE
    Commands = {"break", "close", "congest", "custody_timeout", "custody_signal"}
    MaxFaults = 3
INVARIANTS
    TypeOK
    InFlightIsServed
    QueuedIsUnderWay
    OneLinkAtATime
    NeverStranded
    CustodyTimersMatch
PROPERTIES
    EventuallySent
CHECK_DEADLOCK FALSE
