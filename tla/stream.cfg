SPECIFICATION Spec
CONSTANTS
    Outgoing <- MCOutgoing
    Length <- MCLength
    HeaderLen = 1
    SegmentLength = 2
    SendbufLen = 3
    WireLen = 2
    Params <- MoreParams
    OldLinks <- MCNewLink
    Keepalives = TRUE
    Faults = {"break", "user", "cancel"}
    MaxFaults = 1
CHECK_DEADLOCK FALSE
INVARIANTS TypeOK NoProtocolError ReceivedIntact NotSentAgain CancelledNeverArrives
PROPERTIES ImplementsTransfer
