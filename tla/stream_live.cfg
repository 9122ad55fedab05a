SPECIFICATION Spec
CONSTANTS
    Outgoing <- OneWay
    Length <- OneWayLength
    HeaderLen = 1
    SegmentLength = 2
    SendbufLen = 3
    WireLen = 12
    Params <- MCParams
    OldLinks <- MCNewLink
    Keepalives = TRUE
    Faults = {"break", "user", "idle", "cancel"}
    MaxFaults = 2
CHECK_DEADLOCK FALSE
PROPERTIES EventuallyTransmitted BothClose
