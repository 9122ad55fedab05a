SPECIFICATION Spec
CONSTANTS
    Outgoing <- OneBundle
    Length <- OneLength
    HeaderLen = 1
    SegmentLength = 2
    SendbufLen = 3
    WireLen = 2
    Params <- OnParams
    OldLinks <- MCNewLink
    Keepalives = TRUE
    Faults = {"break"}
    MaxFaults = 1
CHECK_DEADLOCK FALSE
INVARIANT AckedIsKept
