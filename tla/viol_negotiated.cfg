SPECIFICATION Spec
CONSTANTS
    Outgoing <- OneBundle
    Length <- OneLength
    HeaderLen = 1
    SegmentLength = 2
    SendbufLen = 3
    WireLen = 2
    Params <- OffParams
    OldLinks <- OldLink
    Keepalives = TRUE
    Faults = {}
    MaxFaults = 1
CHECK_DEADLOCK FALSE
INVARIANT NegotiatedAgree
