SPECIFICATION Spec
CONSTANTS
    OrigLength = 3
    Sent <- MCSent
    Faults = {"expire", "console", "crash"}
    MaxArrivals = 3
    MaxStates = 2
    MaxWaiting = 1
    MaxFaults = 1
INVARIANTS TypeOK DeliveredIsWhole NoCompleteStateWaits StateMatchesPending
PROPERTIES StoreKeepsData CompletedIsDelivered
CHECK_DEADLOCK FALSE
