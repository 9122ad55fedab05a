SPECIFICATION Spec
CONSTANTS
    NRegs = 1
    NBundles = 2
    Custodial = {1}
    Kinds <- MCKinds
    EarlyDeletion = {FALSE, TRUE}
    Calls = {"peek", "unregister", "error", "crash"}
    MaxBinds = 1
    MaxFaults = 1
INVARIANTS TypeOK KeptUntilTaken AutoAckOnce CustodyUntilDelivered
PROPERTIES RestartReadsBack MarkedIsDelivered ExpiredGoes
CHECK_DEADLOCK FALSE
