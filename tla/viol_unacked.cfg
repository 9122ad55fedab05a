SPECIFICATION Spec
CONSTANTS
    NRegs = 1
    NBundles = 2
    Custodial = {1}
    Kinds <- MCKinds
    EarlyDeletion = {TRUE}
    Calls = {}
    MaxBinds = 1
    MaxFaults = 1
INVARIANT UnackedIsKept
CHECK_DEADLOCK FALSE
