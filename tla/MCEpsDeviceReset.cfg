CONSTANTS
    n0 = n0
    n1 = n1
    Switch = {0, 1}
    Node = {n0, n1}
    NodeOf <- MCNodeOf
    InitStatus <- MCInitStatus
    MaxSample = 1
    MaxOutbox = 2
    InputFrame <- MCInputFrame
SPECIFICATION Spec
INVARIANT ResetPowerCycles
CHECK_DEADLOCK FALSE
