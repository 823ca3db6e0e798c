CONSTANTS
    n0 = n0
    n1 = n1
    Switch = {0, 1}
    Node = {n0, n1}
    NodeOf <- MCNodeOf
    InitStatus <- MCInitStatus
    MaxSample = 1
    MaxOutbox = 2
    InputFrame <- MCInputFrame
SPECIFICATION Spec
INVARIANTS TypeOK NodesToldSwitchState ReplyIsCurrent
PROPERTIES SwitchOnlyByCommand NodesEventuallyFollow
CHECK_DEADLOCK FALSE
