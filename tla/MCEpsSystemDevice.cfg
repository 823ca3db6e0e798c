\* Every interleaving of three messages that use the device with its faults,
\* its backdoor operator and two states of its rails.
CONSTANTS
    n0 = n0
    n1 = n1
    Switch = {0, 1}
    Node = {n0, n1}
    NodeOf <- MCNodeOf
    InitStatus <- MCInitStatus
    MaxSample = 1
    MaxOutbox = 2
    InputMessage <- MCDeviceMessage
    PipeDepth = 2
    CounterModulus = 4
    MaxMessages = 3
SPECIFICATION Spec
INVARIANTS ReplyWasComposed ConfirmedHolds ConfirmedReachesNodes HealthyMirrorsDevice
PROPERTIES TelemetryFreshOrFlagged HousekeepingNeverGoesBack ContractKept
\* The application may have exited and the simulator may have been stopped.
CHECK_DEADLOCK FALSE
