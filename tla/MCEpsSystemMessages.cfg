\* Three messages of any kind, and counters that wrap at two.
CONSTANTS
    n0 = n0
    n1 = n1
    Switch = {0, 1}
    Node = {n0, n1}
    NodeOf <- MCNodeOf
    InitStatus <- MCInitStatus
    MaxSample = 0
    MaxOutbox = 1
    InputMessage <- MCEveryMessage
    PipeDepth = 2
    CounterModulus = 2
    MaxMessages = 3
SPECIFICATION Spec
INVARIANTS TypeOK CountersAddUp RequestsAccountedFor
PROPERTIES SwitchOnlyByGroundCommand EveryRequestAnswered
\* The application may have exited and the simulator may have been stopped.
CHECK_DEADLOCK FALSE
