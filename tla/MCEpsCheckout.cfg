\* Any number of lines.
CONSTANTS
    n0 = n0
    n1 = n1
    BLANK = BLANK
    Switch = {0, 1}
    Node = {n0, n1}
    NodeOf <- MCNodeOf
    InitStatus <- MCInitStatus
    MaxSample = 0
    MaxOutbox = 2
    InputLine <- MCInputLine
SPECIFICATION Spec
INVARIANT TypeOK
PROPERTIES SwitchOnlyAsTyped SuccessReachesNodes PromptReturns ContractKept
\* The program may have exited and the simulator may have been stopped.
CHECK_DEADLOCK FALSE
