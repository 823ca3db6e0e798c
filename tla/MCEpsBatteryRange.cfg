CONSTANTS
    Switch = {0, 1, 2}
    SwitchCount = 3
    Load <- MCLoad
    BaseLoad = 3
    PanelPower = 4
    Capacity = 2
    Nominal = 28
    InitStatus <- MCInitStatus
    MaxCalls = 4
SPECIFICATION Spec
INVARIANT VoltageInRange
