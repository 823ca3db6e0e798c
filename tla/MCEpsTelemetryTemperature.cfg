CONSTANTS
    Switch = {0, 1, 2, 3, 4, 5, 6, 7}
    Commanded = {6, 7}
    Rail <- MCRail
    StrayTemperature <- MCStrayTemperature
    SwitchVoltage <- MCSwitchVoltage
    SwitchCurrent <- MCSwitchCurrent
    InitStatus <- MCInitStatus
    BatteryVoltage <- MCBatteryVoltage
SPECIFICATION Spec
INVARIANT EPSTemperatureReported
