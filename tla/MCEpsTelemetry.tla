--------------------------- MODULE MCEpsTelemetry ---------------------------
(***************************************************************************)
(* EpsTelemetry with the words of the sample configuration, where two of   *)
(* the switches are on at power-up, one of them here with an error flag;   *)
(* that one and another are commanded.  The battery has voltages on both   *)
(* sides of a carry out of the least significant byte.                     *)
(***************************************************************************)
EXTENDS EpsTelemetry

MCRail == [BatteryTemperature |-> 9000, Bus3p3Voltage |-> 3300, Bus5p0Voltage |-> 5000,
           Bus12Voltage |-> 12000, SolarArrayVoltage |-> 32000,
           SolarArrayTemperature |-> 14000]
MCStrayTemperature == {0, 12000}
MCSwitchVoltage == [s \in Switch |-> IF s = 0 THEN 1230 ELSE IF s = 7 THEN 12000 ELSE 3300]
MCSwitchCurrent == [s \in Switch |-> IF s = 0 THEN 4560 ELSE IF s = 7 THEN 1230 ELSE 250]
MCInitStatus ==
    [s \in Switch |-> [flags |-> IF s \in {6, 7} THEN 1 ELSE 0,
                       state |-> IF s \in {0, 7} THEN ON ELSE OFF]]
MCBatteryVoltage == {24063, 24064, 24320}
=============================================================================
