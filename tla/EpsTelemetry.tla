---------------------------- MODULE EpsTelemetry ----------------------------
(***************************************************************************)
(* The bytes of the telemetry reply: as create_generic_eps_data of the     *)
(* simulator composes them, while the time tick of another thread writes   *)
(* the battery voltage, and as GENERIC_EPS_RequestHK of the flight software*)
(* parses them.                                                            *)
(*                                                                         *)
(* EpsHardware makes one step of a reply and one stamp of its rails; here  *)
(* a reply takes two steps, which are the two reads of the voltage: nothing*)
(* else that it is composed of is written by another thread.  The CRC byte *)
(* is in EpsCrc, the loss of replies in EpsSystem.                         *)
(***************************************************************************)
EXTENDS EpsProtocol

CONSTANTS
    Rail,            \* the words of _bus that the constructor writes
    StrayTemperature,\* what _bus[3]._temperature may hold, which no code writes
    SwitchVoltage,   \* _switch[i]._voltage
    SwitchCurrent,   \* _switch[i]._current
    InitStatus,      \* _switch[i]._status after construction
    BatteryVoltage,  \* what the time tick may write to _bus[0]._voltage
    Commanded        \* bound: the switches that are commanded

Byte == 0..255

RailWord == [BatteryTemperature : Uint16, Bus3p3Voltage : Uint16,
             Bus5p0Voltage : Uint16, Bus12Voltage : Uint16,
             SolarArrayVoltage : Uint16, SolarArrayTemperature : Uint16]

ASSUME EightSwitches == Switch = 0..7 /\ Commanded \subseteq Switch
ASSUME RailsAssumption ==
    /\ Rail \in RailWord
    /\ StrayTemperature \subseteq Uint16
    /\ BatteryVoltage \subseteq Uint16
    /\ SwitchVoltage \in [Switch -> Uint16]
    /\ SwitchCurrent \in [Switch -> Uint16]
    /\ InitStatus \in [Switch -> StatusWord]

VARIABLES
    phase,        \* where request and reply are
    voltage,      \* _bus[0]._voltage
    temperature,  \* _bus[3]._temperature
    status,       \* _switch[i]._status
    initialized_other_sims,
    out_data,     \* the 64 data bytes of _i2c_out_data, kept between requests
    DeviceHK,     \* GENERIC_EPS_Device_HK_tlm_t
    window        \* history: the voltages while the reply was composed

vars == <<phase, voltage, temperature, status, initialized_other_sims, out_data, DeviceHK,
          window>>

SwitchTlm == [Voltage : Uint16, Current : Uint16, Status : Uint16]

DeviceHKTlm ==
    [BatteryVoltage : Uint16, BatteryTemperature : Uint16, Bus3p3Voltage : Uint16,
     Bus5p0Voltage : Uint16, Bus12Voltage : Uint16, EPSTemperature : Uint16,
     SolarArrayVoltage : Uint16, SolarArrayTemperature : Uint16,
     Switch : [Switch -> SwitchTlm]]

TypeOK ==
    /\ phase \in {"idle", "composing", "composed", "parsed"}
    /\ voltage \in Uint16
    /\ temperature \in Uint16
    /\ status \in [Switch -> StatusWord]
    /\ initialized_other_sims \in BOOLEAN
    /\ out_data \in [0..63 -> Byte]
    /\ DeviceHK \in DeviceHKTlm
    /\ window \in SUBSET Uint16

-----------------------------------------------------------------------------
\* What goes out: the words of the device, and their bytes.
Msb(w) == w \div 256

\* Faulty: the most significant byte is left in, in a buffer of words.
LsbUnmasked(w) == w

Lsb(w) == w % 256

\* The first eight words; the sixth should be a temperature.
RailWords(v) ==
    <<v, Rail.BatteryTemperature, Rail.Bus3p3Voltage, Rail.Bus5p0Voltage,
      Rail.Bus12Voltage, Rail.Bus12Voltage, Rail.SolarArrayVoltage,
      Rail.SolarArrayTemperature>>

RailByte(v, k) ==
    LET words == RailWords(v)
        w == words[(k \div 2) + 1]
    IN  IF k % 2 = 0 THEN Msb(w) ELSE Lsb(w)

\* Faulty: nothing is written of the voltage and current of a switch that is off.
SwitchBytesKept(s) ==
    LET Written(k, b) == IF status[s].state = ON THEN b ELSE out_data[16 + 6 * s + k] IN
    <<Written(0, Msb(SwitchVoltage[s])), Written(1, Lsb(SwitchVoltage[s])),
      Written(2, Msb(SwitchCurrent[s])), Written(3, Lsb(SwitchCurrent[s])),
      status[s].flags, status[s].state>>

SwitchBytes(s) ==
    LET Reported(w) == IF status[s].state = ON THEN w ELSE 0 IN
    <<Msb(Reported(SwitchVoltage[s])), Lsb(Reported(SwitchVoltage[s])),
      Msb(Reported(SwitchCurrent[s])), Lsb(Reported(SwitchCurrent[s])),
      status[s].flags, status[s].state>>

SwitchByte(k) ==
    LET bytes == SwitchBytes((k - 16) \div 6) IN bytes[((k - 16) % 6) + 1]

\* What comes in: a word at an offset of the buffer, most significant byte first.

\* Faulty: least significant byte first.
WordAtSwapped(k) == 256 * out_data[k + 1] + out_data[k]

WordAt(k) == 256 * out_data[k] + out_data[k + 1]

Parsed ==
    [BatteryVoltage |-> WordAt(0), BatteryTemperature |-> WordAt(2),
     Bus3p3Voltage |-> WordAt(4), Bus5p0Voltage |-> WordAt(6),
     Bus12Voltage |-> WordAt(8), EPSTemperature |-> WordAt(10),
     SolarArrayVoltage |-> WordAt(12), SolarArrayTemperature |-> WordAt(14),
     Switch |-> [s \in Switch |-> [Voltage |-> WordAt(16 + 6 * s),
                                   Current |-> WordAt(18 + 6 * s),
                                   Status |-> WordAt(20 + 6 * s)]]]

-----------------------------------------------------------------------------
NoHousekeeping ==
    [BatteryVoltage |-> 0, BatteryTemperature |-> 0, Bus3p3Voltage |-> 0,
     Bus5p0Voltage |-> 0, Bus12Voltage |-> 0, EPSTemperature |-> 0,
     SolarArrayVoltage |-> 0, SolarArrayTemperature |-> 0,
     Switch |-> [s \in Switch |-> [Voltage |-> 0, Current |-> 0, Status |-> 0]]]

Init ==
    /\ phase = "idle"
    /\ voltage \in BatteryVoltage
    /\ temperature \in StrayTemperature
    /\ status = InitStatus
    /\ initialized_other_sims = FALSE
    /\ out_data = [k \in 0..63 |-> 0]
    /\ DeviceHK = NoHousekeeping
    /\ window = {}

\* eps_switch_update, for a command; requests and commands share a thread.
SwitchUpdate(s, v) ==
    /\ phase \in {"idle", "parsed"}
    /\ phase' = "idle"
    /\ status' = [status EXCEPT ![s] = [flags |-> 0, state |-> v]]
    /\ UNCHANGED <<voltage, temperature, initialized_other_sims, out_data, DeviceHK, window>>

\* The time tick of update_battery_values, at any time.
Tick(v) ==
    /\ voltage' = v
    /\ window' = IF phase = "composing" THEN window \cup {v} ELSE window
    /\ UNCHANGED <<phase, temperature, status, initialized_other_sims, out_data, DeviceHK>>

\* create_generic_eps_data: the late start, and the first read of the voltage ...
BeginReply ==
    /\ phase \in {"idle", "parsed"}
    /\ phase' = "composing"
    /\ status' = [s \in Switch |->
                     IF ~initialized_other_sims /\ status[s].state = ON
                     THEN [flags |-> 0, state |-> ON] ELSE status[s]]
    /\ initialized_other_sims' = TRUE
    /\ out_data' = [out_data EXCEPT ![0] = Msb(voltage)]
    /\ window' = {voltage}
    /\ UNCHANGED <<voltage, temperature, DeviceHK>>

\* ... and the second, with everything after it.
EndReply ==
    /\ phase = "composing"
    /\ phase' = "composed"
    /\ out_data' = [k \in 0..63 |->
                       IF k = 0 THEN out_data[k]
                       ELSE IF k < 16 THEN RailByte(voltage, k)
                       ELSE SwitchByte(k)]
    /\ UNCHANGED <<voltage, temperature, status, initialized_other_sims, DeviceHK, window>>

\* GENERIC_EPS_RequestHK, when it has read the reply and its CRC matched.
RequestHK ==
    /\ phase = "composed"
    /\ phase' = "parsed"
    /\ DeviceHK' = Parsed
    /\ UNCHANGED <<voltage, temperature, status, initialized_other_sims, out_data, window>>

\* The reply is lost: whatever comes next finds the bytes of this one.
LoseReply ==
    /\ phase = "composed"
    /\ phase' = "idle"
    /\ UNCHANGED <<voltage, temperature, status, initialized_other_sims, out_data, DeviceHK,
                   window>>

Next ==
    \/ \E s \in Commanded, v \in {OFF, ON} : SwitchUpdate(s, v)
    \/ \E v \in BatteryVoltage : Tick(v)
    \/ BeginReply
    \/ EndReply
    \/ RequestHK
    \/ LoseReply

Spec == Init /\ [][Next]_vars
-----------------------------------------------------------------------------
(***************************************************************************)
(* What the flight software has parsed is what the device has: each rail   *)
(* but the voltage of the battery and the temperature of the EPS, and of   *)
(* each switch its status word, with the voltage and current of those that *)
(* are on and zeros for the others, whatever an earlier reply left in the  *)
(* buffer.  (create_generic_eps_data and GENERIC_EPS_RequestHK agree on    *)
(* every offset and on the order of the bytes.)                            *)
(***************************************************************************)
SwitchImage(s) ==
    [Voltage |-> IF status[s].state = ON THEN SwitchVoltage[s] ELSE 0,
     Current |-> IF status[s].state = ON THEN SwitchCurrent[s] ELSE 0,
     Status |-> 256 * status[s].flags + status[s].state]

ParsedIsDevice ==
    phase = "parsed" =>
        /\ \A name \in DOMAIN Rail : DeviceHK[name] = Rail[name]
        /\ \A s \in Switch : DeviceHK.Switch[s] = SwitchImage(s)

(***************************************************************************)
(* The battery voltage is read in two halves, so a tick may come between:  *)
(* what is reported then has the halves of two voltages the battery had    *)
(* while the reply was composed, and is its voltage when no tick came.     *)
(***************************************************************************)
BatteryVoltageHalves ==
    phase = "parsed" =>
        \E v, w \in window : DeviceHK.BatteryVoltage = 256 * Msb(v) + Lsb(w)

(***************************************************************************)
(* README.md:45-49, "EPS ... uint16, temperature": the word of the EPS     *)
(* temperature is the temperature of the rail it is listed with.           *)
(***************************************************************************)
EPSTemperatureReported == phase = "parsed" => DeviceHK.EPSTemperature = temperature
=============================================================================
