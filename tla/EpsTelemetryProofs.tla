------------------------- MODULE EpsTelemetryProofs -------------------------
(***************************************************************************)
(* The composing and the parsing of a telemetry reply agree, for any words *)
(* of the device and any interleaving with the time tick.                  *)
(***************************************************************************)
EXTENDS EpsTelemetry, TLAPS

(***************************************************************************)
(* The inductive invariant.                                                *)
(***************************************************************************)

\* What is being composed has the battery voltages of its time.
Composing ==
    /\ phase = "composing" =>
           voltage \in window /\ \E v \in window : out_data[0] = Msb(v)
    /\ phase = "composed" =>
           \E v, w \in window : out_data[0] = Msb(v) /\ out_data[1] = Lsb(w)

\* What has been composed would be parsed as the device is.
ComposedIsDevice ==
    phase = "composed" =>
        /\ \A name \in DOMAIN Rail : Parsed[name] = Rail[name]
        /\ \A s \in Switch : Parsed.Switch[s] = SwitchImage(s)

Inv ==
    /\ TypeOK
    /\ Composing
    /\ ComposedIsDevice
    /\ ParsedIsDevice
    /\ BatteryVoltageHalves

-----------------------------------------------------------------------------
\* A byte and a word, as the numbers between two bounds.
LEMMA ByteBounds ==
    ASSUME NEW n
    PROVE  n \in Byte <=> n \in Int /\ 0 <= n /\ n <= 255
  BY DEF Byte

LEMMA WordBounds ==
    ASSUME NEW n
    PROVE  n \in Uint16 <=> n \in Int /\ 0 <= n /\ n <= 65535
  <1>1. UINT16_MAX \in Int
    BY DEF UINT16_MAX
  <1>2. n \in Uint16 <=> n \in Int /\ 0 <= n /\ n <= UINT16_MAX
    BY <1>1 DEF Uint16
  <1> QED
    BY <1>2 DEF UINT16_MAX

\* The bytes of a word, and the word of two bytes.
LEMMA WordBytes ==
    ASSUME NEW w \in Uint16
    PROVE  /\ Msb(w) \in Byte /\ Lsb(w) \in Byte
           /\ 256 * Msb(w) + Lsb(w) = w
  <1>1. w \in Int /\ 0 <= w /\ w <= 65535
    BY WordBounds
  <1>2. /\ w \div 256 \in Int /\ 0 <= w \div 256 /\ w \div 256 <= 255
        /\ w % 256 \in Int /\ 0 <= w % 256 /\ w % 256 <= 255
        /\ 256 * (w \div 256) + (w % 256) = w
    BY <1>1
  <1>3. Msb(w) = w \div 256 /\ Lsb(w) = w % 256
    BY DEF Msb, Lsb
  <1> QED
    BY <1>2, <1>3, ByteBounds

LEMMA ByteWord ==
    ASSUME NEW x \in Byte, NEW y \in Byte
    PROVE  256 * x + y \in Uint16
  <1>1. /\ x \in Int /\ 0 <= x /\ x <= 255
        /\ y \in Int /\ 0 <= y /\ y <= 255
    BY ByteBounds
  <1>2. /\ 256 * x + y \in Int
        /\ 0 <= 256 * x + y /\ 256 * x + y <= 65535
    BY <1>1
  <1> QED
    BY <1>2, WordBounds

\* Zero is a word.
LEMMA ZeroWord == 0 \in Uint16
  <1>1. UINT16_MAX \in Nat
    BY DEF UINT16_MAX
  <1> QED
    BY <1>1 DEF Uint16

\* The words of the device.
LEMMA DeviceWords ==
    /\ \A name \in {"BatteryTemperature", "Bus3p3Voltage", "Bus5p0Voltage",
                    "Bus12Voltage", "SolarArrayVoltage", "SolarArrayTemperature"} :
           Rail[name] \in Uint16
    /\ DOMAIN Rail = {"BatteryTemperature", "Bus3p3Voltage", "Bus5p0Voltage",
                      "Bus12Voltage", "SolarArrayVoltage", "SolarArrayTemperature"}
    /\ \A s \in Switch : SwitchVoltage[s] \in Uint16 /\ SwitchCurrent[s] \in Uint16
  BY RailsAssumption DEF RailWord

\* The bytes of the rails.
LEMMA RailBytes ==
    ASSUME NEW v
    PROVE  /\ RailByte(v, 1) = Lsb(v)
           /\ RailByte(v, 2) = Msb(Rail.BatteryTemperature)
           /\ RailByte(v, 3) = Lsb(Rail.BatteryTemperature)
           /\ RailByte(v, 4) = Msb(Rail.Bus3p3Voltage)
           /\ RailByte(v, 5) = Lsb(Rail.Bus3p3Voltage)
           /\ RailByte(v, 6) = Msb(Rail.Bus5p0Voltage)
           /\ RailByte(v, 7) = Lsb(Rail.Bus5p0Voltage)
           /\ RailByte(v, 8) = Msb(Rail.Bus12Voltage)
           /\ RailByte(v, 9) = Lsb(Rail.Bus12Voltage)
           /\ RailByte(v, 10) = Msb(Rail.Bus12Voltage)
           /\ RailByte(v, 11) = Lsb(Rail.Bus12Voltage)
           /\ RailByte(v, 12) = Msb(Rail.SolarArrayVoltage)
           /\ RailByte(v, 13) = Lsb(Rail.SolarArrayVoltage)
           /\ RailByte(v, 14) = Msb(Rail.SolarArrayTemperature)
           /\ RailByte(v, 15) = Lsb(Rail.SolarArrayTemperature)
  BY DEF RailByte, RailWords

\* The byte at an offset of the words of a switch.
LEMMA SwitchOffset ==
    ASSUME NEW s \in 0..7, NEW j \in 0..5
    PROVE  /\ 16 + 6 * s + j \in 16..63
           /\ SwitchByte(16 + 6 * s + j) = SwitchBytes(s)[j + 1]
  <1>1. ((16 + 6 * s + j) - 16) \div 6 = s /\ ((16 + 6 * s + j) - 16) % 6 = j
    OBVIOUS
  <1> QED
    BY <1>1 DEF SwitchByte
-----------------------------------------------------------------------------
\* The bytes of a switch are bytes, and make its image.
LEMMA SwitchWords ==
    ASSUME TypeOK, NEW s \in Switch
    PROVE  /\ \A j \in 0..5 : SwitchBytes(s)[j + 1] \in Byte
           /\ 256 * SwitchBytes(s)[1] + SwitchBytes(s)[2] = SwitchImage(s).Voltage
           /\ 256 * SwitchBytes(s)[3] + SwitchBytes(s)[4] = SwitchImage(s).Current
           /\ 256 * SwitchBytes(s)[5] + SwitchBytes(s)[6] = SwitchImage(s).Status
  <1> DEFINE V == IF status[s].state = ON THEN SwitchVoltage[s] ELSE 0
             C == IF status[s].state = ON THEN SwitchCurrent[s] ELSE 0
             b == SwitchBytes(s)
  <1>1. V \in Uint16 /\ C \in Uint16
    BY DeviceWords, ZeroWord
  <1>2. status[s].flags \in Byte /\ status[s].state \in Byte
    BY DEF TypeOK, StatusWord, Byte, OFF, ON
  <1>3. b = <<Msb(V), Lsb(V), Msb(C), Lsb(C), status[s].flags, status[s].state>>
    BY DEF SwitchBytes
  <1>4. SwitchImage(s) = [Voltage |-> V, Current |-> C,
                          Status |-> 256 * status[s].flags + status[s].state]
    BY DEF SwitchImage
  <1> HIDE DEF V, C, b
  <1>5. /\ Msb(V) \in Byte /\ Lsb(V) \in Byte /\ 256 * Msb(V) + Lsb(V) = V
        /\ Msb(C) \in Byte /\ Lsb(C) \in Byte /\ 256 * Msb(C) + Lsb(C) = C
    BY <1>1, WordBytes
  <1>6. \A j \in 0..5 : b[j + 1] \in Byte
    BY <1>2, <1>3, <1>5
  <1> QED
    BY <1>3, <1>4, <1>5, <1>6 DEF b

\* A composed buffer has bytes ...
LEMMA ComposedBytes ==
    ASSUME TypeOK, EndReply
    PROVE  /\ out_data' \in [0..63 -> Byte]
           /\ out_data'[0] = out_data[0]
           /\ \A k \in 1..15 : out_data'[k] = RailByte(voltage, k)
           /\ \A s \in Switch : \A j \in 0..5 :
                  out_data'[16 + 6 * s + j] = SwitchBytes(s)[j + 1]
  <1>1. out_data'[0] = out_data[0]
    BY DEF EndReply
  <1>2. \A k \in 1..15 : out_data'[k] = RailByte(voltage, k)
    BY DEF EndReply
  <1>3. \A s \in Switch : \A j \in 0..5 :
            out_data'[16 + 6 * s + j] = SwitchBytes(s)[j + 1]
    BY SwitchOffset, EightSwitches DEF EndReply
  <1>4. \A k \in 1..15 : RailByte(voltage, k) \in Byte
    <2>1. \A name \in {"BatteryTemperature", "Bus3p3Voltage", "Bus5p0Voltage",
                        "Bus12Voltage", "SolarArrayVoltage", "SolarArrayTemperature"} :
              Msb(Rail[name]) \in Byte /\ Lsb(Rail[name]) \in Byte
      BY DeviceWords, WordBytes
    <2>2. Lsb(voltage) \in Byte
      BY WordBytes DEF TypeOK
    <2> QED
      BY <2>1, <2>2, RailBytes
  <1>5. \A k \in 16..63 : SwitchByte(k) \in Byte
    <2>1. ASSUME NEW k \in 16..63 PROVE SwitchByte(k) \in Byte
      <3> DEFINE s == (k - 16) \div 6
                 j == (k - 16) % 6
      <3>1. s \in 0..7 /\ j \in 0..5 /\ SwitchByte(k) = SwitchBytes(s)[j + 1]
        BY DEF SwitchByte
      <3> QED
        BY <3>1, EightSwitches, SwitchWords
    <2> QED
      BY <2>1
  <1>6. out_data[0] \in Byte
    BY DEF TypeOK
  <1>7. out_data' \in [0..63 -> Byte]
    BY <1>4, <1>5, <1>6 DEF EndReply
  <1> QED
    BY <1>1, <1>2, <1>3, <1>7

\* ... that are parsed as the device is.
LEMMA ComposedImage ==
    ASSUME TypeOK, EndReply
    PROVE  ComposedIsDevice'
  <1>1. \A name \in DOMAIN Rail : Parsed'[name] = Rail[name]
    <2>1. \A name \in DOMAIN Rail : 256 * Msb(Rail[name]) + Lsb(Rail[name]) = Rail[name]
      BY DeviceWords, WordBytes
    <2>2. /\ Parsed'.BatteryTemperature = Rail.BatteryTemperature
          /\ Parsed'.Bus3p3Voltage = Rail.Bus3p3Voltage
          /\ Parsed'.Bus5p0Voltage = Rail.Bus5p0Voltage
      BY <2>1, ComposedBytes, RailBytes, DeviceWords DEF Parsed, WordAt
    <2>3. /\ Parsed'.Bus12Voltage = Rail.Bus12Voltage
          /\ Parsed'.SolarArrayVoltage = Rail.SolarArrayVoltage
          /\ Parsed'.SolarArrayTemperature = Rail.SolarArrayTemperature
      BY <2>1, ComposedBytes, RailBytes, DeviceWords DEF Parsed, WordAt
    <2> QED
      BY <2>2, <2>3, DeviceWords
  <1>2. ASSUME NEW s \in Switch PROVE (Parsed.Switch[s] = SwitchImage(s))'
    <2> DEFINE b == SwitchBytes(s)
    <2>1. s \in 0..7
      BY EightSwitches
    <2>2. /\ out_data'[16 + 6 * s] = b[1] /\ out_data'[(16 + 6 * s) + 1] = b[2]
          /\ out_data'[18 + 6 * s] = b[3] /\ out_data'[(18 + 6 * s) + 1] = b[4]
          /\ out_data'[20 + 6 * s] = b[5] /\ out_data'[(20 + 6 * s) + 1] = b[6]
      <3>1. \A j \in 0..5 : out_data'[16 + 6 * s + j] = b[j + 1]
        BY ComposedBytes
      <3> HIDE DEF b
      <3> QED
        BY <2>1, <3>1
    <2>3. Parsed'.Switch[s] = [Voltage |-> 256 * b[1] + b[2], Current |-> 256 * b[3] + b[4],
                               Status |-> 256 * b[5] + b[6]]
      BY <2>2 DEF Parsed, WordAt
    <2>4. SwitchImage(s)' = SwitchImage(s)
      BY DEF SwitchImage, EndReply
    <2>5. SwitchImage(s) = [Voltage |-> 256 * b[1] + b[2], Current |-> 256 * b[3] + b[4],
                            Status |-> 256 * b[5] + b[6]]
      BY SwitchWords DEF SwitchImage
    <2> QED
      BY <2>3, <2>4, <2>5
  <1> QED
    BY <1>1, <1>2 DEF ComposedIsDevice

\* What is parsed is of the type of the housekeeping data.
LEMMA ParsedType ==
    ASSUME TypeOK
    PROVE  Parsed \in DeviceHKTlm
  <1>1. \A k \in 0..62 : WordAt(k) \in Uint16
    BY ByteWord DEF WordAt, TypeOK
  <1>2. \A s \in Switch : 16 + 6 * s \in 0..62 /\ 18 + 6 * s \in 0..62 /\ 20 + 6 * s \in 0..62
    BY EightSwitches
  <1>3. \A s \in Switch : [Voltage |-> WordAt(16 + 6 * s), Current |-> WordAt(18 + 6 * s),
                            Status |-> WordAt(20 + 6 * s)] \in SwitchTlm
    BY <1>1, <1>2 DEF SwitchTlm
  <1> QED
    BY <1>1, <1>3 DEF Parsed, DeviceHKTlm
-----------------------------------------------------------------------------
LEMMA InitInv == Init => Inv
  <1> SUFFICES ASSUME Init PROVE Inv
    OBVIOUS
  <1>1. NoHousekeeping \in DeviceHKTlm
    BY ZeroWord DEF NoHousekeeping, DeviceHKTlm, SwitchTlm
  <1>2. voltage \in Uint16 /\ temperature \in Uint16
    BY RailsAssumption DEF Init
  <1>3. out_data \in [0..63 -> Byte]
    BY DEF Init, Byte
  <1>4. status \in [Switch -> StatusWord]
    BY RailsAssumption DEF Init
  <1>5. TypeOK
    BY <1>1, <1>2, <1>3, <1>4 DEF Init, TypeOK
  <1>6. Composing /\ ComposedIsDevice /\ ParsedIsDevice /\ BatteryVoltageHalves
    BY DEF Init, Composing, ComposedIsDevice, ParsedIsDevice, BatteryVoltageHalves
  <1> QED
    BY <1>5, <1>6 DEF Inv

\* A command, a loss: nothing has been composed or parsed afterwards.
LEMMA IdleInv ==
    ASSUME Inv,
           \/ \E s \in Commanded, v \in {OFF, ON} : SwitchUpdate(s, v)
           \/ LoseReply
    PROVE  Inv'
  <1>1. phase' = "idle"
    BY DEF SwitchUpdate, LoseReply
  <1>2. TypeOK'
    <2>1. ASSUME NEW s \in Commanded, NEW v \in {OFF, ON}, SwitchUpdate(s, v)
          PROVE  TypeOK'
      <3>1. [flags |-> 0, state |-> v] \in StatusWord
        BY DEF StatusWord
      <3> QED
        BY <1>1, <2>1, <3>1 DEF Inv, TypeOK, SwitchUpdate
    <2>2. CASE LoseReply
      BY <1>1, <2>2 DEF Inv, TypeOK, LoseReply
    <2> QED
      BY <2>1, <2>2
  <1> QED
    BY <1>1, <1>2 DEF Inv, Composing, ComposedIsDevice, ParsedIsDevice,
                      BatteryVoltageHalves

\* The time tick.
LEMMA TickInv ==
    ASSUME Inv, NEW v \in BatteryVoltage, Tick(v)
    PROVE  Inv'
  <1>1. v \in Uint16
    BY RailsAssumption
  <1>2. TypeOK'
    BY <1>1 DEF Inv, TypeOK, Tick
  <1>3. window \subseteq window' /\ (phase = "composing" => voltage' \in window')
    BY DEF Tick
  <1>4. UNCHANGED <<phase, status, out_data, DeviceHK>>
    BY DEF Tick
  <1>5. Composing' /\ BatteryVoltageHalves'
    BY <1>3, <1>4 DEF Inv, Composing, BatteryVoltageHalves
  <1>6. ComposedIsDevice' /\ ParsedIsDevice'
    BY <1>4 DEF Inv, ComposedIsDevice, ParsedIsDevice, Parsed, WordAt, SwitchImage
  <1> QED
    BY <1>2, <1>5, <1>6 DEF Inv

\* The composing of a reply.
LEMMA BeginReplyInv ==
    ASSUME Inv, BeginReply
    PROVE  Inv'
  <1>1. Msb(voltage) \in Byte
    BY WordBytes DEF Inv, TypeOK
  <1>2. status' \in [Switch -> StatusWord]
    BY DEF Inv, TypeOK, BeginReply, StatusWord
  <1>3. TypeOK'
    BY <1>1, <1>2 DEF Inv, TypeOK, BeginReply
  <1>4. Composing'
    <2>1. out_data'[0] = Msb(voltage)
      BY DEF Inv, TypeOK, BeginReply
    <2> QED
      BY <2>1 DEF BeginReply, Composing
  <1> QED
    BY <1>3, <1>4 DEF BeginReply, Inv, ComposedIsDevice, ParsedIsDevice,
                      BatteryVoltageHalves

LEMMA EndReplyInv ==
    ASSUME Inv, EndReply
    PROVE  Inv'
  <1>1. TypeOK'
    BY ComposedBytes DEF Inv, TypeOK, EndReply
  <1>2. Composing'
    <2>1. out_data'[0] = out_data[0] /\ out_data'[1] = Lsb(voltage)
      BY ComposedBytes, RailBytes DEF Inv
    <2>2. phase = "composing" /\ phase' = "composed" /\ window' = window
      BY DEF EndReply
    <2> QED
      BY <2>1, <2>2 DEF Inv, Composing
  <1>3. ComposedIsDevice'
    BY ComposedImage DEF Inv
  <1> QED
    BY <1>1, <1>2, <1>3 DEF EndReply, Inv, ParsedIsDevice, BatteryVoltageHalves

\* The parsing.
LEMMA RequestHKInv ==
    ASSUME Inv, RequestHK
    PROVE  Inv'
  <1>1. TypeOK'
    BY ParsedType DEF Inv, TypeOK, RequestHK
  <1>2. ParsedIsDevice'
    BY DEF Inv, RequestHK, ComposedIsDevice, ParsedIsDevice, SwitchImage
  <1>3. BatteryVoltageHalves'
    <2>1. PICK v \in window, w \in window : out_data[0] = Msb(v) /\ out_data[1] = Lsb(w)
      BY DEF Inv, RequestHK, Composing
    <2>2. DeviceHK'.BatteryVoltage = 256 * Msb(v) + Lsb(w)
      BY <2>1 DEF RequestHK, Parsed, WordAt
    <2> QED
      BY <2>2 DEF RequestHK, BatteryVoltageHalves
  <1> QED
    BY <1>1, <1>2, <1>3 DEF RequestHK, Inv, Composing, ComposedIsDevice

LEMMA NextInv == Inv /\ [Next]_vars => Inv'
  <1> SUFFICES ASSUME Inv, [Next]_vars PROVE Inv'
    OBVIOUS
  <1>1. CASE (\E s \in Commanded, v \in {OFF, ON} : SwitchUpdate(s, v)) \/ LoseReply
    BY <1>1, IdleInv
  <1>2. ASSUME NEW v \in BatteryVoltage, Tick(v) PROVE Inv'
    BY <1>2, TickInv
  <1>3. CASE BeginReply
    BY <1>3, BeginReplyInv
  <1>4. CASE EndReply
    BY <1>4, EndReplyInv
  <1>5. CASE RequestHK
    BY <1>5, RequestHKInv
  <1>6. CASE UNCHANGED vars
    BY <1>6 DEF vars, Inv, TypeOK, Composing, ComposedIsDevice, ParsedIsDevice,
                BatteryVoltageHalves, Parsed, WordAt, SwitchImage
  <1> QED
    BY <1>1, <1>2, <1>3, <1>4, <1>5, <1>6 DEF Next

(***************************************************************************)
(* The invariant holds in every reachable state.                           *)
(***************************************************************************)
THEOREM Invariance == Spec => []Inv
  BY InitInv, NextInv, PTL DEF Spec

(***************************************************************************)
(* Every variable stays in its type: every byte is one, and every field of *)
(* the housekeeping data an uint16.                                        *)
(***************************************************************************)
THEOREM TypeCorrect == Spec => []TypeOK
  <1>1. Inv => TypeOK
    BY DEF Inv
  <1> QED
    BY Invariance, <1>1, PTL

(***************************************************************************)
(* What the flight software has parsed is what the device has.             *)
(***************************************************************************)
THEOREM ParsesDevice == Spec => []ParsedIsDevice
  <1>1. Inv => ParsedIsDevice
    BY DEF Inv
  <1> QED
    BY Invariance, <1>1, PTL

(***************************************************************************)
(* The battery voltage has the halves of voltages of the time of the reply.*)
(***************************************************************************)
THEOREM HalvesOfItsTime == Spec => []BatteryVoltageHalves
  <1>1. Inv => BatteryVoltageHalves
    BY DEF Inv
  <1> QED
    BY Invariance, <1>1, PTL
=============================================================================
