-------------------------- MODULE EpsDeviceProofs --------------------------
(***************************************************************************)
(* The safety of the simulated EPS against any bus master and any backdoor *)
(* operator, proved for any switches, nodes and initial status words.      *)
(***************************************************************************)
EXTENDS EpsDevice, EpsHardwareProofs

\* The reply to the last frame, when that was a telemetry request, is current.
ReplyInv ==
    request.cmd = TELEMETRY_REQUEST /\ i2c_read_valid => i2c_out_data.status = status

Inv == TypeOK /\ ReplyInv

-----------------------------------------------------------------------------
LEMMA InitInv == Init => Inv
  <1> SUFFICES ASSUME Init PROVE Inv
    OBVIOUS
  <1>1. TypeOK
    BY HardwareInitType DEF Init, TypeOK
  <1>2. ReplyInv
    BY DEF ReplyInv, Init, NoFrame, TELEMETRY_REQUEST
  <1> QED
    BY <1>1, <1>2 DEF Inv

\* A master writes a frame.
LEMMA WriteInv ==
    ASSUME Inv, NEW f \in InputFrame, Write(f)
    PROVE  Inv'
  <1>1. I2cWrite(f) /\ request' = f /\ f \in Frame
    BY InputFrameAssumption DEF Write
  <1>2. HardwareTypeOK /\ HardwareTypeOK'
    BY <1>1, WriteType DEF Inv, TypeOK
  <1>3. TypeOK'
    BY <1>1, <1>2 DEF Inv, TypeOK, Write
  <1>4. ReplyInv'
    BY <1>1, <1>2, WriteReply DEF ReplyInv
  <1> QED
    BY <1>3, <1>4 DEF Inv

\* The other callbacks: none of them touches a switch or the reply.
LEMMA OtherInv ==
    ASSUME Inv, UNCHANGED request,
           response' = response \/ \E c \in BackdoorCommand : response' = Response(c),
           \/ Tick
           \/ \E c : command_callback(c)
           \/ Shutdown
           \/ \E n \in Node : Deliver(n)
    PROVE  Inv'
  <1>1. /\ HardwareTypeOK'
        /\ UNCHANGED <<slaveVars, initialized_other_sims, status>>
    BY OtherCallbacks DEF Inv, TypeOK
  <1>2. TypeOK'
    BY <1>1 DEF Inv, TypeOK
  <1>3. ReplyInv'
    BY <1>1 DEF Inv, ReplyInv, slaveVars
  <1> QED
    BY <1>2, <1>3 DEF Inv

LEMMA NextInv == Inv /\ [Next]_vars => Inv'
  <1> SUFFICES ASSUME Inv, [Next]_vars PROVE Inv'
    OBVIOUS
  <1>1. CASE \E f \in InputFrame : Write(f)
    BY <1>1, WriteInv
  <1>2. CASE \E c \in BackdoorCommand : Operate(c)
    BY <1>2, OtherInv DEF Operate
  <1>3. CASE Own(Tick) \/ Own(Shutdown) \/ \E n \in Node : Own(Deliver(n))
    BY <1>3, OtherInv DEF Own
  <1>4. CASE UNCHANGED vars
    BY <1>4 DEF vars, hardwareVars, modeVars, slaveVars, switchVars, Inv, TypeOK,
                HardwareTypeOK, ReplyInv
  <1> QED
    BY <1>1, <1>2, <1>3, <1>4 DEF Next

(***************************************************************************)
(* The invariant holds in every reachable state.                           *)
(***************************************************************************)
THEOREM Invariance == Spec => []Inv
  BY InitInv, NextInv, PTL DEF Spec

(***************************************************************************)
(* Every variable of the device, its master and its operator stays in its  *)
(* type, whatever frames are written.                                      *)
(***************************************************************************)
THEOREM TypeCorrect == Spec => []TypeOK
  <1>1. Inv => TypeOK
    BY DEF Inv
  <1> QED
    BY Invariance, <1>1, PTL

(***************************************************************************)
(* EpsDevice is the device under a master: what it does to the device is   *)
(* what HardwareSpec allows.                                               *)
(***************************************************************************)
THEOREM IsDevice == Spec => HardwareSpec
  <1>1. Init => HardwareInit
    BY DEF Init
  <1>2. ASSUME [Next]_vars PROVE [HardwareNext]_hardwareVars
    <2>1. CASE \E f \in InputFrame : Write(f)
      BY <2>1, InputFrameAssumption DEF Write, HardwareNext
    <2>2. CASE \E c \in BackdoorCommand : Operate(c)
      BY <2>2 DEF Operate, HardwareNext
    <2>3. CASE Own(Tick) \/ Own(Shutdown) \/ \E n \in Node : Own(Deliver(n))
      BY <2>3 DEF Own, HardwareNext
    <2>4. CASE UNCHANGED vars
      BY <2>4 DEF vars
    <2> QED
      BY <1>2, <2>1, <2>2, <2>3, <2>4 DEF Next
  <1> QED
    BY <1>1, <1>2, PTL DEF Spec, HardwareSpec

(***************************************************************************)
(* The simulators are never told anything but the state of their switches, *)
(* and after the late start those whose switches are on have been told so. *)
(***************************************************************************)
THEOREM NodesTold == Spec => []NodesToldSwitchState
  <1>1. HardwareInv => NodesToldSwitchState
    BY DEF HardwareInv
  <1> QED
    BY IsDevice, HardwareInvariance, <1>1, PTL

(***************************************************************************)
(* What a master reads after a valid telemetry request is current.         *)
(***************************************************************************)
THEOREM ReadsCurrent == Spec => []ReplyIsCurrent
  <1>1. Inv => ReplyIsCurrent
    BY DEF Inv, ReplyInv, ReplyIsCurrent, I2cRead
  <1> QED
    BY Invariance, <1>1, PTL

(***************************************************************************)
(* Only the write of an intact frame that asks for it, to an enabled       *)
(* device, turns a switch on or off.                                       *)
(***************************************************************************)
THEOREM OnlyCommandsSwitch == Spec => SwitchOnlyByCommand
  <1>1. ASSUME Inv, [Next]_vars, NEW s \in Switch,
               status'[s].state # status[s].state
        PROVE  /\ enabled
               /\ request'.size = 3 /\ request'.intact
               /\ request'.cmd = s /\ request'.data = status'[s].state
    <2>1. CASE \E f \in InputFrame : Write(f)
      <3>1. PICK f \in InputFrame : Write(f)
        BY <2>1
      <3>2. /\ HardwareTypeOK /\ f \in Frame
            /\ I2cWrite(f) /\ request' = f
        BY <1>1, <3>1, InputFrameAssumption DEF Write, Inv, TypeOK
      <3>3. f.cmd = s /\ f.data = status'[s].state
        BY <1>1, <3>2, WriteStates
      <3>4. Accepts(f)
        BY <1>1, <3>2, WriteKeepsStatus
      <3> QED
        BY <3>2, <3>3, <3>4 DEF Accepts, WellFormed
    <2>2. CASE \/ \E c \in BackdoorCommand : Operate(c)
               \/ Own(Tick) \/ Own(Shutdown) \/ \E n \in Node : Own(Deliver(n))
      <3>1. UNCHANGED status
        BY <1>1, <2>2, OtherCallbacks DEF Own, Operate, Inv, TypeOK
      <3> QED
        BY <1>1, <3>1
    <2>3. CASE UNCHANGED vars
      BY <1>1, <2>3 DEF vars, hardwareVars, switchVars
    <2> QED
      BY <1>1, <2>1, <2>2, <2>3 DEF Next
  <1>2. Inv /\ [Next]_vars =>
            [\A s \in Switch :
                status'[s].state # status[s].state =>
                    /\ enabled
                    /\ request'.size = 3 /\ request'.intact
                    /\ request'.cmd = s /\ request'.data = status'[s].state]_vars
    BY <1>1
  <1> QED
    BY Invariance, <1>2, PTL DEF Spec, SwitchOnlyByCommand
=============================================================================
