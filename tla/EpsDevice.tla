----------------------------- MODULE EpsDevice -----------------------------
(***************************************************************************)
(* The simulated EPS with an arbitrary bus master, which writes any frame  *)
(* of InputFrame at any time, and an operator at its backdoor node.        *)
(***************************************************************************)
EXTENDS EpsHardware

CONSTANT InputFrame

ASSUME InputFrameAssumption == InputFrame \subseteq Frame

VARIABLES
    request,   \* in_data of i2c_write: the last frame written
    response   \* last answer of command_callback

vars == <<hardwareVars, request, response>>

NoFrame == [size |-> 0, cmd |-> 0, data |-> 0, intact |-> FALSE]

\* The responses of command_callback, without their common prefix.
Response(c) ==
    CASE c = "HELP" -> "Valid commands are HELP, ENABLE, DISABLE, STATUS=X, or STOP"
      [] c = "ENABLE" -> "Enabled"
      [] c = "DISABLE" -> "Disabled"
      [] c = "STOP" -> "Stopping"
      [] OTHER -> "INVALID COMMAND! (Try HELP)"

TypeOK ==
    /\ HardwareTypeOK
    /\ request \in InputFrame \cup {NoFrame}
    /\ response \in {"none"} \cup {Response(c) : c \in BackdoorCommand}

Init ==
    /\ HardwareInit
    /\ request = NoFrame
    /\ response = "none"

Write(f) ==
    /\ I2cWrite(f)
    /\ request' = f
    /\ UNCHANGED response

Operate(c) ==
    /\ command_callback(c)
    /\ response' = Response(c)
    /\ UNCHANGED request

Own(A) == A /\ UNCHANGED <<request, response>>

Next ==
    \/ \E f \in InputFrame : Write(f)
    \/ \E c \in BackdoorCommand : Operate(c)
    \/ Own(Tick)
    \/ Own(Shutdown)
    \/ \E n \in Node : Own(Deliver(n))

\* The command bus delivers what it has accepted; nothing else has to happen.
Fairness == \A n \in Node : WF_vars(Own(Deliver(n)))

Spec == Init /\ [][Next]_vars /\ Fairness

-----------------------------------------------------------------------------
(***************************************************************************)
(* After a valid telemetry request the master reads the status words the   *)
(* device has now, late start included, and never an earlier reply.        *)
(* (create_generic_eps_data, i2c_read.)                                    *)
(***************************************************************************)
ReplyIsCurrent ==
    request.cmd = TELEMETRY_REQUEST /\ i2c_read_valid => I2cRead.hk.status = status

(***************************************************************************)
(* No step turns a switch on or off but the write of an intact frame that  *)
(* asks for it, to an enabled device: neither a telemetry request, nor a   *)
(* reset, nor a damaged or truncated frame, nor anything an operator does. *)
(* (determine_i2c_response_for_request.)                                   *)
(***************************************************************************)
SwitchOnlyByCommand ==
    [][\A s \in Switch :
          status'[s].state # status[s].state =>
              /\ enabled
              /\ request'.size = 3 /\ request'.intact
              /\ request'.cmd = s /\ request'.data = status'[s].state]_vars

(***************************************************************************)
(* A switch that stays in one state ends with its simulator in that state, *)
(* once that simulator has been told anything at all: the messages of      *)
(* eps_switch_update are sent in the order of the commands.                *)
(***************************************************************************)
NodesEventuallyFollow ==
    \A s \in Switch : \A v \in {OFF, ON} :
        <>[](status[s].state = v /\ LastWord(NodeOf[s]) # "unknown")
            => <>[](node[NodeOf[s]] = Word(v))

(***************************************************************************)
(* README.md:37-38, "0xAA, Reset - Data of 0xAA to trigger power cycle":   *)
(* after the reset command the switches are in their power-on state.       *)
(***************************************************************************)
ResetPowerCycles ==
    request.cmd = RESET /\ request.data = 170 /\ i2c_read_valid
        => \A s \in Switch : status[s].state = InitStatus[s].state

(***************************************************************************)
(* generic_eps_hardware_model.cpp:221, "Valid commands are HELP, ENABLE,   *)
(* DISABLE, STATUS=X, or STOP": none of those is answered as invalid.      *)
(***************************************************************************)
AdvertisedCommandsWork ==
    [][\A c \in Advertised :
          Operate(c) => response' # "INVALID COMMAND! (Try HELP)"]_vars
=============================================================================
