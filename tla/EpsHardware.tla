---------------------------- MODULE EpsHardware ----------------------------
(***************************************************************************)
(* The simulated EPS: the callbacks of its I2C slave connection, of its    *)
(* backdoor command node and of its time tick                              *)
(* (sim/src/generic_eps_hardware_model.cpp).                               *)
(*                                                                         *)
(* This module holds the state of the device and one action per callback.  *)
(* EpsDevice closes it with an arbitrary bus master, EpsSystem with the    *)
(* flight software.                                                        *)
(***************************************************************************)
EXTENDS EpsProtocol, Sequences, SequencesExt

CONSTANTS
    Node,        \* command nodes of the simulators that the switches feed
    NodeOf,      \* _init_switch[i]._node_name
    InitStatus,  \* _init_switch[i]._state, from the configuration file
    MaxSample,   \* bound: time ticks that change the rails
    MaxOutbox    \* bound: messages in flight to one node

ASSUME ConfigurationAssumption ==
    /\ NodeOf \in [Switch -> Node]
    /\ InitStatus \in [Switch -> StatusWord]

\* No two switches feed the same node.  (The sample configuration gives
\* switches 1 to 7 one placeholder name, which no simulator listens to.)
ASSUME NodesDistinct == \A s, t \in Switch : NodeOf[s] = NodeOf[t] => s = t

ASSUME BoundsAssumption == MaxSample \in Nat /\ MaxOutbox \in Nat

VARIABLES
    enabled,                \* _enabled == GENERIC_EPS_SIM_SUCCESS
    keep_running,           \* _keep_running, of the base class
    connected,              \* _i2c_slave_connection # nullptr
    initialized_other_sims, \* _initialized_other_sims == GENERIC_EPS_SIM_SUCCESS
    status,                 \* _switch[i]._status
    sample,                 \* version stamp of _bus[i]
    i2c_read_valid,         \* _i2c_read_valid == GENERIC_EPS_SIM_SUCCESS
    i2c_out_data,           \* _i2c_out_data
    outbox,                 \* node messages sent and not yet delivered
    node                    \* last message each node has handled

modeVars == <<enabled, keep_running, connected>>
slaveVars == <<i2c_read_valid, i2c_out_data>>
switchVars == <<initialized_other_sims, status, outbox>>
hardwareVars == <<modeVars, slaveVars, switchVars, sample, node>>

NodeMessage == {"ENABLE", "DISABLE"}

HardwareTypeOK ==
    /\ enabled \in BOOLEAN /\ keep_running \in BOOLEAN /\ connected \in BOOLEAN
    /\ initialized_other_sims \in BOOLEAN
    /\ status \in [Switch -> StatusWord]
    /\ sample \in Nat
    /\ i2c_read_valid \in BOOLEAN
    /\ i2c_out_data \in Housekeeping
    /\ outbox \in [Node -> Seq(NodeMessage)]
    /\ node \in [Node -> NodeMessage \cup {"unknown"}]

\* The switches as configured; none of the other simulators has been told.
SwitchInit ==
    /\ status = InitStatus
    /\ outbox = [n \in Node |-> <<>>]
    /\ node = [n \in Node |-> "unknown"]

(***************************************************************************)
(* The constructors.  I2CSlaveConnection leaves _i2c_read_valid            *)
(* uninitialized, so it starts with either truth value.                    *)
(***************************************************************************)
HardwareInit ==
    /\ enabled = TRUE /\ keep_running = TRUE /\ connected = TRUE
    /\ initialized_other_sims = FALSE
    /\ SwitchInit
    /\ sample = 1
    /\ i2c_read_valid \in BOOLEAN
    /\ i2c_out_data = ZeroHousekeeping

-----------------------------------------------------------------------------
Word(state) == IF state = ON THEN "ENABLE" ELSE "DISABLE"

(***************************************************************************)
(* eps_switch_update for every switch of S, with state v: the simulator    *)
(* behind each is told, and its status word is overwritten, error flags    *)
(* included.                                                               *)
(***************************************************************************)
Updated(S, v) ==
    [s \in Switch |-> IF s \in S THEN [flags |-> 0, state |-> v] ELSE status[s]]

\* Faulty: a message is not sent while another is in flight to the node.
ToldWhenIdle(S, v) ==
    [n \in Node |-> IF outbox[n] = <<>> /\ \E s \in S : NodeOf[s] = n
                    THEN <<Word(v)>> ELSE outbox[n]]

Told(S, v) ==
    [n \in Node |-> IF \E s \in S : NodeOf[s] = n
                    THEN Append(outbox[n], Word(v)) ELSE outbox[n]]

eps_switch_update(S, v) ==
    /\ status' = Updated(S, v)
    /\ outbox' = Told(S, v)

\* Faulty: the whole status word is compared, error flags included.
LateStartersUnmasked ==
    IF initialized_other_sims THEN {}
    ELSE {s \in Switch : status[s] = [flags |-> 0, state |-> ON]}

\* The switches whose simulators the first telemetry request tells to start.
LateStarters ==
    IF initialized_other_sims THEN {} ELSE {s \in Switch : status[s].state = ON}

\* Faulty: the reply is composed before the late start.
create_generic_eps_data_early ==
    /\ eps_switch_update(LateStarters, ON)
    /\ initialized_other_sims' = TRUE
    /\ i2c_out_data' = [sample |-> sample, status |-> status]

\* Faulty: the reply is composed once.
create_generic_eps_data_once ==
    /\ eps_switch_update(LateStarters, ON)
    /\ initialized_other_sims' = TRUE
    /\ i2c_out_data' = IF i2c_out_data # ZeroHousekeeping THEN i2c_out_data
                       ELSE [sample |-> sample, status |-> Updated(LateStarters, ON)]

\* Faulty: the first request starts the others and composes no reply.
create_generic_eps_data_start ==
    /\ eps_switch_update(LateStarters, ON)
    /\ initialized_other_sims' = TRUE
    /\ i2c_out_data' = IF initialized_other_sims
                       THEN [sample |-> sample, status |-> status] ELSE i2c_out_data

\* create_generic_eps_data: the reply is composed after the late start.
create_generic_eps_data ==
    /\ eps_switch_update(LateStarters, ON)
    /\ initialized_other_sims' = TRUE
    /\ i2c_out_data' = [sample |-> sample, status |-> Updated(LateStarters, ON)]

(***************************************************************************)
(* determine_i2c_response_for_request.                                     *)
(***************************************************************************)
\* Faulty: the data byte of a switch command is not checked.
WellFormedAnyData(f) == f.size = 3 /\ f.intact

WellFormed(f) ==
    /\ f.size = 3
    /\ f.intact
    /\ f.cmd < 8 => f.data \in {OFF, ON}

KnownCommand(f) == f.cmd \in Switch \cup {TELEMETRY_REQUEST, RESET}

\* Faulty: a disabled simulator goes on answering.
AcceptsDisabled(f) == WellFormed(f) /\ KnownCommand(f)

Accepts(f) == enabled /\ WellFormed(f) /\ KnownCommand(f)

Process(f) ==
    \/ /\ f.cmd \in Switch
       /\ eps_switch_update({f.cmd}, f.data)
       /\ UNCHANGED <<initialized_other_sims, i2c_out_data>>
    \/ /\ f.cmd = TELEMETRY_REQUEST
       /\ create_generic_eps_data
    \/ /\ f.cmd = RESET   \* the handler is a TODO
       /\ UNCHANGED <<switchVars, i2c_out_data>>

\* I2CSlaveConnection::i2c_write
I2cWrite(f) ==
    /\ connected
    /\ \A n \in Node : Len(outbox[n]) < MaxOutbox
    /\ i2c_read_valid' = Accepts(f)
    /\ \/ Accepts(f) /\ Process(f)
       \/ ~Accepts(f) /\ UNCHANGED <<switchVars, i2c_out_data>>
    /\ UNCHANGED <<modeVars, sample, node>>

\* Faulty: the last reply is read again after a frame that was refused.
I2cReadUnguarded == [crc_ok |-> TRUE, hk |-> i2c_out_data]

(***************************************************************************)
(* I2CSlaveConnection::i2c_read: what the master reads; nothing changes.   *)
(* Until a first reply is composed _i2c_out_data is an empty vector, and a *)
(* read that takes it as valid would go past its end: i2c_out_data is then *)
(* ZeroHousekeeping, and ReplyWasComposed (EpsSystem) says that no such    *)
(* read is made.                                                           *)
(***************************************************************************)
I2cRead ==
    IF i2c_read_valid THEN [crc_ok |-> TRUE, hk |-> i2c_out_data] ELSE BadBuffer

\* update_battery_values, on a time tick: the battery voltage changes.
Tick ==
    /\ connected
    /\ sample <= MaxSample
    /\ sample' = sample + 1
    /\ UNCHANGED <<modeVars, slaveVars, switchVars, node>>

\* The commands that the text of the HELP response lists.
Advertised == {"HELP", "ENABLE", "DISABLE", "STATUS=X", "STOP"}

\* What an operator types, lower or mixed case folded by to_upper.
BackdoorCommand == Advertised \cup {"RESET"}

\* command_callback: how it answers is in EpsDevice.
command_callback(c) ==
    /\ connected
    /\ enabled' = ((enabled \/ c = "ENABLE") /\ c # "DISABLE")
    /\ keep_running' = (keep_running /\ c # "STOP")
    /\ UNCHANGED <<connected, slaveVars, switchVars, sample, node>>

\* The destructor, which the framework runs once _keep_running is false.
Shutdown ==
    /\ ~keep_running /\ connected
    /\ connected' = FALSE
    /\ UNCHANGED <<enabled, keep_running, slaveVars, switchVars, sample, node>>

\* The command bus hands a node its oldest message.
Deliver(n) ==
    /\ outbox[n] # <<>>
    /\ node' = [node EXCEPT ![n] = Head(outbox[n])]
    /\ outbox' = [outbox EXCEPT ![n] = Tail(@)]
    /\ UNCHANGED <<modeVars, slaveVars, initialized_other_sims, status, sample>>

(***************************************************************************)
(* The device by itself, whoever writes what to it and in whatever order:  *)
(* EpsDevice, EpsSystem and EpsCheckout are three masters of it.           *)
(***************************************************************************)
HardwareNext ==
    \/ \E f \in Frame : I2cWrite(f)
    \/ \E c \in BackdoorCommand : command_callback(c)
    \/ Tick
    \/ Shutdown
    \/ \E n \in Node : Deliver(n)

HardwareSpec == HardwareInit /\ [][HardwareNext]_hardwareVars
-----------------------------------------------------------------------------
\* The last thing a node has been told, handled or still in flight.
LastWord(n) == IF outbox[n] # <<>> THEN Last(outbox[n]) ELSE node[n]

(***************************************************************************)
(* The simulator behind a switch is never told anything but the state of   *)
(* its switch; and once the first telemetry request has started the others,*)
(* a simulator whose switch is on has been told so.                        *)
(* (eps_switch_update, and the late start in create_generic_eps_data.)     *)
(***************************************************************************)
NodesToldSwitchState ==
    \A s \in Switch :
        LET word == LastWord(NodeOf[s]) IN
        /\ word # "unknown" => word = Word(status[s].state)
        /\ initialized_other_sims /\ status[s].state = ON => word # "unknown"
=============================================================================
