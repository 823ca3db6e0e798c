------------------------- MODULE EpsHardwareProofs -------------------------
(***************************************************************************)
(* What each callback of the device does to its state, proved for any set  *)
(* of switches and nodes.                                                  *)
(***************************************************************************)
EXTENDS EpsHardware, TLAPS

\* The device starts in a state of its type.
LEMMA HardwareInitType == HardwareInit => HardwareTypeOK
  <1> SUFFICES ASSUME HardwareInit PROVE HardwareTypeOK
    OBVIOUS
  <1>1. [flags |-> 0, state |-> OFF] \in StatusWord
    BY DEF StatusWord, OFF, ON
  <1>2. ZeroHousekeeping \in Housekeeping
    BY <1>1 DEF ZeroHousekeeping, Housekeeping
  <1>3. outbox \in [Node -> Seq(NodeMessage)]
    BY DEF HardwareInit, SwitchInit
  <1>4. node \in [Node -> NodeMessage \cup {"unknown"}]
    BY DEF HardwareInit, SwitchInit
  <1> QED
    BY <1>2, <1>3, <1>4, ConfigurationAssumption DEF HardwareInit, SwitchInit, HardwareTypeOK

\* Overwriting the status words of some switches gives status words again.
LEMMA UpdatedType ==
    ASSUME HardwareTypeOK, NEW S, NEW v \in {OFF, ON}
    PROVE  Updated(S, v) \in [Switch -> StatusWord]
  BY DEF HardwareTypeOK, Updated, StatusWord, OFF, ON

\* Telling some nodes lengthens their channels.
LEMMA ToldType ==
    ASSUME HardwareTypeOK, NEW S, NEW v
    PROVE  Told(S, v) \in [Node -> Seq(NodeMessage)]
  <1>1. Word(v) \in NodeMessage
    BY DEF Word, NodeMessage
  <1>2. ASSUME NEW n \in Node
        PROVE  Append(outbox[n], Word(v)) \in Seq(NodeMessage)
    BY <1>1, <1>2 DEF HardwareTypeOK
  <1> QED
    BY <1>2 DEF Told, HardwareTypeOK

\* The data byte of a frame for a switch, once accepted, is a switch state.
LEMMA AcceptedState ==
    ASSUME NEW f \in Frame, Accepts(f), f.cmd \in Switch
    PROVE  f.data \in {OFF, ON}
  <1>1. \A s \in Switch : s < 8
    BY SwitchAssumption
  <1> QED
    BY <1>1 DEF Accepts, WellFormed

(***************************************************************************)
(* i2c_write keeps the type of the device's state.                         *)
(***************************************************************************)
LEMMA WriteType ==
    ASSUME HardwareTypeOK, NEW f \in Frame, I2cWrite(f)
    PROVE  HardwareTypeOK'
  <1>1. i2c_read_valid' \in BOOLEAN
    BY DEF I2cWrite, Accepts, WellFormed, KnownCommand, HardwareTypeOK
  <1>2. CASE ~Accepts(f)
    BY <1>1, <1>2 DEF I2cWrite, HardwareTypeOK, modeVars, switchVars
  <1>3. CASE Accepts(f) /\ Process(f)
    <2>1. CASE /\ f.cmd \in Switch
               /\ eps_switch_update({f.cmd}, f.data)
               /\ UNCHANGED <<initialized_other_sims, i2c_out_data>>
      BY <1>1, <1>3, <2>1, AcceptedState, UpdatedType, ToldType
         DEF I2cWrite, HardwareTypeOK, modeVars, eps_switch_update
    <2>2. CASE create_generic_eps_data
      <3>1. Updated(LateStarters, ON) \in [Switch -> StatusWord]
        BY UpdatedType DEF ON
      <3>2. i2c_out_data' \in Housekeeping
        BY <2>2, <3>1 DEF create_generic_eps_data, Housekeeping, HardwareTypeOK
      <3> QED
        BY <1>1, <2>2, <3>1, <3>2, ToldType
           DEF I2cWrite, HardwareTypeOK, modeVars, eps_switch_update,
               create_generic_eps_data
    <2>3. CASE UNCHANGED <<switchVars, i2c_out_data>>
      BY <1>1, <2>3 DEF I2cWrite, HardwareTypeOK, modeVars, switchVars
    <2> QED
      BY <1>3, <2>1, <2>2, <2>3 DEF Process
  <1> QED
    BY <1>2, <1>3 DEF I2cWrite

(***************************************************************************)
(* A write changes no switch but the one its frame is for, and that one to *)
(* what the frame says; a telemetry request changes the state of none,     *)
(* since its late start tells only switches that are on that they are on.  *)
(***************************************************************************)
LEMMA WriteStates ==
    ASSUME HardwareTypeOK, NEW f \in Frame, I2cWrite(f), NEW s \in Switch,
           status'[s].state # status[s].state
    PROVE  f.cmd = s /\ f.data = status'[s].state /\ f.intact
  <1>1. Accepts(f) /\ Process(f)
    BY DEF I2cWrite, switchVars
  <1>2. CASE f.cmd \in Switch /\ eps_switch_update({f.cmd}, f.data)
    BY <1>1, <1>2 DEF eps_switch_update, Updated, Accepts, WellFormed
  <1>3. CASE create_generic_eps_data
    BY <1>3 DEF create_generic_eps_data, eps_switch_update, Updated, LateStarters
  <1>4. CASE UNCHANGED <<switchVars, i2c_out_data>>
    BY <1>4 DEF switchVars
  <1> QED
    BY <1>1, <1>2, <1>3, <1>4 DEF Process

(***************************************************************************)
(* After a valid telemetry request the reply to be read is the state of the*)
(* device, and the other simulators have been started.                     *)
(***************************************************************************)
LEMMA WriteReply ==
    ASSUME HardwareTypeOK, NEW f \in Frame, I2cWrite(f),
           f.cmd = TELEMETRY_REQUEST, i2c_read_valid'
    PROVE  /\ i2c_out_data' = [sample |-> sample, status |-> status']
           /\ initialized_other_sims'
  <1>1. Accepts(f) /\ Process(f)
    BY DEF I2cWrite
  <1>2. f.cmd \notin Switch /\ f.cmd # RESET
    BY SwitchAssumption DEF TELEMETRY_REQUEST, RESET
  <1> QED
    BY <1>1, <1>2 DEF Process, create_generic_eps_data, eps_switch_update

\* A telemetry request after the late start changes no status word, and
\* neither does a frame that is refused.
LEMMA WriteKeepsStatus ==
    ASSUME HardwareTypeOK, NEW f \in Frame, I2cWrite(f),
           \/ f.cmd = TELEMETRY_REQUEST /\ initialized_other_sims
           \/ ~Accepts(f)
    PROVE  status' = status
  <1>1. CASE ~Accepts(f)
    BY <1>1 DEF I2cWrite, switchVars
  <1>2. CASE Accepts(f)
    <2>1. f.cmd \notin Switch /\ f.cmd # RESET
      BY <1>2, SwitchAssumption DEF TELEMETRY_REQUEST, RESET
    <2>2. status' = Updated({}, ON)
      BY <1>2, <2>1 DEF I2cWrite, Process, create_generic_eps_data,
                        eps_switch_update, LateStarters
    <2> QED
      BY <2>2 DEF Updated, HardwareTypeOK
  <1> QED
    BY <1>1, <1>2

\* What every write does to the stamps: the reply is never ahead of the rails.
LEMMA WriteStamps ==
    ASSUME HardwareTypeOK, NEW f \in Frame, I2cWrite(f)
    PROVE  /\ sample' = sample
           /\ i2c_out_data' = i2c_out_data \/ i2c_out_data'.sample = sample
           /\ initialized_other_sims => initialized_other_sims'
  BY DEF I2cWrite, Process, create_generic_eps_data, switchVars

(***************************************************************************)
(* The other callbacks keep the type, and leave the switches and the reply *)
(* alone.                                                                  *)
(***************************************************************************)
LEMMA OtherCallbacks ==
    ASSUME HardwareTypeOK,
           \/ Tick
           \/ \E c : command_callback(c)
           \/ Shutdown
           \/ \E n \in Node : Deliver(n)
    PROVE  /\ HardwareTypeOK'
           /\ UNCHANGED <<slaveVars, initialized_other_sims, status>>
           /\ sample' >= sample
  <1>1. CASE Tick
    BY <1>1 DEF Tick, HardwareTypeOK, modeVars, slaveVars, switchVars
  <1>2. CASE \E c : command_callback(c)
    BY <1>2 DEF command_callback, HardwareTypeOK, slaveVars, switchVars
  <1>3. CASE Shutdown
    <2>1. HardwareTypeOK' /\ UNCHANGED <<slaveVars, initialized_other_sims, status>>
      BY <1>3, Zenon DEF Shutdown, HardwareTypeOK, slaveVars, switchVars
    <2>2. sample' >= sample
      BY <1>3 DEF Shutdown, HardwareTypeOK
    <2> QED
      BY <2>1, <2>2
  <1>4. CASE \E n \in Node : Deliver(n)
    <2>1. PICK n \in Node : Deliver(n)
      BY <1>4
    <2>2. outbox[n] \in Seq(NodeMessage) /\ outbox[n] # <<>>
      BY <2>1 DEF HardwareTypeOK, Deliver
    <2>3. Head(outbox[n]) \in NodeMessage /\ Tail(outbox[n]) \in Seq(NodeMessage)
      BY <2>2
    <2> QED
      BY <2>1, <2>3 DEF Deliver, HardwareTypeOK, modeVars, slaveVars
  <1> QED
    BY <1>1, <1>2, <1>3, <1>4

\* Words of different states differ, and none is "unknown".
LEMMA Words ==
    /\ \A v : Word(v) \in NodeMessage
    /\ Word(ON) # Word(OFF)
    /\ \A v : Word(v) # "unknown"
  BY DEF Word, NodeMessage, ON, OFF

\* The last word on a channel that has just been told something.
LEMMA LastAppended ==
    ASSUME NEW q \in Seq(NodeMessage), NEW w \in NodeMessage
    PROVE  Append(q, w) # <<>> /\ Last(Append(q, w)) = w
  BY DEF Last

\* Delivering the head of a channel keeps its last word.
LEMMA LastDelivered ==
    ASSUME NEW q \in Seq(NodeMessage), q # <<>>
    PROVE  IF Tail(q) # <<>> THEN Last(Tail(q)) = Last(q) ELSE Head(q) = Last(q)
  <1>1. Len(q) \in Nat /\ Len(q) >= 1
    BY DEF NodeMessage
  <1>2. Tail(q) \in Seq(NodeMessage) /\ Len(Tail(q)) = Len(q) - 1
    BY <1>1
  <1>3. CASE Tail(q) = <<>>
    <2>1. \A t \in Seq(NodeMessage) : t = <<>> => Len(t) = 0
      OBVIOUS
    <2>2. Len(q) = 1
      <3> DEFINE t == Tail(q)
      <3>1. t \in Seq(NodeMessage) /\ t = <<>> /\ Len(t) = Len(q) - 1
        BY <1>2, <1>3
      <3> HIDE DEF t
      <3> QED
        BY <1>1, <2>1, <3>1
    <2>3. Head(q) = q[1]
      OBVIOUS
    <2> QED
      BY <1>3, <2>2, <2>3 DEF Last
  <1>4. CASE Tail(q) # <<>>
    <2>1. Len(Tail(q)) \in Nat /\ Len(Tail(q)) # 0
      BY <1>2, <1>4
    <2>2. Tail(q)[Len(q) - 1] = q[Len(q)]
      BY <1>1, <1>2, <2>1
    <2> QED
      BY <1>2, <1>4, <2>2 DEF Last
  <1> QED
    BY <1>3, <1>4

(***************************************************************************)
(* After eps_switch_update on the switches of S the simulators behind them *)
(* have been told the new state, and those behind the others nothing new.  *)
(***************************************************************************)
LEMMA UpdateTells ==
    ASSUME HardwareTypeOK, NEW S \in SUBSET Switch, NEW v \in {OFF, ON},
           eps_switch_update(S, v), UNCHANGED node, NEW s \in Switch
    PROVE  /\ s \in S => /\ LastWord(NodeOf[s])' = Word(v)
                         /\ status'[s].state = v
           /\ s \notin S => /\ LastWord(NodeOf[s])' = LastWord(NodeOf[s])
                            /\ status'[s] = status[s]
  <1> DEFINE n == NodeOf[s]
  <1>1. n \in Node /\ outbox[n] \in Seq(NodeMessage)
    BY ConfigurationAssumption DEF HardwareTypeOK
  <1>2. outbox'[n] = IF s \in S THEN Append(outbox[n], Word(v)) ELSE outbox[n]
    BY <1>1, NodesDistinct DEF eps_switch_update, Told
  <1>3. status'[s] = IF s \in S THEN [flags |-> 0, state |-> v] ELSE status[s]
    BY DEF eps_switch_update, Updated
  <1>4. CASE s \in S
    <2>1. outbox'[n] # <<>> /\ Last(outbox'[n]) = Word(v)
      BY <1>1, <1>2, <1>4, Words, LastAppended
    <2> QED
      BY <1>3, <1>4, <2>1 DEF LastWord
  <1>5. CASE s \notin S
    BY <1>2, <1>3, <1>5 DEF LastWord
  <1> QED
    BY <1>4, <1>5

\* What a write does to one switch and to the simulator behind it.
LEMMA WriteTells ==
    ASSUME HardwareTypeOK, NodesToldSwitchState, NEW f \in Frame, I2cWrite(f),
           NEW s \in Switch
    PROVE  LET word == LastWord(NodeOf[s]) IN
           (/\ word # "unknown" => word = Word(status[s].state)
            /\ initialized_other_sims /\ status[s].state = ON => word # "unknown")'
  <1>2. /\ LastWord(NodeOf[s]) # "unknown" =>
              LastWord(NodeOf[s]) = Word(status[s].state)
        /\ initialized_other_sims /\ status[s].state = ON =>
              LastWord(NodeOf[s]) # "unknown"
    BY DEF NodesToldSwitchState
  <1>3. UNCHANGED node
    BY DEF I2cWrite
  <1>4. CASE ~Accepts(f)
    BY <1>2, <1>3, <1>4 DEF I2cWrite, switchVars, LastWord
  <1>5. CASE Accepts(f) /\ Process(f)
    <2>1. CASE f.cmd \in Switch /\ eps_switch_update({f.cmd}, f.data)
               /\ UNCHANGED initialized_other_sims
      <3>1. f.data \in {OFF, ON} /\ {f.cmd} \in SUBSET Switch
        BY <1>5, <2>1, AcceptedState
      <3>2. /\ s = f.cmd => /\ LastWord(NodeOf[s])' = Word(f.data)
                            /\ status'[s].state = f.data
            /\ s # f.cmd => /\ LastWord(NodeOf[s])' = LastWord(NodeOf[s])
                            /\ status'[s] = status[s]
        BY <1>3, <2>1, <3>1, UpdateTells
      <3> QED
        BY <1>2, <2>1, <3>2, Words
    <2>2. CASE create_generic_eps_data
      <3>1. LateStarters \in SUBSET Switch /\ ON \in {OFF, ON}
        BY DEF LateStarters
      <3>2. eps_switch_update(LateStarters, ON)
        BY <2>2 DEF create_generic_eps_data
      <3>3. /\ s \in LateStarters => /\ LastWord(NodeOf[s])' = Word(ON)
                                     /\ status'[s].state = ON
            /\ s \notin LateStarters => /\ LastWord(NodeOf[s])' = LastWord(NodeOf[s])
                                        /\ status'[s] = status[s]
        BY <1>3, <3>1, <3>2, UpdateTells
      <3>4. s \notin LateStarters /\ status[s].state = ON => initialized_other_sims
        BY DEF LateStarters
      <3> QED
        BY <1>2, <3>3, <3>4, Words
    <2>3. CASE UNCHANGED switchVars
      BY <1>2, <1>3, <2>3 DEF switchVars, LastWord
    <2> QED
      BY <1>5, <2>1, <2>2, <2>3 DEF Process
  <1> QED
    BY <1>4, <1>5 DEF I2cWrite

\* The other callbacks: a delivery moves the last word from the channel to the
\* node, and the rest leaves switches and channels alone.
LEMMA CallbackTells ==
    ASSUME HardwareTypeOK, NodesToldSwitchState,
           \/ Tick
           \/ \E c : command_callback(c)
           \/ Shutdown
           \/ \E n \in Node : Deliver(n)
    PROVE  NodesToldSwitchState'
  <1>1. UNCHANGED <<initialized_other_sims, status>>
    BY OtherCallbacks
  <1>2. \A s \in Switch : LastWord(NodeOf[s])' = LastWord(NodeOf[s])
    <2>1. CASE UNCHANGED <<outbox, node>>
      BY <2>1 DEF LastWord
    <2>2. CASE \E n \in Node : Deliver(n)
      <3>1. PICK n \in Node : Deliver(n)
        BY <2>2
      <3>2. /\ outbox[n] \in Seq(NodeMessage) /\ outbox[n] # <<>>
            /\ outbox' = [outbox EXCEPT ![n] = Tail(outbox[n])]
            /\ node' = [node EXCEPT ![n] = Head(outbox[n])]
            /\ n \in DOMAIN outbox /\ n \in DOMAIN node
        BY <3>1 DEF Deliver, HardwareTypeOK
      <3>3. LastWord(n)' = LastWord(n)
        BY <3>2, LastDelivered DEF LastWord
      <3>4. ASSUME NEW s \in Switch, NodeOf[s] # n
            PROVE  LastWord(NodeOf[s])' = LastWord(NodeOf[s])
        BY <3>2, <3>4 DEF LastWord
      <3> QED
        BY <3>3, <3>4
    <2> QED
      BY <2>1, <2>2 DEF Tick, command_callback, Shutdown, switchVars
  <1> QED
    BY <1>1, <1>2 DEF NodesToldSwitchState

-----------------------------------------------------------------------------
(***************************************************************************)
(* The device by itself, under any master.                                 *)
(***************************************************************************)
HardwareInv == HardwareTypeOK /\ NodesToldSwitchState

LEMMA HardwareInitInv == HardwareInit => HardwareInv
  <1> SUFFICES ASSUME HardwareInit PROVE HardwareInv
    OBVIOUS
  <1>1. \A s \in Switch : LastWord(NodeOf[s]) = "unknown"
    BY ConfigurationAssumption DEF HardwareInit, SwitchInit, LastWord
  <1>2. NodesToldSwitchState
    BY <1>1 DEF NodesToldSwitchState, HardwareInit, SwitchInit
  <1> QED
    BY <1>2, HardwareInitType DEF HardwareInv

LEMMA HardwareNextInv == HardwareInv /\ [HardwareNext]_hardwareVars => HardwareInv'
  <1> SUFFICES ASSUME HardwareInv, [HardwareNext]_hardwareVars PROVE HardwareInv'
    OBVIOUS
  <1>1. HardwareTypeOK /\ NodesToldSwitchState
    BY DEF HardwareInv
  <1>2. CASE \E f \in Frame : I2cWrite(f)
    <2>1. PICK f \in Frame : I2cWrite(f)
      BY <1>2
    <2>2. HardwareTypeOK'
      BY <1>1, <2>1, WriteType
    <2>3. NodesToldSwitchState'
      BY <1>1, <2>1, WriteTells DEF NodesToldSwitchState
    <2> QED
      BY <2>2, <2>3 DEF HardwareInv
  <1>3. CASE \/ \E c \in BackdoorCommand : command_callback(c)
             \/ Tick \/ Shutdown \/ \E n \in Node : Deliver(n)
    <2>1. HardwareTypeOK'
      BY <1>1, <1>3, OtherCallbacks
    <2>2. NodesToldSwitchState'
      BY <1>1, <1>3, CallbackTells
    <2> QED
      BY <2>1, <2>2 DEF HardwareInv
  <1>4. CASE UNCHANGED hardwareVars
    BY <1>1, <1>4 DEF hardwareVars, modeVars, slaveVars, switchVars, HardwareInv,
                      HardwareTypeOK, NodesToldSwitchState, LastWord
  <1> QED
    BY <1>2, <1>3, <1>4 DEF HardwareNext

(***************************************************************************)
(* Whatever a master writes and an operator does, the state of the device  *)
(* stays in its type, and the simulators behind the switches are told the  *)
(* states of their switches and nothing else.                              *)
(***************************************************************************)
THEOREM HardwareInvariance == HardwareSpec => []HardwareInv
  BY HardwareInitInv, HardwareNextInv, PTL DEF HardwareSpec
=============================================================================
