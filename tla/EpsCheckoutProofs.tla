------------------------- MODULE EpsCheckoutProofs -------------------------
(***************************************************************************)
(* The safety of the checkout program and the device together, proved for  *)
(* any switches, nodes, lines and bounds.                                  *)
(***************************************************************************)
EXTENDS EpsCheckout, EpsHardwareProofs

(***************************************************************************)
(* The inductive invariant.                                                *)
(***************************************************************************)

\* A line whose operands have been cut off can switch nothing.
Spent(l) == l = BLANK \/ l.args = <<>>

\* Once a line has been read, what is left in the buffer is spent.
Buffered ==
    /\ input_buf \in InputLine \/ Spent(input_buf)
    /\ origin # "uninitialized" => Spent(input_buf)

\* The operands are those of a line that calls for a switch command.
AsTyped ==
    /\ switch_num \in Switch /\ value \in {OFF, ON}
    /\ origin # "replayed"
    /\ Len(typed.args) = 2
    /\ typed.args[1] % 256 = switch_num
    /\ typed.args[2] % 256 = value

\* A transfer for a switch command is made with the operands of its line.
Handling ==
    /\ pc = "command" => cmd = "SWITCH"
    /\ cmd = "SWITCH" /\ pc \in Transfer => AsTyped

\* The reply to be read in this transaction was composed in it.
ReplyIsAnswer ==
    pc = "read" /\ i2c_read_valid =>
        initialized_other_sims /\ i2c_out_data.status = status

Inv == TypeOK /\ Buffered /\ Handling /\ ReplyIsAnswer

-----------------------------------------------------------------------------
\* The words of the command line.
LEMMA CommandType ==
    \A w \in DOMAIN Command :
        Command[w] \in {"HELP", "EXIT", "HK", "SWITCH", "UNKNOWN"}
  BY DEF Command

\* A line and its fields.
LEMMA LineFields ==
    ASSUME NEW l \in Line
    PROVE  /\ l.word \in DOMAIN Command /\ l.args \in Seq(Int) /\ l # BLANK
           /\ Len(l.args) \in Nat
           /\ \A i \in 1..Len(l.args) : l.args[i] \in Int
  <1>1. l.word \in DOMAIN Command /\ l.args \in Seq(Int)
    BY DEF Line
  <1>2. l # BLANK
    BY LineAssumption
  <1> QED
    BY <1>1, <1>2

\* What is left of a line is a spent line.
LEMMA CutType ==
    ASSUME NEW l \in Line \cup {BLANK}
    PROVE  Cut(l) \in Line \cup {BLANK} /\ Spent(Cut(l))
  <1>1. CASE l = BLANK
    BY <1>1 DEF Cut, Spent
  <1>2. CASE l \in Line /\ l # BLANK
    <2>1. <<>> \in Seq(Int)
      OBVIOUS
    <2>2. [l EXCEPT !.args = <<>>] \in Line /\ [l EXCEPT !.args = <<>>].args = <<>>
      BY <1>2, <2>1 DEF Line
    <2> QED
      BY <1>2, <2>2 DEF Cut, Spent
  <1> QED
    BY <1>1, <1>2

\* The tokens stay numbers.
LEMMA TokensType ==
    ASSUME NEW l \in Line, input_tokens \in [1..2 -> Int]
    PROVE  Tokens(l) \in [1..2 -> Int]
  BY LineFields DEF Tokens

\* The conversion to a uint8 gives one.
LEMMA Uint8Type == \A n \in Int : Uint8(n) \in 0..255
  BY DEF Uint8

\* A frame, whole or damaged: what arrives is the frame or is refused.
LEMMA FrameType ==
    ASSUME NEW c \in 0..255, NEW data \in 0..255
    PROVE  LET f == CommandFrame(c, data) IN
           /\ f \in Frame /\ f.cmd = c /\ f.data = data
           /\ SendFrame(f) => \E g \in Frame : I2cWrite(g) /\ (g = f \/ ~Accepts(g))
  <1> DEFINE f == CommandFrame(c, data)
  <1>1. f \in Frame /\ f.cmd = c /\ f.data = data
    BY DEF CommandFrame, Frame
  <1> HIDE DEF f
  <1>2. \A s \in {f.cmd, TELEMETRY_REQUEST, RESET} \cup Switch : s \in 0..255
    <2>1. \A s \in Switch : s \in 0..255
      BY SwitchAssumption
    <2>2. TELEMETRY_REQUEST \in 0..255 /\ RESET \in 0..255 /\ f.cmd \in 0..255
      BY <1>1 DEF TELEMETRY_REQUEST, RESET
    <2> QED
      BY <2>1, <2>2
  <1>3. \A d \in {f.data, OFF, ON} : d \in 0..255
    BY <1>1 DEF OFF, ON
  <1>4. \A g \in Damaged(f) : g \in Frame /\ ~Accepts(g)
    BY <1>1, <1>2, <1>3 DEF Damaged, Frame, Accepts, WellFormed
  <1>5. SendFrame(f) => \E g \in Frame : I2cWrite(g) /\ (g = f \/ ~Accepts(g))
    BY <1>1, <1>4 DEF SendFrame
  <1> QED
    BY <1>1, <1>5 DEF f

\* The bytes written are bytes.
LEMMA BytesWritten ==
    /\ TELEMETRY_REQUEST \in 0..255 /\ 0 \in 0..255
    /\ TELEMETRY_REQUEST \notin Switch
    /\ \A s \in Switch : s \in 0..255
    /\ \A v \in {OFF, ON} : v \in 0..255
  BY SwitchAssumption DEF TELEMETRY_REQUEST, OFF, ON

\* What a read of the device leaves in the buffer is a buffer.
LEMMA BuffersRead ==
    ASSUME HardwareTypeOK
    PROVE  I2cRead \in Buffer /\ BadBuffer \in Buffer /\ ~BadBuffer.crc_ok
  <1>1. ZeroHousekeeping \in Housekeeping
    BY DEF ZeroHousekeeping, Housekeeping, StatusWord, OFF, ON
  <1> QED
    BY <1>1 DEF I2cRead, BadBuffer, Buffer, HardwareTypeOK

\* The state of the device is left alone.
LEMMA HardwareKept ==
    ASSUME HardwareTypeOK, UNCHANGED hardwareVars
    PROVE  /\ HardwareTypeOK'
           /\ UNCHANGED <<status, i2c_read_valid, i2c_out_data>>
  BY DEF HardwareTypeOK, hardwareVars, modeVars, slaveVars, switchVars
-----------------------------------------------------------------------------
LEMMA InitInv == Init => Inv
  <1> SUFFICES ASSUME Init PROVE Inv
    OBVIOUS
  <1>1. HardwareTypeOK
    BY HardwareInitType DEF Init
  <1>2. PICK l \in InputLine \ {BLANK} :
            input_tokens = [i \in 1..2 |-> IF i <= Len(l.args) THEN l.args[i] ELSE 0]
    BY DEF Init
  <1>3. input_tokens \in [1..2 -> Int]
    <2>1. l \in Line
      BY LineAssumption
    <2> QED
      BY <1>2, <2>1, LineFields
  <1>4. Generic_epsHK \in Housekeeping
    BY DEF Init, ZeroHousekeeping, Housekeeping, StatusWord, OFF, ON
  <1>5. TypeOK
    BY <1>1, <1>3, <1>4, LineAssumption DEF Init, TypeOK, Transfer
  <1>6. Buffered /\ Handling /\ ReplyIsAnswer
    BY DEF Init, Buffered, Handling, ReplyIsAnswer, Transfer
  <1> QED
    BY <1>5, <1>6 DEF Inv

\* The device is opened, or it is not.
LEMMA OpenBusInv ==
    ASSUME Inv, OpenBus
    PROVE  Inv'
  <1>1. HardwareTypeOK' /\ UNCHANGED <<status, i2c_read_valid, i2c_out_data>>
    BY HardwareKept DEF Inv, TypeOK, OpenBus
  <1>2. TypeOK'
    BY <1>1 DEF Inv, TypeOK, OpenBus, inputVars, operation
  <1>3. Buffered'
    BY DEF Inv, Buffered, OpenBus, inputVars
  <1>4. Handling' /\ ReplyIsAnswer'
    BY DEF OpenBus, Handling, ReplyIsAnswer, Transfer
  <1> QED
    BY <1>2, <1>3, <1>4 DEF Inv

(***************************************************************************)
(* What a pass of the main loop leads to: the operands of a switch command *)
(* are those of the line.                                                  *)
(***************************************************************************)
LEMMA ProcessLineLeads ==
    ASSUME Inv, NEW l \in Line \cup {BLANK}, l \in InputLine \/ Spent(l),
           ProcessLine(l)
    PROVE  /\ input_tokens' \in [1..2 -> Int]
           /\ cmd' \in {"HELP", "EXIT", "HK", "SWITCH", "UNKNOWN"}
           /\ switch_num' \in 0..255 /\ value' \in 0..255
           /\ pc' \in {"prompt", "exited", "command", "request"}
           /\ pc' = "request" => cmd' = "HK"
           /\ pc' = "command" =>
                 /\ cmd' = "SWITCH" /\ l \in InputLine /\ ~Spent(l)
                 /\ switch_num' \in Switch /\ value' \in {OFF, ON}
                 /\ Len(l.args) = 2
                 /\ l.args[1] % 256 = switch_num'
                 /\ l.args[2] % 256 = value'
  <1>1. CASE l = BLANK
    BY <1>1 DEF ProcessLine, Inv, TypeOK
  <1>2. CASE l # BLANK
    <2>1. l \in Line /\ input_tokens' = Tokens(l)
      BY <1>2 DEF ProcessLine
    <2>2. /\ input_tokens' \in [1..2 -> Int]
          /\ Command[l.word] \in {"HELP", "EXIT", "HK", "SWITCH", "UNKNOWN"}
      BY <2>1, TokensType, LineFields, CommandType DEF Inv, TypeOK
    <2>3. process_command(Command[l.word], Len(l.args))
      BY <1>2 DEF ProcessLine
    <2>4. CASE Command[l.word] = "SWITCH" /\ Len(l.args) = 2
      <3>1. /\ cmd' = "SWITCH" /\ Operands
            /\ pc' = IF ValidSwitch THEN "command" ELSE "prompt"
        BY <2>3, <2>4 DEF process_command, check_number_arguments
      <3>2. /\ switch_num' = l.args[1] % 256 /\ value' = l.args[2] % 256
            /\ switch_num' \in 0..255 /\ value' \in 0..255
        <4>1. input_tokens'[1] = l.args[1] /\ input_tokens'[2] = l.args[2]
          BY <2>1, <2>4 DEF Tokens
        <4>2. l.args[1] \in Int /\ l.args[2] \in Int
          BY <2>1, <2>4, LineFields
        <4> QED
          BY <3>1, <4>1, <4>2 DEF Operands, Uint8
      <3>3. l \in InputLine /\ ~Spent(l)
        <4>1. Len(<<>>) # 2
          OBVIOUS
        <4> QED
          BY <1>2, <2>4, <4>1 DEF Spent
      <3>4. ValidSwitch => switch_num' \in Switch /\ value' \in {OFF, ON}
        <4>1. l.args[1] % 256 \in Switch \cup 8..255
          BY <1>2, <2>4, <3>3, SwitchesAssumption
        <4> QED
          BY <3>2, <4>1 DEF ValidSwitch
      <3> QED
        BY <2>2, <2>4, <3>1, <3>2, <3>3, <3>4
    <2>5. CASE ~(Command[l.word] = "SWITCH" /\ Len(l.args) = 2)
      BY <2>2, <2>3, <2>5
         DEF process_command, check_number_arguments, Inv, TypeOK
    <2> QED
      BY <2>4, <2>5
  <1> QED
    BY <1>1, <1>2

\* A line is processed, typed or left in the buffer.
LEMMA ProcessLineInv ==
    ASSUME Inv, NEW l \in Line \cup {BLANK}, l \in InputLine \/ Spent(l),
           ProcessLine(l),
           origin' \in {"uninitialized", "typed", "replayed"},
           origin' = "replayed" => Spent(l)
    PROVE  Inv'
  <1>1. /\ input_buf' = Cut(l) /\ typed' = l
        /\ UNCHANGED <<Generic_epsHK, printed, hardwareVars>>
    BY DEF ProcessLine
  <1>2. HardwareTypeOK' /\ UNCHANGED <<status, i2c_read_valid, i2c_out_data>>
    BY <1>1, HardwareKept DEF Inv, TypeOK
  <1>3. TypeOK'
    <2>1. /\ input_tokens' \in [1..2 -> Int]
          /\ cmd' \in {"HELP", "EXIT", "HK", "SWITCH", "UNKNOWN"}
          /\ switch_num' \in 0..255 /\ value' \in 0..255
          /\ pc' \in {"prompt", "exited", "command", "request"}
      BY ProcessLineLeads
    <2> QED
      BY <1>1, <1>2, <2>1, CutType DEF Inv, TypeOK, Transfer
  <1>4. Buffered'
    BY <1>1, CutType DEF Buffered
  <1>5. Handling' /\ ReplyIsAnswer'
    BY <1>1, ProcessLineLeads DEF Handling, AsTyped, ReplyIsAnswer, Transfer
  <1> QED
    BY <1>3, <1>4, <1>5 DEF Inv

\* The two ways a line comes to be processed.
LEMMA LinesProcessed ==
    ASSUME Inv, (\E l \in InputLine : TypeLine(l)) \/ EndOfFile
    PROVE  \E l \in Line \cup {BLANK} :
              /\ l \in InputLine \/ Spent(l)
              /\ ProcessLine(l)
              /\ origin' \in {"uninitialized", "typed", "replayed"}
              /\ origin' = "replayed" => Spent(l)
  <1>1. CASE \E l \in InputLine : TypeLine(l)
    BY <1>1, LineAssumption DEF TypeLine
  <1>2. CASE EndOfFile
    BY <1>2 DEF EndOfFile, Inv, TypeOK, Buffered
  <1> QED
    BY <1>1, <1>2

LEMMA LineInv ==
    ASSUME Inv, (\E l \in InputLine : TypeLine(l)) \/ EndOfFile
    PROVE  Inv'
  BY LinesProcessed, ProcessLineInv

\* A tick, a backdoor command, the end of the simulator, a delivery.
LEMMA DeviceInv ==
    ASSUME Inv, Device
    PROVE  Inv' /\ UNCHANGED status
  <1>1. /\ HardwareTypeOK'
        /\ UNCHANGED <<slaveVars, initialized_other_sims, status>>
    BY OtherCallbacks DEF Inv, TypeOK, Device
  <1>2. UNCHANGED <<i2c_read_valid, i2c_out_data, checkoutVars>>
    BY <1>1 DEF slaveVars, Device
  <1> QED
    BY <1>1, <1>2 DEF Inv, TypeOK, Buffered, Handling, AsTyped, ReplyIsAnswer,
                      checkoutVars, inputVars, operation

-----------------------------------------------------------------------------
\* The first transaction of a switch command: at most its switch, to its state.
LEMMA CommandDeviceSwitches ==
    ASSUME Inv, CommandDevice
    PROVE  /\ HardwareTypeOK'
           /\ \A s \in Switch :
                 status'[s].state # status[s].state =>
                     switch_num = s /\ value = status'[s].state
  <1> DEFINE f == CommandFrame(switch_num, value)
  <1>1. /\ f \in Frame /\ f.cmd = switch_num /\ f.data = value
    BY FrameType DEF Inv, TypeOK
  <1>2. \/ \E g \in Frame : I2cWrite(g) /\ (g = f \/ ~Accepts(g))
        \/ UNCHANGED hardwareVars
    BY FrameType DEF CommandDevice, Inv, TypeOK
  <1> HIDE DEF f
  <1>3. HardwareTypeOK
    BY DEF Inv, TypeOK
  <1>4. CASE I2cWrite(f)
    BY <1>1, <1>3, <1>4, WriteType, WriteStates
  <1>5. CASE \E g \in Frame : I2cWrite(g) /\ ~Accepts(g)
    <2>1. HardwareTypeOK'
      BY <1>3, <1>5, WriteType
    <2>2. status' = status
      BY <1>3, <1>5, WriteKeepsStatus
    <2> QED
      BY <2>1, <2>2
  <1>6. CASE UNCHANGED hardwareVars
    BY <1>3, <1>6, HardwareKept
  <1> QED
    BY <1>2, <1>4, <1>5, <1>6

LEMMA CommandDeviceInv ==
    ASSUME Inv, CommandDevice
    PROVE  Inv'
  <1>1. HardwareTypeOK'
    BY CommandDeviceSwitches
  <1>2. /\ pc = "command" /\ pc' = "request"
        /\ UNCHANGED <<inputVars, operation, Generic_epsHK, printed>>
    BY DEF CommandDevice, Transferred
  <1>3. TypeOK'
    BY <1>1, <1>2 DEF Inv, TypeOK, Transfer, inputVars, operation
  <1>4. Buffered' /\ Handling' /\ ReplyIsAnswer'
    BY <1>2 DEF Inv, Buffered, Handling, AsTyped, ReplyIsAnswer, Transfer,
                inputVars, operation
  <1> QED
    BY <1>3, <1>4 DEF Inv

\* The write of a telemetry request switches nothing, and its reply is current.
LEMMA WriteRequestAnswers ==
    ASSUME Inv, WriteRequest
    PROVE  /\ HardwareTypeOK'
           /\ \A s \in Switch : status'[s].state = status[s].state
           /\ i2c_read_valid' =>
                 initialized_other_sims' /\ i2c_out_data'.status = status'
  <1> DEFINE f == CommandFrame(TELEMETRY_REQUEST, 0)
  <1>1. PICK g \in Frame : I2cWrite(g) /\ (g = f \/ ~Accepts(g))
    BY BytesWritten, FrameType DEF WriteRequest
  <1>2. g.cmd = TELEMETRY_REQUEST \/ ~Accepts(g)
    <2>1. f.cmd = TELEMETRY_REQUEST
      BY BytesWritten, FrameType
    <2> QED
      BY <1>1, <2>1
  <1> HIDE DEF f
  <1>3. HardwareTypeOK /\ HardwareTypeOK'
    BY <1>1, <1>2, WriteType DEF Inv, TypeOK
  <1>4. \A s \in Switch : status'[s].state = status[s].state
    BY <1>1, <1>2, <1>3, WriteStates, WriteKeepsStatus, BytesWritten
  <1>5. i2c_read_valid' =>
            /\ i2c_out_data' = [sample |-> sample, status |-> status']
            /\ initialized_other_sims'
    <2>1. i2c_read_valid' => g.cmd = TELEMETRY_REQUEST
      BY <1>1, <1>2 DEF I2cWrite
    <2> QED
      BY <1>1, <1>3, <2>1, WriteReply
  <1> QED
    BY <1>3, <1>4, <1>5

LEMMA WriteRequestInv ==
    ASSUME Inv, WriteRequest
    PROVE  Inv'
  <1>1. /\ HardwareTypeOK'
        /\ i2c_read_valid' => initialized_other_sims' /\ i2c_out_data'.status = status'
    BY WriteRequestAnswers
  <1>2. /\ pc = "request" /\ pc' = "read"
        /\ UNCHANGED <<inputVars, operation, Generic_epsHK, printed>>
    BY DEF WriteRequest, Transferred
  <1>3. TypeOK'
    BY <1>1, <1>2 DEF Inv, TypeOK, Transfer, inputVars, operation
  <1>4. Buffered' /\ Handling' /\ ReplyIsAnswer'
    BY <1>1, <1>2 DEF Inv, Buffered, Handling, AsTyped, ReplyIsAnswer, Transfer,
                      inputVars, operation
  <1> QED
    BY <1>3, <1>4 DEF Inv

\* The three ways a request ends give a buffer that fails its check, or the
\* reply the device composed for this request.
LEMMA Endings ==
    ASSUME Inv, LoseRequest \/ ReadReply \/ LoseReply
    PROVE  /\ pc \in {"request", "read"}
           /\ \E buffer \in Buffer :
                 /\ Complete(buffer)
                 /\ buffer.crc_ok => buffer.hk.status = status /\ initialized_other_sims
  <1>1. I2cRead \in Buffer /\ BadBuffer \in Buffer /\ ~BadBuffer.crc_ok
    BY BuffersRead DEF Inv, TypeOK
  <1>2. CASE LoseRequest \/ LoseReply
    BY <1>1, <1>2 DEF LoseRequest, LoseReply
  <1>3. CASE ReadReply
    <2>1. I2cRead.crc_ok => i2c_read_valid /\ I2cRead.hk = i2c_out_data
      BY DEF I2cRead, BadBuffer
    <2> QED
      BY <1>1, <1>3, <2>1 DEF ReadReply, Inv, ReplyIsAnswer
  <1> QED
    BY <1>2, <1>3

LEMMA EndInv ==
    ASSUME Inv, LoseRequest \/ ReadReply \/ LoseReply
    PROVE  Inv'
  <1>1. PICK buffer \in Buffer : Complete(buffer)
    BY Endings
  <1>2. /\ pc' = "prompt"
        /\ UNCHANGED <<inputVars, operation, hardwareVars>>
    BY <1>1 DEF Complete
  <1>3. HardwareTypeOK'
    BY <1>2, HardwareKept DEF Inv, TypeOK
  <1>4. /\ Generic_epsHK' \in Housekeeping
        /\ printed' \in {"none", "success", "failure"}
    <2>1. Generic_epsHK' \in Housekeeping
      BY <1>1 DEF Complete, Inv, TypeOK, Buffer
    <2>2. printed' \in {"none", "success", "failure"}
      BY <1>1, Zenon DEF Complete, Inv, TypeOK
    <2> QED
      BY <2>1, <2>2
  <1>5. TypeOK'
    BY <1>2, <1>3, <1>4 DEF Inv, TypeOK, Transfer, inputVars, operation
  <1>6. Buffered' /\ Handling' /\ ReplyIsAnswer'
    BY <1>2 DEF Inv, Buffered, Handling, ReplyIsAnswer, Transfer, inputVars
  <1> QED
    BY <1>5, <1>6 DEF Inv

-----------------------------------------------------------------------------
LEMMA NextInv == Inv /\ [Next]_vars => Inv'
  <1> SUFFICES ASSUME Inv, [Next]_vars PROVE Inv'
    OBVIOUS
  <1>1. CASE UNCHANGED vars
    BY <1>1 DEF vars, checkoutVars, hardwareVars, inputVars, operation, modeVars,
                slaveVars, switchVars, Inv, TypeOK, HardwareTypeOK, Buffered,
                Handling, AsTyped, ReplyIsAnswer
  <1>2. CASE Next
    BY <1>2, OpenBusInv, LineInv, CommandDeviceInv, WriteRequestInv, EndInv,
       DeviceInv DEF Next
  <1> QED
    BY <1>1, <1>2

(***************************************************************************)
(* The invariant holds throughout.                                         *)
(***************************************************************************)
THEOREM Invariance == Spec => []Inv
  BY InitInv, NextInv, PTL DEF Spec

(***************************************************************************)
(* Every variable keeps its type: no switch number or state that goes into *)
(* a frame is wider than its byte, whatever number was typed.              *)
(***************************************************************************)
THEOREM TypeCorrect == Spec => []TypeOK
  <1>1. Inv => TypeOK
    BY DEF Inv
  <1> QED
    BY Invariance, <1>1, PTL

-----------------------------------------------------------------------------
\* Only the first transaction of a switch command turns a switch on or off.
LEMMA StateSteps ==
    ASSUME Inv, [Next]_vars, NEW s \in Switch,
           status'[s].state # status[s].state
    PROVE  CommandDevice /\ switch_num = s /\ value = status'[s].state
  <1>1. status' # status
    OBVIOUS
  <1>2. ~Device
    BY <1>1, DeviceInv
  <1>3. ~WriteRequest
    BY WriteRequestAnswers
  <1>4. CommandDevice
    BY <1>1, <1>2, <1>3
       DEF Next, vars, OpenBus, TypeLine, EndOfFile, ProcessLine, LoseRequest,
           ReadReply, LoseReply, Complete, hardwareVars, switchVars
  <1> QED
    BY <1>4, CommandDeviceSwitches

(***************************************************************************)
(* No switch turns on or off but by the line being processed.              *)
(***************************************************************************)
THEOREM OnlyTypedLinesSwitch == Spec => SwitchOnlyAsTyped
  <1>1. ASSUME Inv, [Next]_vars, NEW s \in Switch,
               status'[s].state # status[s].state
        PROVE  /\ pc = "command"
               /\ origin # "replayed"
               /\ Len(typed.args) = 2
               /\ typed.args[1] % 256 = s
               /\ typed.args[2] % 256 = status'[s].state
    <2>1. CommandDevice /\ switch_num = s /\ value = status'[s].state
      BY <1>1, StateSteps
    <2>2. pc = "command" /\ AsTyped
      BY <1>1, <2>1 DEF CommandDevice, Inv, Handling, Transfer
    <2> QED
      BY <2>1, <2>2 DEF AsTyped
  <1>2. Inv /\ [Next]_vars =>
            [\A s \in Switch :
                status'[s].state # status[s].state =>
                    /\ pc = "command"
                    /\ origin # "replayed"
                    /\ Len(typed.args) = 2
                    /\ typed.args[1] % 256 = s
                    /\ typed.args[2] % 256 = status'[s].state]_vars
    BY <1>1
  <1> QED
    BY Invariance, <1>2, PTL DEF Spec, SwitchOnlyAsTyped
-----------------------------------------------------------------------------
(***************************************************************************)
(* The refinement: what the contract sees of a state.                      *)
(***************************************************************************)
actualC == [s \in Switch |-> status[s].state]
knownC == [s \in Switch |-> Generic_epsHK.status[s].state]
pendingC == IF cmd = "SWITCH" /\ pc \in Transfer
            THEN {[switch |-> switch_num, state |-> value]} ELSE {}

\* The initial states keep the contract.
LEMMA ContractInit == Init => Contract!Init
  <1> SUFFICES ASSUME Init PROVE Contract!Init
    OBVIOUS
  <1>1. actualC \in [Switch -> {OFF, ON}]
    BY ConfigurationAssumption DEF actualC, Init, HardwareInit, SwitchInit, StatusWord
  <1>2. knownC = [s \in Switch |-> OFF]
    BY DEF knownC, Init, ZeroHousekeeping
  <1>3. pendingC = {} /\ printed = "none"
    BY DEF pendingC, Init
  <1> QED
    BY <1>1, <1>2, <1>3 DEF Contract!Init, actualC, knownC, pendingC

\* A line is nothing to the contract, or it asks.
LEMMA LineKeeps ==
    ASSUME Inv, (\E l \in InputLine : TypeLine(l)) \/ EndOfFile
    PROVE  Contract!Next \/ UNCHANGED <<actualC, knownC, pendingC, printed>>
  <1>1. PICK l \in Line \cup {BLANK} : (l \in InputLine \/ Spent(l)) /\ ProcessLine(l)
    BY LinesProcessed
  <1>2. /\ pc' \in {"prompt", "exited", "command", "request"}
        /\ pc' = "request" => cmd' = "HK"
        /\ pc' = "command" =>
              cmd' = "SWITCH" /\ switch_num' \in Switch /\ value' \in {OFF, ON}
    BY <1>1, ProcessLineLeads
  <1>3. /\ UNCHANGED <<actualC, knownC, printed>>
        /\ pendingC = {}
    BY <1>1 DEF ProcessLine, hardwareVars, switchVars, actualC, knownC, pendingC,
                Transfer
  <1>4. CASE pc' = "command"
    <2> DEFINE r == [switch |-> switch_num', state |-> value']
    <2>1. r \in Contract!Request
      BY <1>2, <1>4 DEF Contract!Request
    <2>2. pendingC' = {r}
      BY <1>2, <1>4 DEF pendingC, Transfer
    <2>3. Contract!Ask(r)
      BY <1>3, <2>2 DEF Contract!Ask, actualC, knownC, pendingC
    <2> QED
      BY <2>1, <2>3 DEF Contract!Next
  <1>5. CASE pc' # "command"
    <2>1. pendingC' = {}
      BY <1>2, <1>5 DEF pendingC, Transfer
    <2> QED
      BY <1>3, <2>1
  <1> QED
    BY <1>4, <1>5

\* The first transaction of a switch command switches it, or nothing.
LEMMA CommandDeviceKeeps ==
    ASSUME Inv, CommandDevice
    PROVE  Contract!Next \/ UNCHANGED <<actualC, knownC, pendingC, printed>>
  <1> DEFINE r == [switch |-> switch_num, state |-> value]
  <1>1. /\ cmd = "SWITCH" /\ switch_num \in Switch /\ value \in {OFF, ON}
        /\ pc = "command" /\ pc' = "request"
        /\ UNCHANGED <<operation, Generic_epsHK, printed>>
    BY DEF CommandDevice, Transferred, Inv, Handling, AsTyped, Transfer
  <1>2. /\ r \in Contract!Request
        /\ pendingC = {r} /\ UNCHANGED <<knownC, pendingC, printed>>
    BY <1>1 DEF Contract!Request, pendingC, knownC, operation, Transfer
  <1>3. CASE \A s \in Switch : status'[s].state = status[s].state
    BY <1>2, <1>3 DEF actualC
  <1>4. CASE \E s \in Switch : status'[s].state # status[s].state
    <2>1. \A s \in Switch : status'[s].state # status[s].state =>
              switch_num = s /\ value = status'[s].state
      BY CommandDeviceSwitches
    <2>2. actualC' = [actualC EXCEPT ![switch_num] = value]
      BY <1>4, <2>1 DEF actualC
    <2>3. PICK q \in Contract!Request : q = r
      BY <1>2
    <2>4. Contract!Switches(q)
      BY <1>2, <2>2, <2>3 DEF Contract!Switches, actualC, knownC, pendingC
    <2> QED
      BY <2>4 DEF Contract!Next
  <1> QED
    BY <1>3, <1>4

\* The end of a request succeeds or fails, or it is a look at the device.
LEMMA EndKeeps ==
    ASSUME Inv, LoseRequest \/ ReadReply \/ LoseReply
    PROVE  Contract!Next \/ UNCHANGED <<actualC, knownC, pendingC, printed>>
  <1>1. pc \in Transfer
    BY Endings DEF Transfer
  <1>2. PICK buffer \in Buffer :
            /\ Complete(buffer)
            /\ buffer.crc_ok => buffer.hk.status = status
    BY Endings
  <1>3. UNCHANGED <<status, operation>>
    BY <1>2 DEF Complete, hardwareVars, switchVars
  <1>4. /\ knownC' = IF buffer.crc_ok THEN actualC ELSE knownC
        /\ actualC' = actualC /\ pendingC' = {}
    BY <1>2, <1>3 DEF Complete, knownC, actualC, pendingC, Transfer
  <1>5. CASE cmd = "SWITCH"
    <2> DEFINE r == [switch |-> switch_num, state |-> value]
    <2>1. switch_num \in Switch /\ r \in Contract!Request /\ pendingC = {r}
      BY <1>1, <1>5 DEF Inv, Handling, AsTyped, Contract!Request, pendingC
    <2>2. Succeeds(buffer) <=> buffer.crc_ok /\ actualC[r.switch] = r.state
      BY <1>2, <1>5, <2>1 DEF Succeeds, actualC
    <2>3. printed' = IF Succeeds(buffer) THEN "success" ELSE "failure"
      BY <1>2, <1>5 DEF Complete
    <2>4. PICK q \in Contract!Request : q = r
      BY <2>1
    <2>5. Contract!Succeed(q) \/ Contract!Fail(q)
      BY <1>4, <2>1, <2>2, <2>3, <2>4
         DEF Contract!Succeed, Contract!Fail, actualC, knownC, pendingC
    <2> QED
      BY <2>5 DEF Contract!Next
  <1>6. CASE cmd # "SWITCH"
    <2>1. pendingC = {} /\ printed' = printed
      BY <1>2, <1>6 DEF Complete, pendingC
    <2>2. Contract!Look \/ knownC' = knownC
      BY <1>4, <2>1 DEF Contract!Look, actualC, knownC, pendingC
    <2> QED
      BY <1>4, <2>1, <2>2 DEF Contract!Next
  <1> QED
    BY <1>5, <1>6

\* Every other step is nothing to the contract.
LEMMA OtherSteps ==
    ASSUME Inv, OpenBus \/ WriteRequest \/ Device \/ UNCHANGED vars
    PROVE  UNCHANGED <<actualC, knownC, pendingC, printed>>
  <1>1. \A s \in Switch : status'[s].state = status[s].state
    BY WriteRequestAnswers, DeviceInv DEF OpenBus, vars, hardwareVars, switchVars
  <1>2. /\ UNCHANGED <<operation, Generic_epsHK, printed>>
        /\ pc \in Transfer <=> pc' \in Transfer
    BY DEF OpenBus, WriteRequest, Transferred, Device, vars, checkoutVars, Transfer
  <1> QED
    BY <1>1, <1>2 DEF actualC, knownC, pendingC, operation

(***************************************************************************)
(* The checkout program and the device together implement SwitchContract.  *)
(***************************************************************************)
THEOREM KeepsContract == Spec => ContractKept
  <1>1. Init => Contract!Init
    BY ContractInit
  <1>2. Inv /\ [Next]_vars => [Contract!Next]_(Contract!vars)
    <2> SUFFICES ASSUME Inv, [Next]_vars
                 PROVE  Contract!Next \/ UNCHANGED <<actualC, knownC, pendingC, printed>>
      BY DEF Contract!vars, actualC, knownC, pendingC
    <2> QED
      BY LineKeeps, CommandDeviceKeeps, EndKeeps, OtherSteps DEF Next
  <1> QED
    BY Invariance, <1>1, <1>2, PTL DEF Spec, ContractKept, Contract!Spec

-----------------------------------------------------------------------------
\* What a step does to the device is one of its callbacks.
LEMMA StepIsDevice == Inv /\ [Next]_vars => [HardwareNext]_hardwareVars
  <1> SUFFICES ASSUME Inv, [Next]_vars PROVE [HardwareNext]_hardwareVars
    OBVIOUS
  <1>1. CASE CommandDevice
    <2>1. (\E g \in Frame : I2cWrite(g)) \/ UNCHANGED hardwareVars
      BY <1>1, FrameType DEF CommandDevice, Inv, TypeOK
    <2> QED
      BY <2>1 DEF HardwareNext
  <1>2. CASE WriteRequest
    <2>1. \E g \in Frame : I2cWrite(g)
      BY <1>2, BytesWritten, FrameType DEF WriteRequest
    <2> QED
      BY <2>1 DEF HardwareNext
  <1>3. CASE Device
    <2>1. {"ENABLE", "DISABLE", "STOP"} \subseteq BackdoorCommand
      BY DEF BackdoorCommand, Advertised
    <2> QED
      BY <1>3, <2>1 DEF Device, HardwareNext
  <1>4. CASE \/ OpenBus \/ (\E l \in InputLine : TypeLine(l)) \/ EndOfFile
             \/ LoseRequest \/ LoseReply \/ ReadReply
    BY <1>4 DEF OpenBus, TypeLine, EndOfFile, ProcessLine, LoseRequest, LoseReply,
                ReadReply, Complete
  <1>5. CASE UNCHANGED vars
    BY <1>5 DEF vars
  <1> QED
    BY <1>1, <1>2, <1>3, <1>4, <1>5 DEF Next

(***************************************************************************)
(* The checkout program and the bus are one master of the device: what they*)
(* do to it is what HardwareSpec allows.                                   *)
(***************************************************************************)
THEOREM IsDevice == Spec => HardwareSpec
  <1>1. Init => HardwareInit
    BY DEF Init
  <1> QED
    BY <1>1, Invariance, StepIsDevice, PTL DEF Spec, HardwareSpec

\* A switch command can only end where a request does.
LEMMA CommandEnds ==
    ASSUME Inv, [Next]_vars, pc \in Transfer, pc' = "prompt"
    PROVE  LoseRequest \/ ReadReply \/ LoseReply
  BY DEF Next, Transfer, OpenBus, TypeLine, EndOfFile, ProcessLine, CommandDevice,
         WriteRequest, Transferred, Device, checkoutVars, vars

(***************************************************************************)
(* When success is printed the simulator behind the switch has been told   *)
(* what was asked.                                                         *)
(***************************************************************************)
THEOREM SuccessReaches == Spec => SuccessReachesNodes
  <1>1. ASSUME Inv, HardwareInv, [Next]_vars,
               cmd = "SWITCH", pc \in Transfer, pc' = "prompt", printed' = "success"
        PROVE  value = ON <=> LastWord(NodeOf[switch_num]) = Word(ON)
    <2>1. LoseRequest \/ ReadReply \/ LoseReply
      BY <1>1, CommandEnds
    <2>2. PICK buffer \in Buffer :
              /\ Complete(buffer)
              /\ buffer.crc_ok => buffer.hk.status = status /\ initialized_other_sims
      BY <1>1, <2>1, Endings
    <2>3. switch_num \in Switch /\ value \in {OFF, ON}
      BY <1>1 DEF Inv, Handling, AsTyped
    <2>4. Succeeds(buffer)
      BY <1>1, <2>2 DEF Complete
    <2>5. initialized_other_sims /\ status[switch_num].state = value
      BY <1>1, <2>2, <2>4 DEF Succeeds
    <2> DEFINE word == LastWord(NodeOf[switch_num])
    <2>6. /\ word # "unknown" => word = Word(value)
          /\ value = ON => word # "unknown"
      BY <1>1, <2>3, <2>5 DEF HardwareInv, NodesToldSwitchState
    <2> HIDE DEF word
    <2>7. value = ON <=> word = Word(ON)
      BY <2>3, <2>6, Words
    <2> QED
      BY <2>7 DEF word
  <1>2. Inv /\ HardwareInv /\ [Next]_vars =>
            [cmd = "SWITCH" /\ pc \in Transfer /\ pc' = "prompt" /\ printed' = "success" =>
                (value = ON <=> LastWord(NodeOf[switch_num]) = Word(ON))]_vars
    BY <1>1
  <1>3. Spec => []HardwareInv
    BY IsDevice, HardwareInvariance, PTL
  <1> QED
    BY <1>2, <1>3, Invariance, PTL DEF Spec, SuccessReachesNodes
=============================================================================
