-------------------------- MODULE EpsSystemProofs --------------------------
(***************************************************************************)
(* The safety of the application and the device together, proved for any   *)
(* switches, nodes, messages, pipe depth, counter width and bounds.        *)
(***************************************************************************)
EXTENDS EpsSystem, EpsHardwareProofs

(***************************************************************************)
(* What each step of the application does to its state.                    *)
(***************************************************************************)

\* A counter stays in its width.
LEMMA IncrementType ==
    ASSUME NEW c \in Counts, NEW name \in Counter
    PROVE  Increment(c, name) \in Counts
  <1>1. c[name] \in Nat
    BY SizeAssumption DEF Counts
  <1>2. (c[name] + 1) % CounterModulus \in 0..(CounterModulus - 1)
    BY <1>1, SizeAssumption
  <1> QED
    BY <1>2 DEF Increment, Counts

LEMMA ZeroCountsType == ZeroCounts \in Counts
  BY SizeAssumption DEF ZeroCounts, Counts

LEMMA ZeroHousekeepingType == ZeroHousekeeping \in Housekeeping
  <1>1. [flags |-> 0, state |-> OFF] \in StatusWord
    BY DEF StatusWord, OFF
  <1> QED
    BY <1>1 DEF ZeroHousekeeping, Housekeeping

LEMMA VerifyType ==
    ASSUME AppTypeOK, NEW m, NEW expected
    PROVE  VerifyCmdLength(m, expected) \in Counts
  BY IncrementType DEF AppTypeOK, VerifyCmdLength, Counter

LEMMA AppStartType == AppStart => AppTypeOK
  <1> SUFFICES ASSUME AppStart PROVE AppTypeOK
    OBVIOUS
  <1>1. pipe \in Seq(InputMessage)
    BY DEF AppStart
  <1> QED
    BY <1>1, ZeroCountsType, ZeroHousekeepingType DEF AppStart, AppTypeOK, InitCall

LEMMA InitCallType ==
    ASSUME AppTypeOK, InitCallSucceeds \/ InitCallFails
    PROVE  AppTypeOK'
  <1>1. CASE InitCallSucceeds
    <2>1. AfterCall[pc] \in InitCall \cup {"receive"}
      BY <1>1 DEF InitCallSucceeds, InitCall, AfterCall
    <2> QED
      BY <1>1, <2>1 DEF InitCallSucceeds, AppTypeOK
  <1>2. CASE InitCallFails
    BY <1>2 DEF InitCallFails, AppTypeOK
  <1> QED
    BY <1>1, <1>2

LEMMA RouteType ==
    ASSUME AppTypeOK, NEW m \in InputMessage, Route(m)
    PROVE  AppTypeOK'
  <1>1. pipe' \in Seq(InputMessage)
    BY DEF Route, AppTypeOK
  <1> QED
    BY <1>1 DEF Route, AppTypeOK

\* What a message may set going: a device operation, which msg then is for.
Operation(m) ==
    \/ m.mid = CMD /\ m.code = SWITCH_CC /\ m.length = SwitchLength /\ ValidSwitch(m)
    \/ m.mid = REQ_HK /\ m.code = REQ_HK_TLM

LEMMA ReceiveType ==
    ASSUME AppTypeOK, Receive
    PROVE  /\ AppTypeOK'
           /\ msg' \in InputMessage
           /\ pc' \in {"receive", "command", "request"}
           /\ pc' = "command" => msg'.mid = CMD /\ Operation(msg')
           /\ pc' = "request" => msg'.mid = REQ_HK /\ Operation(msg')
  <1> DEFINE m == Head(pipe)
  <1>1. m \in InputMessage /\ Tail(pipe) \in Seq(InputMessage)
    BY DEF AppTypeOK, Receive
  <1>2. CMD # REQ_HK
    BY DEF CMD, REQ_HK
  <1>3. /\ count' \in Counts
        /\ pc' \in {"receive", "command", "request"}
        /\ pc' = "command" => m.mid = CMD /\ Operation(m)
        /\ pc' = "request" => m.mid = REQ_HK /\ Operation(m)
    <2>1. CASE m.mid = CMD /\ ProcessGroundCommand(m)
      <3>1. CASE Noop(m)
        BY <3>1, VerifyType DEF Noop
      <3>2. CASE ResetCounters(m)
        BY <3>2, VerifyType, ZeroCountsType DEF ResetCounters
      <3>3. CASE StartSwitch(m)
        BY <2>1, <3>3, VerifyType DEF StartSwitch, Operation
      <3>4. CASE RejectSwitch(m)
        BY <3>4, VerifyType, IncrementType DEF RejectSwitch, Counter
      <3>5. CASE UnknownCode
        BY <3>5, IncrementType DEF UnknownCode, AppTypeOK, Counter
      <3> QED
        BY <2>1, <3>1, <3>2, <3>3, <3>4, <3>5 DEF ProcessGroundCommand
    <2>2. CASE m.mid = REQ_HK /\ ProcessTelemetryRequest(m)
      <3>1. CASE m.code = REQ_HK_TLM /\ pc' = "request" /\ UNCHANGED count
        BY <2>2, <3>1 DEF Operation, AppTypeOK
      <3>2. CASE UnknownCode
        BY <3>2, IncrementType DEF UnknownCode, AppTypeOK, Counter
      <3> QED
        BY <2>2, <3>1, <3>2 DEF ProcessTelemetryRequest
    <2> QED
      BY <2>1, <2>2 DEF Receive
  <1>4. AppTypeOK'
    BY <1>1, <1>3 DEF Receive, AppTypeOK, Transfer
  <1> QED
    BY <1>1, <1>3, <1>4 DEF Receive

LEMMA StopType ==
    ASSUME AppTypeOK, ReceiveFails \/ Exit
    PROVE  AppTypeOK'
  <1>1. CASE ReceiveFails
    BY <1>1 DEF ReceiveFails, AppTypeOK
  <1>2. CASE Exit
    <2>1. pipe' \in Seq(InputMessage) /\ subscribed' \subseteq {CMD, REQ_HK}
      BY <1>2 DEF Exit
    <2> QED
      BY <1>2, <2>1 DEF Exit, AppTypeOK
  <1> QED
    BY <1>1, <1>2

LEMMA ProceedType ==
    ASSUME AppTypeOK, NEW next \in Transfer, Proceed(next)
    PROVE  AppTypeOK'
  BY DEF Proceed, AppTypeOK

LEMMA CompleteType ==
    ASSUME AppTypeOK, NEW buffer \in Buffer, CompleteRequest(buffer)
    PROVE  AppTypeOK'
  <1>1. DeviceHK' \in Housekeeping
    BY DEF CompleteRequest, Parsed, Buffer, AppTypeOK
  <1>2. count' \in Counts
    BY IncrementType DEF CompleteRequest, AppTypeOK, Counter
  <1>3. telemetry' \in [count : Counts, DeviceHK : Housekeeping]
    BY <1>1, <1>2 DEF CompleteRequest, AppTypeOK
  <1> QED
    BY <1>1, <1>2, <1>3 DEF CompleteRequest, AppTypeOK

(***************************************************************************)
(* The inductive invariant.                                                *)
(***************************************************************************)

\* A transfer is made for a message that calls for it.
Handling ==
    /\ pc \in Transfer => msg \in InputMessage /\ Operation(msg)
    /\ pc = "command" => msg.mid = CMD

\* The reply to be read in this transaction was composed in it.
ReplyIsAnswer ==
    pc = "read" /\ i2c_read_valid =>
        /\ initialized_other_sims
        /\ i2c_out_data.status = status
        /\ i2c_out_data.sample >= asked
        /\ i2c_out_data.sample >= 1

\* What the application has is no newer than the last reply of the device.
StampOrder ==
    /\ sample >= 1
    /\ DeviceHK.sample <= i2c_out_data.sample
    /\ i2c_out_data.sample <= sample
    /\ asked <= sample

\* Once an operation has succeeded, the late start is over, and only the
\* first transaction of a switch command makes a status word change.
HealthyInv ==
    healthy => /\ initialized_other_sims
               /\ Confirming \/ DeviceHK.status = status

Inv ==
    /\ TypeOK
    /\ Handling
    /\ ReplyIsAnswer
    /\ StampOrder
    /\ ConfirmedHolds
    /\ HealthyInv

-----------------------------------------------------------------------------
\* Housekeeping data, expanded: what the provers need of stamps and words.
LEMMA HousekeepingFields ==
    ASSUME NEW h \in Housekeeping
    PROVE  /\ h.sample \in Nat
           /\ h.status \in [Switch -> StatusWord]
  BY DEF Housekeeping

\* The message ids differ.
LEMMA IdsDiffer == CMD # REQ_HK
  BY DEF CMD, REQ_HK

\* A frame, whole or damaged: what arrives is the frame or is refused.
LEMMA FrameType ==
    ASSUME NEW cmd \in 0..255, NEW data \in 0..255
    PROVE  LET f == CommandFrame(cmd, data) IN
           /\ f \in Frame /\ f.cmd = cmd /\ f.data = data
           /\ SendFrame(f) => \E g \in Frame : I2cWrite(g) /\ (g = f \/ ~Accepts(g))
  <1> DEFINE f == CommandFrame(cmd, data)
  <1>1. f \in Frame /\ f.cmd = cmd /\ f.data = data
    BY DEF CommandFrame, Frame
  <1> HIDE DEF f
  <1>2. \A s \in {f.cmd, TELEMETRY_REQUEST, RESET} \cup Switch : s \in 0..255
    <2>1. \A s \in Switch : s \in 0..255
      BY SwitchAssumption
    <2>2. TELEMETRY_REQUEST \in 0..255 /\ RESET \in 0..255 /\ f.cmd \in 0..255
      BY <1>1 DEF TELEMETRY_REQUEST, RESET
    <2> QED
      BY <2>1, <2>2
  <1>3. \A d \in {f.data, OFF, ON} : d \in 0..255
    BY <1>1 DEF OFF, ON
  <1>4. \A g \in Damaged(f) : g \in Frame /\ ~Accepts(g)
    BY <1>1, <1>2, <1>3 DEF Damaged, Frame, Accepts, WellFormed
  <1>5. SendFrame(f) => \E g \in Frame : I2cWrite(g) /\ (g = f \/ ~Accepts(g))
    BY <1>1, <1>4 DEF SendFrame
  <1> QED
    BY <1>1, <1>5 DEF f

\* The bytes that the application writes in its frames are bytes.
LEMMA BytesWritten ==
    /\ TELEMETRY_REQUEST \in 0..255 /\ 0 \in 0..255
    /\ \A m \in InputMessage :
          Operation(m) /\ m.mid = CMD =>
              /\ m.SwitchNumber \in Switch /\ m.SwitchNumber \in 0..255
              /\ m.State \in {OFF, ON} /\ m.State \in 0..255
  <1>1. TELEMETRY_REQUEST \in 0..255 /\ 0 \in 0..255
    BY DEF TELEMETRY_REQUEST
  <1>2. \A s \in Switch : s \in 0..255
    BY SwitchAssumption
  <1>3. \A v \in {OFF, ON} : v \in 0..255
    BY DEF OFF, ON
  <1>4. ASSUME NEW m \in InputMessage, Operation(m), m.mid = CMD
        PROVE  m.SwitchNumber \in Switch /\ m.State \in {OFF, ON}
    <2>1. m \in Message
      BY MessageAssumption
    <2>2. ValidSwitch(m)
      BY <1>4, IdsDiffer DEF Operation
    <2> QED
      BY <2>1, <2>2 DEF ValidSwitch, Message
  <1> QED
    BY <1>1, <1>2, <1>3, <1>4

\* What a read of the device leaves in the buffer is a buffer.
LEMMA BuffersRead ==
    ASSUME HardwareTypeOK
    PROVE  I2cRead \in Buffer /\ BadBuffer \in Buffer
  BY ZeroHousekeepingType DEF I2cRead, BadBuffer, Buffer, HardwareTypeOK

-----------------------------------------------------------------------------
LEMMA InitInv == Init => Inv
  <1> SUFFICES ASSUME Init PROVE Inv
    OBVIOUS
  <1>1. TypeOK
    BY AppStartType, HardwareInitType DEF Init, TypeOK
  <1>2. Handling /\ ReplyIsAnswer
    BY DEF Init, AppStart, Handling, ReplyIsAnswer, Transfer
  <1>3. StampOrder
    BY DEF Init, AppStart, HardwareInit, SwitchInit, StampOrder, ZeroHousekeeping
  <1>4. ConfirmedHolds /\ HealthyInv
    BY DEF Init, ConfirmedHolds, HealthyInv
  <1> QED
    BY <1>1, <1>2, <1>3, <1>4 DEF Inv

\* A message is sent.
LEMMA SendInv ==
    ASSUME Inv, NEW m \in InputMessage, Send(m)
    PROVE  Inv'
  <1>1. TypeOK'
    BY RouteType DEF Inv, TypeOK, Send, Route, HardwareTypeOK, hardwareVars,
                     modeVars, slaveVars, switchVars
  <1> QED
    BY <1>1 DEF Inv, Send, Route, Handling, ReplyIsAnswer, StampOrder,
                ConfirmedHolds, HealthyInv, Confirming, hardwareVars, modeVars,
                slaveVars, switchVars

\* A message is taken from the pipe.
LEMMA TakeMessageInv ==
    ASSUME Inv, TakeMessage
    PROVE  Inv'
  <1>1. /\ AppTypeOK'
        /\ msg' \in InputMessage
        /\ pc' \in {"receive", "command", "request"}
        /\ pc' = "command" => msg'.mid = CMD /\ Operation(msg')
        /\ pc' = "request" => msg'.mid = REQ_HK /\ Operation(msg')
    BY ReceiveType DEF Inv, TypeOK, TakeMessage
  <1>2. HardwareTypeOK'
    BY DEF Inv, TypeOK, TakeMessage, HardwareTypeOK, hardwareVars, modeVars,
           slaveVars, switchVars
  <1>3. dispatched' \in [commands : Nat, operations : Nat]
    BY DEF Inv, TypeOK, TakeMessage
  <1>4. asked' = sample
    BY DEF TakeMessage
  <1>5. TypeOK'
    BY <1>1, <1>2, <1>3, <1>4 DEF Inv, TypeOK, TakeMessage, HardwareTypeOK
  <1>6. Handling'
    BY <1>1 DEF Handling, Transfer
  <1>7. pc = "receive" /\ ~Confirming'
    BY <1>1, IdsDiffer DEF TakeMessage, Receive, Confirming
  <1>8. UNCHANGED <<status, i2c_out_data, sample, initialized_other_sims, DeviceHK>>
    BY DEF TakeMessage, Receive, hardwareVars, slaveVars, switchVars
  <1>9. ReplyIsAnswer'
    BY <1>1 DEF ReplyIsAnswer
  <1>10. StampOrder'
    BY <1>4, <1>8 DEF Inv, TypeOK, HardwareTypeOK, StampOrder
  <1>11. ConfirmedHolds'
    BY <1>8 DEF Inv, ConfirmedHolds, TakeMessage
  <1>12. HealthyInv'
    BY <1>7, <1>8 DEF Inv, HealthyInv, Confirming, TakeMessage
  <1> QED
    BY <1>5, <1>6, <1>9, <1>10, <1>11, <1>12 DEF Inv

\* The application starts, or stops.
LEMMA AppAloneInv ==
    ASSUME Inv, AppAlone
    PROVE  Inv'
  <1>1. AppTypeOK'
    BY InitCallType, StopType DEF Inv, TypeOK, AppAlone
  <1>2. HardwareTypeOK' /\ TypeOK'
    BY <1>1 DEF Inv, TypeOK, AppAlone, HardwareTypeOK, hardwareVars, modeVars,
                slaveVars, switchVars, historyVars
  <1>3. UNCHANGED <<msg, DeviceHK, status, i2c_out_data, sample,
                    initialized_other_sims, asked, confirmed, healthy>>
    BY DEF AppAlone, InitCallSucceeds, InitCallFails, ReceiveFails, Exit,
           hardwareVars, slaveVars, switchVars, historyVars
  <1>4. pc \notin Transfer /\ pc' \notin Transfer
    BY DEF AppAlone, InitCallSucceeds, InitCallFails, ReceiveFails, Exit,
           InitCall, AfterCall, Transfer
  <1>5. Handling' /\ ReplyIsAnswer' /\ ~Confirming /\ ~Confirming'
    BY <1>4 DEF Handling, ReplyIsAnswer, Confirming, Transfer
  <1>6. StampOrder' /\ ConfirmedHolds'
    BY <1>3 DEF Inv, StampOrder, ConfirmedHolds
  <1>7. HealthyInv'
    BY <1>3, <1>5 DEF Inv, HealthyInv
  <1> QED
    BY <1>2, <1>5, <1>6, <1>7 DEF Inv

\* A tick, a backdoor command, the end of the simulator, a delivery.
LEMMA DeviceInv ==
    ASSUME Inv, Device
    PROVE  Inv'
  <1>1. /\ HardwareTypeOK'
        /\ UNCHANGED <<slaveVars, initialized_other_sims, status>>
        /\ sample' >= sample
    BY OtherCallbacks DEF Inv, TypeOK, Device
  <1>2. TypeOK'
    BY <1>1 DEF Inv, TypeOK, Device, AppTypeOK, appVars, historyVars
  <1>3. Handling' /\ ConfirmedHolds' /\ HealthyInv' /\ ReplyIsAnswer'
    BY <1>1 DEF Inv, Device, appVars, historyVars, Handling, ConfirmedHolds,
                HealthyInv, Confirming, ReplyIsAnswer, slaveVars
  <1>4. /\ DeviceHK.sample \in Nat /\ i2c_out_data.sample \in Nat
        /\ sample \in Nat /\ sample' \in Nat /\ asked \in Nat
    BY <1>1, HousekeepingFields DEF Inv, TypeOK, AppTypeOK, HardwareTypeOK
  <1>5. StampOrder'
    BY <1>1, <1>4 DEF Inv, Device, appVars, historyVars, StampOrder, slaveVars
  <1> QED
    BY <1>2, <1>3, <1>5 DEF Inv

\* The first transaction of a switch command.
LEMMA CommandDeviceInv ==
    ASSUME Inv, CommandDevice
    PROVE  Inv'
  <1> DEFINE f == CommandFrame(msg.SwitchNumber, msg.State)
             Written == \E g \in Frame : I2cWrite(g) /\ (g = f \/ ~Accepts(g))
  <1>1. /\ pc = "command" /\ pc' = "request"
        /\ msg' = msg /\ msg \in InputMessage /\ Operation(msg) /\ msg.mid = CMD
        /\ UNCHANGED <<DeviceHK, asked, healthy>>
        /\ confirmed' = {p \in confirmed : p[1] # msg.SwitchNumber}
        /\ SendFrame(f) \/ UNCHANGED hardwareVars
    BY DEF CommandDevice, Proceed, Inv, Handling, Transfer
  <1>2. f.cmd = msg.SwitchNumber /\ (Written \/ UNCHANGED hardwareVars)
    <2>1. msg.SwitchNumber \in 0..255 /\ msg.State \in 0..255
      BY <1>1, BytesWritten
    <2> QED
      BY <1>1, <2>1, FrameType
  <1> HIDE DEF f
  <1>3. HardwareTypeOK
    BY DEF Inv, TypeOK
  <1>4. HardwareTypeOK'
    <2>1. CASE Written
      BY <1>3, <2>1, WriteType
    <2>2. CASE UNCHANGED hardwareVars
      BY <1>3, <2>2 DEF HardwareTypeOK, hardwareVars, modeVars, slaveVars, switchVars
    <2> QED
      BY <1>2, <2>1, <2>2
  <1>5. TypeOK'
    BY <1>4, ProceedType DEF Inv, TypeOK, CommandDevice, Transfer
  <1>6. /\ sample' = sample
        /\ i2c_out_data' = i2c_out_data \/ i2c_out_data'.sample = sample
        /\ initialized_other_sims => initialized_other_sims'
    <2>1. CASE Written
      BY <1>3, <2>1, WriteStamps
    <2>2. CASE UNCHANGED hardwareVars
      BY <2>2 DEF hardwareVars, slaveVars, switchVars
    <2> QED
      BY <1>2, <2>1, <2>2
  <1>7. \A s \in Switch : s # msg.SwitchNumber => status'[s].state = status[s].state
    <2>1. CASE Written
      BY <1>2, <1>3, <2>1, WriteStates, WriteKeepsStatus
    <2>2. CASE UNCHANGED hardwareVars
      BY <2>2 DEF hardwareVars, switchVars
    <2> QED
      BY <1>2, <2>1, <2>2
  <1>8. Handling' /\ ReplyIsAnswer'
    BY <1>1 DEF Handling, ReplyIsAnswer
  <1>9. StampOrder'
    <2>1. DeviceHK.sample \in Nat /\ i2c_out_data.sample \in Nat /\ sample \in Nat
      BY HousekeepingFields DEF Inv, TypeOK, AppTypeOK, HardwareTypeOK
    <2> QED
      BY <1>1, <1>6, <2>1 DEF Inv, StampOrder
  <1>10. ConfirmedHolds'
    <2>1. \A p \in confirmed : p[1] \in Switch
      BY DEF Inv, TypeOK
    <2> QED
      BY <1>1, <1>7, <2>1 DEF Inv, ConfirmedHolds
  <1>11. HealthyInv'
    BY <1>1, <1>6 DEF Inv, HealthyInv, Confirming
  <1> QED
    BY <1>5, <1>8, <1>9, <1>10, <1>11 DEF Inv

\* The write of a telemetry request.
LEMMA WriteRequestInv ==
    ASSUME Inv, WriteRequest
    PROVE  Inv'
  <1> DEFINE f == CommandFrame(TELEMETRY_REQUEST, 0)
  <1>1. /\ pc = "request" /\ pc' = "read"
        /\ msg' = msg /\ msg \in InputMessage /\ Operation(msg)
        /\ UNCHANGED <<DeviceHK, asked, healthy, confirmed>>
    BY DEF WriteRequest, Proceed, Inv, Handling, Transfer, historyVars
  <1>2. PICK g \in Frame : I2cWrite(g) /\ (g = f \/ ~Accepts(g))
    BY BytesWritten, FrameType DEF WriteRequest
  <1>3. g.cmd = TELEMETRY_REQUEST \/ ~Accepts(g)
    <2>1. f.cmd = TELEMETRY_REQUEST
      BY BytesWritten, FrameType
    <2> QED
      BY <1>2, <2>1
  <1> HIDE DEF f
  <1>4. HardwareTypeOK /\ HardwareTypeOK'
    BY <1>2, <1>3, WriteType DEF Inv, TypeOK
  <1>5. TypeOK'
    BY <1>4, ProceedType DEF Inv, TypeOK, WriteRequest, Transfer, historyVars
  <1>6. /\ sample' = sample
        /\ i2c_out_data' = i2c_out_data \/ i2c_out_data'.sample = sample
        /\ initialized_other_sims => initialized_other_sims' /\ status' = status
    BY <1>2, <1>3, <1>4, WriteStamps, WriteKeepsStatus
  <1>7. \A s \in Switch : status'[s].state = status[s].state
    <2>1. TELEMETRY_REQUEST \notin Switch
      BY SwitchAssumption DEF TELEMETRY_REQUEST
    <2> QED
      BY <1>2, <1>3, <1>4, <2>1, WriteStates, WriteKeepsStatus
  <1>8. Handling'
    BY <1>1 DEF Handling
  <1>9. /\ DeviceHK.sample \in Nat /\ i2c_out_data.sample \in Nat
        /\ sample \in Nat /\ asked \in Nat
    BY HousekeepingFields DEF Inv, TypeOK, AppTypeOK, HardwareTypeOK
  <1>10. ReplyIsAnswer'
    <2> SUFFICES ASSUME i2c_read_valid' PROVE ReplyIsAnswer'
      BY DEF ReplyIsAnswer
    <2>1. g.cmd = TELEMETRY_REQUEST
      BY <1>2, <1>3 DEF I2cWrite
    <2>2. /\ i2c_out_data' = [sample |-> sample, status |-> status']
          /\ initialized_other_sims'
      BY <1>2, <1>4, <2>1, WriteReply
    <2> QED
      BY <1>1, <1>9, <2>2 DEF ReplyIsAnswer, Inv, StampOrder
  <1>11. StampOrder'
    BY <1>1, <1>6, <1>9 DEF Inv, StampOrder
  <1>12. ConfirmedHolds'
    <2>1. \A p \in confirmed : p[1] \in Switch
      BY DEF Inv, TypeOK
    <2> QED
      BY <1>1, <1>7, <2>1 DEF Inv, ConfirmedHolds
  <1>13. HealthyInv'
    BY <1>1, <1>6 DEF Inv, HealthyInv, Confirming
  <1> QED
    BY <1>5, <1>8, <1>10, <1>11, <1>12, <1>13 DEF Inv

\* The four ways a request ends give the handler either a buffer that fails the
\* CRC check, or the reply the device composed for this request.
LEMMA Endings ==
    ASSUME Inv, LoseRequest \/ ReadReply \/ LoseReply
    PROVE  /\ pc \in {"request", "read"}
           /\ UNCHANGED hardwareVars
           /\ \E buffer \in Buffer :
                 /\ Complete(buffer)
                 /\ buffer.crc_ok =>
                       /\ pc = "read" /\ i2c_read_valid
                       /\ buffer.hk = i2c_out_data
  <1>1. I2cRead \in Buffer /\ BadBuffer \in Buffer /\ ~BadBuffer.crc_ok
    BY BuffersRead DEF Inv, TypeOK, BadBuffer
  <1>2. CASE LoseRequest \/ LoseReply
    BY <1>1, <1>2 DEF LoseRequest, LoseReply
  <1>3. CASE ReadReply
    <2>1. I2cRead.crc_ok => i2c_read_valid /\ I2cRead.hk = i2c_out_data
      BY DEF I2cRead, BadBuffer
    <2> QED
      BY <1>1, <1>3, <2>1 DEF ReadReply
  <1> QED
    BY <1>2, <1>3

\* The end of a request.
LEMMA EndInv ==
    ASSUME Inv, LoseRequest \/ ReadReply \/ LoseReply
    PROVE  Inv'
  <1>1. pc \in {"request", "read"} /\ UNCHANGED hardwareVars
    BY Endings
  <1>2. PICK buffer \in Buffer :
            /\ Complete(buffer)
            /\ buffer.crc_ok =>
                  pc = "read" /\ i2c_read_valid /\ buffer.hk = i2c_out_data
    BY Endings
  <1>3. UNCHANGED <<status, sample, i2c_out_data, initialized_other_sims>>
    BY <1>1 DEF hardwareVars, slaveVars, switchVars
  <1>4. /\ pc' = "receive" /\ msg' = msg /\ asked' = asked
        /\ DeviceHK' = IF buffer.crc_ok THEN i2c_out_data ELSE DeviceHK
        /\ healthy' = Succeeds(buffer)
    BY <1>2 DEF Complete, CompleteRequest, Parsed
  <1>5. buffer.crc_ok => initialized_other_sims /\ i2c_out_data.status = status
    BY <1>2 DEF Inv, ReplyIsAnswer
  <1>6. msg \in InputMessage /\ Operation(msg)
    BY <1>1 DEF Inv, Handling, Transfer
  <1>7. confirmed' \subseteq confirmed \cup
            {p \in Switch \X {OFF, ON} : status[p[1]].state = p[2]}
    <2>1. CASE msg.mid = CMD /\ Succeeds(buffer)
      <3>1. msg.SwitchNumber \in Switch /\ msg.State \in {OFF, ON}
        BY <1>6, <2>1, BytesWritten
      <3>2. status[msg.SwitchNumber].state = msg.State
        BY <1>2, <1>5, <2>1 DEF Succeeds
      <3> QED
        BY <1>2, <2>1, <3>1, <3>2 DEF Complete
    <2>2. CASE ~(msg.mid = CMD /\ Succeeds(buffer))
      BY <1>2, <2>2 DEF Complete
    <2> QED
      BY <2>1, <2>2
  <1>8. TypeOK'
    <2>1. AppTypeOK'
      BY <1>2, CompleteType DEF Inv, TypeOK, Complete
    <2>2. HardwareTypeOK'
      BY <1>1 DEF Inv, TypeOK, HardwareTypeOK, hardwareVars, modeVars,
                  slaveVars, switchVars
    <2>3. healthy' \in BOOLEAN /\ verdict' \in {"none", "success", "failure"}
      BY <1>2, Zenon DEF Inv, TypeOK, Complete, Succeeds
    <2>4. transmitted' \in Nat
      BY <1>2 DEF Inv, TypeOK, Complete
    <2>5. confirmed' \subseteq Switch \X {OFF, ON}
      BY <1>7 DEF Inv, TypeOK
    <2> QED
      BY <1>2, <2>1, <2>2, <2>3, <2>4, <2>5 DEF Inv, TypeOK, Complete
  <1>9. Handling' /\ ReplyIsAnswer'
    BY <1>4 DEF Handling, ReplyIsAnswer, Transfer
  <1>10. StampOrder'
    <2>1. DeviceHK.sample \in Nat /\ i2c_out_data.sample \in Nat /\ sample \in Nat
      BY HousekeepingFields DEF Inv, TypeOK, AppTypeOK, HardwareTypeOK
    <2> QED
      BY <1>3, <1>4, <2>1 DEF Inv, StampOrder
  <1>11. ConfirmedHolds'
    BY <1>3, <1>7 DEF Inv, ConfirmedHolds
  <1>12. HealthyInv'
    <2>1. healthy' => buffer.crc_ok
      BY <1>4 DEF Succeeds
    <2> QED
      BY <1>3, <1>4, <1>5, <2>1 DEF HealthyInv
  <1> QED
    BY <1>8, <1>9, <1>10, <1>11, <1>12 DEF Inv

\* Nothing happens.
LEMMA StutterInv ==
    ASSUME Inv, UNCHANGED vars
    PROVE  Inv'
  BY DEF vars, appVars, hardwareVars, modeVars, slaveVars, switchVars, historyVars,
         Inv, TypeOK, AppTypeOK, HardwareTypeOK, Handling, ReplyIsAnswer,
         StampOrder, ConfirmedHolds, HealthyInv, Confirming, Operation, ValidSwitch

LEMMA NextInv == Inv /\ [Next]_vars => Inv'
  <1> SUFFICES ASSUME Inv, [Next]_vars PROVE Inv'
    OBVIOUS
  <1>1. ASSUME NEW m \in InputMessage, Send(m) PROVE Inv'
    BY <1>1, SendInv
  <1>2. CASE AppAlone
    BY <1>2, AppAloneInv
  <1>3. CASE TakeMessage
    BY <1>3, TakeMessageInv
  <1>4. CASE CommandDevice
    BY <1>4, CommandDeviceInv
  <1>5. CASE WriteRequest
    BY <1>5, WriteRequestInv
  <1>6. CASE LoseRequest \/ ReadReply \/ LoseReply
    BY <1>6, EndInv
  <1>7. CASE Device
    BY <1>7, DeviceInv
  <1>8. CASE UNCHANGED vars
    BY <1>8, StutterInv
  <1> QED
    BY <1>1, <1>2, <1>3, <1>4, <1>5, <1>6, <1>7, <1>8 DEF Next

(***************************************************************************)
(* The invariant holds in every reachable state.                           *)
(***************************************************************************)
THEOREM Invariance == Spec => []Inv
  BY InitInv, NextInv, PTL DEF Spec

(***************************************************************************)
(* Every variable of the application and of the device stays in its type:  *)
(* no counter leaves its width, no status word is anything but on or off.  *)
(***************************************************************************)
THEOREM TypeCorrect == Spec => []TypeOK
  <1>1. Inv => TypeOK
    BY DEF Inv
  <1> QED
    BY Invariance, <1>1, PTL

(***************************************************************************)
(* The application never makes i2c_read index an empty vector.             *)
(***************************************************************************)
THEOREM ReadsComposed == Spec => []ReplyWasComposed
  <1>1. Inv => ReplyWasComposed
    BY DEF Inv, ReplyIsAnswer, ReplyWasComposed, ZeroHousekeeping
  <1> QED
    BY Invariance, <1>1, PTL

(***************************************************************************)
(* A switch that GENERIC_EPS_CommandSwitch reported as set is as reported, *)
(* until the next command for it.                                          *)
(***************************************************************************)
THEOREM ConfirmedIsSet == Spec => []ConfirmedHolds
  <1>1. Inv => ConfirmedHolds
    BY DEF Inv
  <1> QED
    BY Invariance, <1>1, PTL

(***************************************************************************)
(* After a good device operation the application's housekeeping data have  *)
(* the status words of the device.                                         *)
(***************************************************************************)
THEOREM HealthyMirrors == Spec => []HealthyMirrorsDevice
  <1>1. Inv => HealthyMirrorsDevice
    BY DEF Inv, HealthyInv, HealthyMirrorsDevice
  <1> QED
    BY Invariance, <1>1, PTL

-----------------------------------------------------------------------------
\* DeviceHK moves only at the end of a request, to the reply of this request.
LEMMA StampStep ==
    ASSUME Inv, [Next]_vars
    PROVE  DeviceHK'.sample >= DeviceHK.sample
  <1>1. /\ DeviceHK.sample \in Nat /\ i2c_out_data.sample \in Nat
        /\ DeviceHK.sample <= i2c_out_data.sample
    BY HousekeepingFields DEF Inv, TypeOK, AppTypeOK, HardwareTypeOK, StampOrder
  <1>2. CASE LoseRequest \/ ReadReply \/ LoseReply
    <2>1. PICK buffer \in Buffer :
              Complete(buffer) /\ (buffer.crc_ok => buffer.hk = i2c_out_data)
      BY <1>2, Endings
    <2> QED
      BY <1>1, <2>1 DEF Complete, CompleteRequest, Parsed
  <1>3. CASE UNCHANGED DeviceHK
    BY <1>1, <1>3
  <1> QED
    BY <1>2, <1>3 DEF Next, vars, appVars, Send, Route, AppAlone, InitCallSucceeds,
                      InitCallFails, ReceiveFails, Exit, TakeMessage, Receive,
                      CommandDevice, WriteRequest, Proceed, Device

(***************************************************************************)
(* The housekeeping data never go back to an earlier state of the device.  *)
(***************************************************************************)
THEOREM NeverGoesBack == Spec => HousekeepingNeverGoesBack
  <1>1. Inv /\ [Next]_vars => [DeviceHK'.sample >= DeviceHK.sample]_vars
    BY StampStep
  <1> QED
    BY Invariance, <1>1, PTL DEF Spec, HousekeepingNeverGoesBack

-----------------------------------------------------------------------------
\* A status word changes only in a write of the I2C bus, whichever the step.
LEMMA StatusSteps ==
    ASSUME Inv, [Next]_vars
    PROVE  CommandDevice \/ WriteRequest \/ UNCHANGED status
  <1>1. CASE Device
    BY <1>1, OtherCallbacks DEF Inv, TypeOK, Device
  <1>2. CASE LoseRequest \/ ReadReply \/ LoseReply
    BY <1>2, Endings DEF hardwareVars, switchVars
  <1>3. CASE UNCHANGED status
    BY <1>3
  <1> QED
    BY <1>1, <1>2, <1>3 DEF Next, vars, Send, AppAlone, TakeMessage, hardwareVars,
                            switchVars

\* A telemetry request switches nothing on or off.
LEMMA RequestSwitchesNothing ==
    ASSUME Inv, WriteRequest, NEW s \in Switch
    PROVE  status'[s].state = status[s].state
  <1> DEFINE f == CommandFrame(TELEMETRY_REQUEST, 0)
  <1>1. PICK g \in Frame : I2cWrite(g) /\ (g = f \/ ~Accepts(g))
    BY BytesWritten, FrameType DEF WriteRequest
  <1>2. g.cmd = TELEMETRY_REQUEST \/ ~Accepts(g)
    <2>1. f.cmd = TELEMETRY_REQUEST
      BY BytesWritten, FrameType
    <2> QED
      BY <1>1, <2>1
  <1> HIDE DEF f
  <1>3. TELEMETRY_REQUEST # s
    BY SwitchAssumption DEF TELEMETRY_REQUEST
  <1> QED
    BY <1>1, <1>2, <1>3, WriteStates, WriteKeepsStatus DEF Inv, TypeOK

\* A switch command switches only its switch, and only to what it says.
LEMMA CommandSwitchesItsOwn ==
    ASSUME Inv, CommandDevice, NEW s \in Switch,
           status'[s].state # status[s].state
    PROVE  msg.SwitchNumber = s /\ msg.State = status'[s].state
  <1> DEFINE f == CommandFrame(msg.SwitchNumber, msg.State)
  <1>1. msg.SwitchNumber \in 0..255 /\ msg.State \in 0..255
    BY BytesWritten DEF CommandDevice, Inv, Handling, Transfer
  <1>2. f \in Frame /\ f.cmd = msg.SwitchNumber /\ f.data = msg.State
    BY <1>1, FrameType DEF CommandFrame
  <1>3. \/ \E g \in Frame : I2cWrite(g) /\ (g = f \/ ~Accepts(g))
        \/ status' = status
    BY <1>1, FrameType DEF CommandDevice, hardwareVars, switchVars
  <1> HIDE DEF f
  <1>4. I2cWrite(f)
    BY <1>3, WriteKeepsStatus DEF Inv, TypeOK
  <1> QED
    BY <1>2, <1>4, WriteStates DEF Inv, TypeOK

(***************************************************************************)
(* No switch turns on or off but by a complete switch command of the       *)
(* ground, for that switch and that state.                                 *)
(***************************************************************************)
THEOREM OnlyGroundCommandsSwitch == Spec => SwitchOnlyByGroundCommand
  <1>1. ASSUME Inv, [Next]_vars, NEW s \in Switch,
               status'[s].state # status[s].state
        PROVE  /\ pc = "command"
               /\ IsSwitchCommand(msg)
               /\ msg.SwitchNumber = s /\ msg.State = status'[s].state
    <2>1. CommandDevice
      BY <1>1, StatusSteps, RequestSwitchesNothing
    <2>2. msg.SwitchNumber = s /\ msg.State = status'[s].state
      BY <1>1, <2>1, CommandSwitchesItsOwn
    <2>3. pc = "command" /\ IsSwitchCommand(msg)
      BY <1>1, <2>1, IdsDiffer
         DEF CommandDevice, Inv, Handling, Transfer, Operation, IsSwitchCommand
    <2> QED
      BY <2>2, <2>3
  <1>2. Inv /\ [Next]_vars =>
            [\A s \in Switch :
                status'[s].state # status[s].state =>
                    /\ pc = "command"
                    /\ IsSwitchCommand(msg)
                    /\ msg.SwitchNumber = s /\ msg.State = status'[s].state]_vars
    BY <1>1
  <1> QED
    BY Invariance, <1>2, PTL DEF Spec, SwitchOnlyByGroundCommand

-----------------------------------------------------------------------------
\* A packet leaves only at the end of a request that was made for one.
LEMMA PacketStep ==
    ASSUME Inv, [Next]_vars, transmitted' # transmitted
    PROVE  /\ telemetry' = [count |-> count', DeviceHK |-> DeviceHK']
           /\ \/ Fresh' /\ count' = Increment(count, "DeviceCount")
              \/ /\ UNCHANGED DeviceHK
                 /\ count' = Increment(count, "DeviceErrorCount")
  <1>1. LoseRequest \/ ReadReply \/ LoseReply
    BY DEF Next, vars, Send, AppAlone, TakeMessage, CommandDevice, WriteRequest,
           Device, historyVars
  <1>2. PICK buffer \in Buffer :
            /\ Complete(buffer)
            /\ buffer.crc_ok => pc = "read" /\ i2c_read_valid /\ buffer.hk = i2c_out_data
    BY <1>1, Endings
  <1>3. UNCHANGED status
    BY <1>1, Endings DEF hardwareVars, switchVars
  <1>4. transmitted \in Nat
    BY DEF Inv, TypeOK
  <1>5. msg.mid = REQ_HK /\ msg.mid # CMD
    BY <1>2, <1>4, IdsDiffer DEF Complete
  <1>6. telemetry' = [count |-> count', DeviceHK |-> DeviceHK']
    BY <1>2, <1>5 DEF Complete, CompleteRequest
  <1>7. CASE buffer.crc_ok
    <2>1. count' = Increment(count, "DeviceCount") /\ DeviceHK' = i2c_out_data
      BY <1>2, <1>5, <1>7 DEF Complete, CompleteRequest, Succeeds, Parsed
    <2>2. Fresh'
      BY <1>2, <1>3, <1>7, <2>1 DEF Inv, ReplyIsAnswer, Fresh, Complete
    <2> QED
      BY <1>6, <2>1, <2>2
  <1>8. CASE ~buffer.crc_ok
    BY <1>2, <1>6, <1>8 DEF Complete, CompleteRequest, Succeeds, Parsed
  <1> QED
    BY <1>7, <1>8

(***************************************************************************)
(* What GENERIC_EPS_ReportHousekeeping publishes is fresh, or is counted as*)
(* a device error.                                                         *)
(***************************************************************************)
THEOREM FreshOrFlagged == Spec => TelemetryFreshOrFlagged
  <1>1. Inv /\ [Next]_vars =>
            [transmitted' # transmitted =>
                /\ telemetry' = [count |-> count', DeviceHK |-> DeviceHK']
                /\ \/ Fresh' /\ count' = Increment(count, "DeviceCount")
                   \/ /\ UNCHANGED DeviceHK
                      /\ count' = Increment(count, "DeviceErrorCount")]_vars
    BY PacketStep
  <1> QED
    BY Invariance, <1>1, PTL DEF Spec, TelemetryFreshOrFlagged
-----------------------------------------------------------------------------
(***************************************************************************)
(* The refinement: what the contract sees of a state.                      *)
(***************************************************************************)
actualC == [s \in Switch |-> status[s].state]
knownC == [s \in Switch |-> DeviceHK.status[s].state]
pendingC == IF msg.mid = CMD /\ pc \in Transfer
            THEN {[switch |-> msg.SwitchNumber, state |-> msg.State]} ELSE {}

\* The initial states keep the contract.
LEMMA ContractInit == Init => Contract!Init
  <1> SUFFICES ASSUME Init PROVE Contract!Init
    OBVIOUS
  <1>1. actualC \in [Switch -> {OFF, ON}]
    BY ConfigurationAssumption DEF actualC, Init, HardwareInit, SwitchInit, StatusWord
  <1>2. knownC = [s \in Switch |-> OFF]
    BY DEF knownC, Init, AppStart, ZeroHousekeeping
  <1>3. pendingC = {} /\ verdict = "none"
    BY DEF pendingC, Init, AppStart, Transfer
  <1> QED
    BY <1>1, <1>2, <1>3 DEF Contract!Init, actualC, knownC, pendingC

\* A message taken from the pipe is nothing to the contract, or it asks.
LEMMA TakeMessageKeeps ==
    ASSUME Inv, TakeMessage
    PROVE  Contract!Next \/ UNCHANGED <<actualC, knownC, pendingC, verdict>>
  <1>1. /\ msg' \in InputMessage
        /\ pc' \in {"receive", "command", "request"}
        /\ pc' = "command" => msg'.mid = CMD /\ Operation(msg')
        /\ pc' = "request" => msg'.mid = REQ_HK /\ Operation(msg')
    BY ReceiveType DEF Inv, TypeOK, TakeMessage
  <1>2. /\ UNCHANGED <<actualC, knownC, verdict>>
        /\ pendingC = {}
    BY DEF TakeMessage, Receive, hardwareVars, switchVars, actualC, knownC,
           pendingC, Transfer
  <1>3. CASE pc' = "command"
    <2> DEFINE r == [switch |-> msg'.SwitchNumber, state |-> msg'.State]
    <2>1. r \in Contract!Request
      BY <1>1, <1>3, BytesWritten DEF Contract!Request
    <2>2. pendingC' = {r}
      BY <1>1, <1>3 DEF pendingC, Transfer
    <2>3. Contract!Ask(r)
      BY <1>2, <2>2 DEF Contract!Ask, actualC, knownC, pendingC
    <2> QED
      BY <2>1, <2>3 DEF Contract!Next
  <1>4. CASE pc' # "command"
    <2>1. pendingC' = {}
      BY <1>1, <1>4, IdsDiffer DEF pendingC, Transfer
    <2> QED
      BY <1>2, <2>1
  <1> QED
    BY <1>3, <1>4

\* The first transaction of a switch command switches it, or nothing.
LEMMA CommandDeviceKeeps ==
    ASSUME Inv, CommandDevice
    PROVE  Contract!Next \/ UNCHANGED <<actualC, knownC, pendingC, verdict>>
  <1> DEFINE r == [switch |-> msg.SwitchNumber, state |-> msg.State]
  <1>1. /\ msg \in InputMessage /\ Operation(msg) /\ msg.mid = CMD
        /\ UNCHANGED <<msg, DeviceHK, verdict>> /\ pc' = "request"
    BY DEF CommandDevice, Proceed, Inv, Handling, Transfer
  <1>2. /\ r \in Contract!Request
        /\ pendingC = {r} /\ UNCHANGED <<knownC, pendingC, verdict>>
    <2>1. msg.SwitchNumber \in Switch /\ msg.State \in {OFF, ON}
      BY <1>1, BytesWritten
    <2>2. pc \in Transfer /\ pc' \in Transfer
      BY DEF CommandDevice, Proceed, Transfer
    <2> QED
      BY <1>1, <2>1, <2>2 DEF Contract!Request, pendingC, knownC
  <1>3. CASE \A s \in Switch : status'[s].state = status[s].state
    BY <1>2, <1>3 DEF actualC
  <1>4. CASE \E s \in Switch : status'[s].state # status[s].state
    <2>1. \A s \in Switch : status'[s].state # status[s].state =>
              msg.SwitchNumber = s /\ msg.State = status'[s].state
      BY CommandSwitchesItsOwn
    <2>2. actualC' = [actualC EXCEPT ![msg.SwitchNumber] = msg.State]
      BY <1>4, <2>1 DEF actualC
    <2>3. PICK q \in Contract!Request : q = r
      BY <1>2
    <2>4. Contract!Switches(q)
      BY <1>2, <2>2, <2>3 DEF Contract!Switches, actualC, knownC, pendingC
    <2> QED
      BY <2>4 DEF Contract!Next
  <1> QED
    BY <1>3, <1>4

\* The end of a request succeeds or fails, or it is a look at the device.
LEMMA EndKeeps ==
    ASSUME Inv, LoseRequest \/ ReadReply \/ LoseReply
    PROVE  Contract!Next \/ UNCHANGED <<actualC, knownC, pendingC, verdict>>
  <1>1. pc \in Transfer /\ UNCHANGED status
    BY Endings DEF hardwareVars, switchVars, Transfer
  <1>2. PICK buffer \in Buffer :
            /\ Complete(buffer)
            /\ buffer.crc_ok => pc = "read" /\ i2c_read_valid /\ buffer.hk = i2c_out_data
    BY Endings
  <1>3. buffer.crc_ok => buffer.hk.status = status
    BY <1>2 DEF Inv, ReplyIsAnswer
  <1>4. /\ knownC' = IF buffer.crc_ok THEN actualC ELSE knownC
        /\ actualC' = actualC /\ pendingC' = {}
    BY <1>1, <1>2, <1>3
       DEF Complete, CompleteRequest, Parsed, knownC, actualC, pendingC, Transfer
  <1>5. CASE msg.mid = CMD
    <2> DEFINE r == [switch |-> msg.SwitchNumber, state |-> msg.State]
    <2>1. msg \in InputMessage /\ Operation(msg)
      BY <1>1 DEF Inv, Handling
    <2>2. msg.SwitchNumber \in Switch /\ r \in Contract!Request /\ pendingC = {r}
      BY <1>1, <1>5, <2>1, BytesWritten DEF Contract!Request, pendingC
    <2>3. Succeeds(buffer) <=>
              buffer.crc_ok /\ actualC[r.switch] = r.state
      BY <1>3, <1>5, <2>2 DEF Succeeds, actualC
    <2>4. verdict' = IF Succeeds(buffer) THEN "success" ELSE "failure"
      BY <1>2, <1>5 DEF Complete
    <2>5. PICK q \in Contract!Request : q = r
      BY <2>2
    <2>6. Contract!Succeed(q) \/ Contract!Fail(q)
      BY <1>4, <2>2, <2>3, <2>4, <2>5
         DEF Contract!Succeed, Contract!Fail, actualC, knownC, pendingC
    <2> QED
      BY <2>6 DEF Contract!Next
  <1>6. CASE msg.mid # CMD
    <2>1. pendingC = {} /\ verdict' = verdict
      BY <1>2, <1>6 DEF Complete, pendingC
    <2>2. Contract!Look \/ knownC' = knownC
      BY <1>4, <2>1 DEF Contract!Look, actualC, knownC, pendingC
    <2> QED
      BY <1>4, <2>1, <2>2 DEF Contract!Next
  <1> QED
    BY <1>5, <1>6

\* Every other step is nothing to the contract.
LEMMA OtherSteps ==
    ASSUME Inv, [Next]_vars,
           ~TakeMessage, ~CommandDevice, ~(LoseRequest \/ ReadReply \/ LoseReply)
    PROVE  UNCHANGED <<actualC, knownC, pendingC, verdict>>
  <1>1. \A s \in Switch : status'[s].state = status[s].state
    BY StatusSteps, RequestSwitchesNothing
  <1>2. /\ UNCHANGED <<DeviceHK, msg, verdict>>
        /\ pc \in Transfer <=> pc' \in Transfer
    <2>1. CASE WriteRequest
      BY <2>1 DEF WriteRequest, Proceed, historyVars, Transfer
    <2>2. CASE AppAlone
      BY <2>2 DEF AppAlone, InitCallSucceeds, InitCallFails, ReceiveFails, Exit,
                  historyVars, InitCall, AfterCall, Transfer
    <2>3. CASE UNCHANGED <<DeviceHK, msg, pc, verdict>>
      BY <2>3
    <2> QED
      BY <2>1, <2>2, <2>3 DEF Next, vars, appVars, historyVars, Send, Route, Device
  <1> QED
    BY <1>1, <1>2 DEF actualC, knownC, pendingC

(***************************************************************************)
(* The application and the device together implement SwitchContract.       *)
(***************************************************************************)
THEOREM KeepsContract == Spec => ContractKept
  <1>1. Init => Contract!Init
    BY ContractInit
  <1>2. Inv /\ [Next]_vars => [Contract!Next]_(Contract!vars)
    <2> SUFFICES ASSUME Inv, [Next]_vars
                 PROVE  Contract!Next \/ UNCHANGED <<actualC, knownC, pendingC, verdict>>
      BY DEF Contract!vars, actualC, knownC, pendingC
    <2> QED
      BY TakeMessageKeeps, CommandDeviceKeeps, EndKeeps, OtherSteps
  <1> QED
    BY Invariance, <1>1, <1>2, PTL DEF Spec, ContractKept, Contract!Spec

-----------------------------------------------------------------------------
\* What a step does to the device is one of its callbacks.
LEMMA StepIsDevice == Inv /\ [Next]_vars => [HardwareNext]_hardwareVars
  <1> SUFFICES ASSUME Inv, [Next]_vars PROVE [HardwareNext]_hardwareVars
    OBVIOUS
  <1>1. CASE CommandDevice
    <2>1. msg \in InputMessage /\ Operation(msg) /\ msg.mid = CMD
      BY <1>1 DEF CommandDevice, Inv, Handling, Transfer
    <2>2. msg.SwitchNumber \in 0..255 /\ msg.State \in 0..255
      BY <2>1, BytesWritten
    <2>3. (\E g \in Frame : I2cWrite(g)) \/ UNCHANGED hardwareVars
      BY <1>1, <2>2, FrameType DEF CommandDevice
    <2> QED
      BY <2>3 DEF HardwareNext
  <1>2. CASE WriteRequest
    <2>1. \E g \in Frame : I2cWrite(g)
      BY <1>2, BytesWritten, FrameType DEF WriteRequest
    <2> QED
      BY <2>1 DEF HardwareNext
  <1>3. CASE Device
    <2>1. {"ENABLE", "DISABLE", "STOP"} \subseteq BackdoorCommand
      BY DEF BackdoorCommand, Advertised
    <2> QED
      BY <1>3, <2>1 DEF Device, HardwareNext
  <1>4. CASE \/ \E m \in InputMessage : Send(m)
             \/ AppAlone \/ TakeMessage \/ LoseRequest \/ LoseReply \/ ReadReply
    BY <1>4 DEF Send, AppAlone, TakeMessage, LoseRequest, LoseReply, ReadReply
  <1>5. CASE UNCHANGED vars
    BY <1>5 DEF vars
  <1> QED
    BY <1>1, <1>2, <1>3, <1>4, <1>5 DEF Next

(***************************************************************************)
(* The application and the bus are one master of the device: what they do  *)
(* to it is what HardwareSpec allows.                                      *)
(***************************************************************************)
THEOREM IsDevice == Spec => HardwareSpec
  <1>1. Init => HardwareInit
    BY DEF Init
  <1> QED
    BY <1>1, Invariance, StepIsDevice, PTL DEF Spec, HardwareSpec

(***************************************************************************)
(* A switch is reported as set only after the late start.                  *)
(***************************************************************************)
Started == confirmed # {} => initialized_other_sims

LEMMA StartedInv == Inv /\ Started /\ [Next]_vars => Started'
  <1> SUFFICES ASSUME Inv, Started, [Next]_vars PROVE Started'
    OBVIOUS
  <1>1. initialized_other_sims => initialized_other_sims'
    <2>1. CASE \E f \in Frame : I2cWrite(f)
      BY <2>1, WriteStamps DEF Inv, TypeOK
    <2>2. CASE \/ Tick \/ Shutdown \/ \E n \in Node : Deliver(n)
               \/ \E c \in BackdoorCommand : command_callback(c)
      BY <2>2, OtherCallbacks DEF Inv, TypeOK
    <2>3. CASE UNCHANGED hardwareVars
      BY <2>3 DEF hardwareVars, switchVars
    <2> QED
      BY <2>1, <2>2, <2>3, StepIsDevice DEF HardwareNext
  <1>2. CASE confirmed' \subseteq confirmed
    BY <1>1, <1>2 DEF Started
  <1>3. CASE LoseRequest \/ ReadReply \/ LoseReply
    <2>1. PICK buffer \in Buffer :
              /\ Complete(buffer)
              /\ buffer.crc_ok =>
                    pc = "read" /\ i2c_read_valid /\ buffer.hk = i2c_out_data
      BY <1>3, Endings
    <2>2. CASE buffer.crc_ok
      BY <1>1, <2>1, <2>2 DEF Inv, ReplyIsAnswer, Started
    <2>3. CASE ~buffer.crc_ok
      BY <1>2, <2>1, <2>3 DEF Complete, Succeeds
    <2> QED
      BY <2>2, <2>3
  <1>4. CASE \/ \E m \in InputMessage : Send(m)
             \/ AppAlone \/ TakeMessage \/ CommandDevice \/ WriteRequest \/ Device
             \/ UNCHANGED vars
    BY <1>2, <1>4 DEF Send, AppAlone, TakeMessage, CommandDevice, WriteRequest, Device,
                      historyVars, vars
  <1> QED
    BY <1>3, <1>4 DEF Next

(***************************************************************************)
(* The simulators behind the switches that were reported as set have been  *)
(* told what was reported.                                                 *)
(***************************************************************************)
THEOREM ConfirmedReaches == Spec => []ConfirmedReachesNodes
  <1>1. Init => Started
    BY DEF Init, Started
  <1>2. Inv /\ HardwareInv /\ Started => ConfirmedReachesNodes
    <2> SUFFICES ASSUME Inv, HardwareInv, Started, NEW p \in confirmed
                 PROVE  p[2] = ON <=> LastWord(NodeOf[p[1]]) = Word(ON)
      BY DEF ConfirmedReachesNodes
    <2>1. p[1] \in Switch /\ p[2] \in {OFF, ON} /\ status[p[1]].state = p[2]
      BY DEF Inv, TypeOK, ConfirmedHolds
    <2>2. initialized_other_sims
      BY DEF Started
    <2> DEFINE word == LastWord(NodeOf[p[1]])
    <2>3. /\ word # "unknown" => word = Word(p[2])
          /\ p[2] = ON => word # "unknown"
      BY <2>1, <2>2 DEF HardwareInv, NodesToldSwitchState
    <2> HIDE DEF word
    <2>4. p[2] = ON <=> word = Word(ON)
      BY <2>1, <2>3, Words
    <2> QED
      BY <2>4 DEF word
  <1>3. Spec => []HardwareInv
    BY IsDevice, HardwareInvariance, PTL
  <1> QED
    BY <1>1, <1>2, <1>3, Invariance, StartedInv, PTL DEF Spec
=============================================================================
