------------------------------- MODULE EpsApp -------------------------------
(***************************************************************************)
(* The flight software application (fsw/cfs/src/generic_eps_app.c) with the*)
(* device layer it calls (fsw/shared/generic_eps_device.c), up to the I2C  *)
(* bus.                                                                    *)
(*                                                                         *)
(* One message is handled at a time.  A handler that uses the device is cut*)
(* at its I2C transfers, between which the device may change:              *)
(*                                                                         *)
(*    receive --> command --> request --> read --> receive    switch       *)
(*    receive ------------->  request --> read --> receive    housekeeping *)
(*                                                                         *)
(* EpsSystem makes the transfers, and hands what a read leaves in the      *)
(* buffer to CompleteRequest.                                              *)
(***************************************************************************)
EXTENDS EpsProtocol, Sequences

CONSTANTS
    InputMessage,   \* the messages that the software bus carries
    PipeDepth,      \* GENERIC_EPS_PIPE_DEPTH, 32 in the code
    CounterModulus  \* the counters are uint8: 256 in the code

CMD == "GENERIC_EPS_CMD_MID"
REQ_HK == "GENERIC_EPS_REQ_HK_MID"

NOOP_CC == 0
RESET_COUNTERS_CC == 1
SWITCH_CC == 2
REQ_HK_TLM == 0

\* sizeof: a command header of the cFE, and the two bytes of a switch command.
NoArgsLength == 8
SwitchLength == 10

\* SwitchNumber and State matter only in a switch command of the right length.
Message == [mid : {CMD, REQ_HK}, code : Nat, length : Nat,
            SwitchNumber : Switch \cup 8..255, State : 0..255]

ASSUME MessageAssumption == InputMessage \subseteq Message
ASSUME SizeAssumption ==
    PipeDepth \in Nat \ {0} /\ CounterModulus \in Nat \ {0}

VARIABLES
    pc,          \* where EPS_AppMain is
    RunStatus,   \* AppData.RunStatus
    subscribed,  \* message ids that the software bus routes to CmdPipe
    pipe,        \* CmdPipe
    msg,         \* AppData.MsgPtr
    count,       \* the four counters of AppData.HkTelemetryPkt
    DeviceHK,    \* AppData.HkTelemetryPkt.DeviceHK
    telemetry    \* the last HkTelemetryPkt transmitted

appVars == <<pc, RunStatus, subscribed, pipe, msg, count, DeviceHK, telemetry>>

Counter == {"CommandCount", "CommandErrorCount", "DeviceCount", "DeviceErrorCount"}
Counts == [Counter -> 0..(CounterModulus - 1)]
ZeroCounts == [c \in Counter |-> 0]

InitCall == {"EVS_Register", "CreatePipe", "SubscribeCmd", "SubscribeReqHk",
             "i2c_master_init", "SendStartupEvent"}
Transfer == {"command", "request", "read"}

NoMessage == [mid |-> REQ_HK, code |-> REQ_HK_TLM, length |-> 0,
              SwitchNumber |-> 8, State |-> 0]

AppTypeOK ==
    /\ pc \in InitCall \cup Transfer \cup {"receive", "exited"}
    /\ RunStatus \in {"APP_RUN", "APP_ERROR"}
    /\ subscribed \subseteq {CMD, REQ_HK}
    /\ pipe \in Seq(InputMessage)
    /\ msg \in InputMessage \cup {NoMessage}
    /\ count \in Counts
    /\ DeviceHK \in Housekeeping
    /\ telemetry \in [count : Counts, DeviceHK : Housekeeping]

AppStart ==
    /\ pc = "EVS_Register"
    /\ RunStatus = "APP_RUN"
    /\ subscribed = {}
    /\ pipe = <<>>
    /\ msg = NoMessage
    /\ count = ZeroCounts
    /\ DeviceHK = ZeroHousekeeping
    /\ telemetry = [count |-> ZeroCounts, DeviceHK |-> ZeroHousekeeping]

-----------------------------------------------------------------------------
(***************************************************************************)
(* GENERIC_EPS_AppInit: six calls, the next one made only if the last one  *)
(* succeeded.  The counters and DeviceHK are already zero.                 *)
(***************************************************************************)
AfterCall ==
    [EVS_Register |-> "CreatePipe", CreatePipe |-> "SubscribeCmd",
     SubscribeCmd |-> "SubscribeReqHk", SubscribeReqHk |-> "i2c_master_init",
     i2c_master_init |-> "SendStartupEvent", SendStartupEvent |-> "receive"]

InitCallSucceeds ==
    /\ pc \in InitCall
    /\ pc' = AfterCall[pc]
    /\ subscribed' = subscribed \cup {mid \in {CMD, REQ_HK} :
                        \/ pc = "SubscribeCmd" /\ mid = CMD
                        \/ pc = "SubscribeReqHk" /\ mid = REQ_HK}
    /\ UNCHANGED <<RunStatus, pipe, msg, count, DeviceHK, telemetry>>

InitCallFails ==
    /\ pc \in InitCall
    /\ pc' = "receive"
    /\ RunStatus' = "APP_ERROR"
    /\ UNCHANGED <<subscribed, pipe, msg, count, DeviceHK, telemetry>>

\* The software bus routes a message to the pipe, or drops it if that is full.
Route(m) ==
    /\ m.mid \in subscribed
    /\ pipe' = IF Len(pipe) < PipeDepth THEN Append(pipe, m) ELSE pipe
    /\ UNCHANGED <<pc, RunStatus, subscribed, msg, count, DeviceHK, telemetry>>

-----------------------------------------------------------------------------
\* Faulty: the counter is wider than its field of the packet.
IncrementWide(c, name) == [c EXCEPT ![name] = @ + 1]

\* A uint8 counter of the record c goes up by one.
Increment(c, name) == [c EXCEPT ![name] = (@ + 1) % CounterModulus]

VerifyCmdLength(m, expected) ==
    Increment(count, IF m.length = expected THEN "CommandCount" ELSE "CommandErrorCount")

\* The first checks of GENERIC_EPS_CommandSwitch.
ValidSwitch(m) == m.SwitchNumber < 8 /\ m.State \in {OFF, ON}

Noop(m) ==
    /\ m.code = NOOP_CC
    /\ count' = VerifyCmdLength(m, NoArgsLength)
    /\ pc' = "receive"

\* Faulty: the reset is counted after it has cleared the counters.
ResetCountersFirst(m) ==
    /\ m.code = RESET_COUNTERS_CC
    /\ count' = IF m.length = NoArgsLength
                THEN Increment(ZeroCounts, "CommandCount")
                ELSE VerifyCmdLength(m, NoArgsLength)
    /\ pc' = "receive"

\* The reset clears the count of the command that asked for it.
ResetCounters(m) ==
    /\ m.code = RESET_COUNTERS_CC
    /\ count' = IF m.length = NoArgsLength
                THEN ZeroCounts ELSE VerifyCmdLength(m, NoArgsLength)
    /\ pc' = "receive"

\* Faulty: the length of a switch command is not checked.
StartSwitchAnyLength(m) ==
    /\ m.code = SWITCH_CC /\ ValidSwitch(m)
    /\ count' = VerifyCmdLength(m, SwitchLength)
    /\ pc' = "command"

StartSwitch(m) ==
    /\ m.code = SWITCH_CC /\ m.length = SwitchLength /\ ValidSwitch(m)
    /\ count' = VerifyCmdLength(m, SwitchLength)
    /\ pc' = "command"

RejectSwitch(m) ==
    /\ m.code = SWITCH_CC
    /\ m.length = SwitchLength => ~ValidSwitch(m)
    /\ count' = IF m.length = SwitchLength
                THEN Increment(VerifyCmdLength(m, SwitchLength), "DeviceErrorCount")
                ELSE VerifyCmdLength(m, SwitchLength)
    /\ pc' = "receive"

UnknownCode ==
    /\ count' = Increment(count, "CommandErrorCount")
    /\ pc' = "receive"

ProcessGroundCommand(m) ==
    \/ Noop(m)
    \/ ResetCounters(m)
    \/ StartSwitch(m)
    \/ RejectSwitch(m)
    \/ m.code \notin {NOOP_CC, RESET_COUNTERS_CC, SWITCH_CC} /\ UnknownCode

\* The length of a telemetry request is not verified.
ProcessTelemetryRequest(m) ==
    \/ m.code = REQ_HK_TLM /\ pc' = "request" /\ UNCHANGED count
    \/ m.code # REQ_HK_TLM /\ UnknownCode

\* EPS_AppMain takes the oldest message; GENERIC_EPS_ProcessCommandPacket.
\* (Its default case is never reached: no other message id is subscribed to.)
Receive ==
    /\ pc = "receive" /\ RunStatus = "APP_RUN"
    /\ pipe # <<>>
    /\ msg' = Head(pipe)
    /\ pipe' = Tail(pipe)
    /\ \/ Head(pipe).mid = CMD /\ ProcessGroundCommand(Head(pipe))
       \/ Head(pipe).mid = REQ_HK /\ ProcessTelemetryRequest(Head(pipe))
    /\ UNCHANGED <<RunStatus, subscribed, DeviceHK, telemetry>>

\* CFE_SB_ReceiveBuffer fails: the application will exit.
ReceiveFails ==
    /\ pc = "receive" /\ RunStatus = "APP_RUN"
    /\ RunStatus' = "APP_ERROR"
    /\ UNCHANGED <<pc, subscribed, pipe, msg, count, DeviceHK, telemetry>>

\* CFE_ES_RunLoop is false, after an error or because ES was told to stop or
\* restart the application, so CFE_ES_ExitApp: the pipe goes with it.
Exit ==
    /\ pc = "receive"
    /\ pc' = "exited"
    /\ subscribed' = {}
    /\ pipe' = <<>>
    /\ UNCHANGED <<RunStatus, msg, count, DeviceHK, telemetry>>

-----------------------------------------------------------------------------
\* A transfer that the handler goes on from, whatever came of it: the device
\* layer does not look at the status of i2c_master_transaction.
Proceed(next) ==
    /\ pc' = next
    /\ UNCHANGED <<RunStatus, subscribed, pipe, msg, count, DeviceHK, telemetry>>

\* Faulty: the data are parsed whatever the CRC says.
ParsedUnchecked(buffer) == buffer.hk

\* Faulty: a switch is confirmed in a copy of the housekeeping data.
ParsedForPacketOnly(buffer) ==
    IF buffer.crc_ok /\ msg.mid = REQ_HK THEN buffer.hk ELSE DeviceHK

\* GENERIC_EPS_RequestHK, from the CRC check on: what becomes of DeviceHK.
Parsed(buffer) == IF buffer.crc_ok THEN buffer.hk ELSE DeviceHK

\* Faulty: a good reply is taken for a confirmation.
SucceedsUnconfirmed(buffer) == buffer.crc_ok

\* A switch command also has to find the switch in the state it asked for.
Succeeds(buffer) ==
    /\ buffer.crc_ok
    /\ msg.mid = CMD => buffer.hk.status[msg.SwitchNumber].state = msg.State

(***************************************************************************)
(* The end of GENERIC_EPS_CommandSwitch and of its caller, and of          *)
(* GENERIC_EPS_ReportHousekeeping, which publishes whatever the outcome.   *)
(***************************************************************************)
CompleteRequest(buffer) ==
    /\ DeviceHK' = Parsed(buffer)
    /\ count' = Increment(count, IF Succeeds(buffer) THEN "DeviceCount"
                                                     ELSE "DeviceErrorCount")
    /\ telemetry' = IF msg.mid = REQ_HK
                    THEN [count |-> count', DeviceHK |-> DeviceHK'] ELSE telemetry
    /\ pc' = "receive"
    /\ UNCHANGED <<RunStatus, subscribed, pipe, msg>>
=============================================================================
