----------------------------- MODULE EpsSystem -----------------------------
(***************************************************************************)
(* The flight software application and the simulated EPS, joined by the    *)
(* I2C bus: EpsApp and EpsHardware, with what sends messages to the one    *)
(* and operates the other.                                                 *)
(***************************************************************************)
EXTENDS EpsApp, EpsHardware

CONSTANT MaxMessages   \* bound: messages put on the software bus

VARIABLES
    sent,         \* messages put on the software bus
    accepted,     \* housekeeping requests that entered the pipe
    transmitted,  \* housekeeping packets transmitted
    asked,        \* stamp of the rails when the last message was taken
    dispatched,   \* since the last reset: what the counters should add up to
    confirmed,    \* <<switch, state>> pairs last reported as set
    healthy,      \* whether the last device operation was reported as good
    verdict       \* what was reported of the last switch command

historyVars ==
    <<sent, accepted, transmitted, asked, dispatched, confirmed, healthy, verdict>>
vars == <<appVars, hardwareVars, historyVars>>

ASSUME MaxMessagesAssumption == MaxMessages \in Nat

TypeOK ==
    /\ AppTypeOK
    /\ HardwareTypeOK
    /\ sent \in Nat /\ accepted \in Nat /\ transmitted \in Nat
    /\ asked \in Nat
    /\ dispatched \in [commands : Nat, operations : Nat]
    /\ confirmed \subseteq Switch \X {OFF, ON}
    /\ healthy \in BOOLEAN
    /\ verdict \in {"none", "success", "failure"}

Init ==
    /\ AppStart
    /\ HardwareInit
    /\ sent = 0 /\ accepted = 0 /\ transmitted = 0
    /\ asked = 0
    /\ dispatched = [commands |-> 0, operations |-> 0]
    /\ confirmed = {}
    /\ healthy = FALSE
    /\ verdict = "none"

-----------------------------------------------------------------------------
IsHkRequest(m) == m.mid = REQ_HK /\ m.code = REQ_HK_TLM
IsSwitchCommand(m) == m.mid = CMD /\ m.code = SWITCH_CC /\ m.length = SwitchLength
IsReset(m) == m.mid = CMD /\ m.code = RESET_COUNTERS_CC /\ m.length = NoArgsLength

\* The ground, or the scheduler that asks for housekeeping, sends a message.
Send(m) ==
    /\ sent < MaxMessages
    /\ Route(m)
    /\ sent' = sent + 1
    /\ accepted' = accepted + (IF IsHkRequest(m) /\ pipe' # pipe THEN 1 ELSE 0)
    /\ UNCHANGED <<hardwareVars, transmitted, asked, dispatched, confirmed, healthy,
                   verdict>>

\* Steps of the application that use neither the bus nor the pipe.
AppAlone ==
    /\ InitCallSucceeds \/ InitCallFails \/ ReceiveFails \/ Exit
    /\ UNCHANGED <<hardwareVars, historyVars>>

TakeMessage ==
    /\ Receive
    /\ asked' = sample
    /\ dispatched' =
          IF IsReset(msg') THEN [commands |-> 0, operations |-> 0]
          ELSE [commands |-> dispatched.commands +
                                 (IF IsHkRequest(msg') THEN 0 ELSE 1),
                operations |-> dispatched.operations +
                    (IF IsHkRequest(msg') \/ IsSwitchCommand(msg') THEN 1 ELSE 0)]
    /\ UNCHANGED <<hardwareVars, sent, accepted, transmitted, confirmed, healthy, verdict>>

-----------------------------------------------------------------------------
(***************************************************************************)
(* The I2C bus.  A frame reaches the device as it was sent, or damaged, or *)
(* not at all; the read that follows in the same transaction finds the     *)
(* reply of the device, or is lost or damaged, which the CRC shows.  When  *)
(* a frame is not acknowledged the transaction ends before its read.       *)
(***************************************************************************)
\* What a damage makes of a frame: another command, perhaps, with a wrong CRC.
Damaged(f) ==
    [size : {f.size}, cmd : {f.cmd, TELEMETRY_REQUEST, RESET} \cup Switch,
     data : {f.data, OFF, ON}, intact : {FALSE}]

\* A frame is sent, and arrives if it arrives as it was or damaged.
SendFrame(f) == \E g \in {f} \cup Damaged(f) : I2cWrite(g)

Complete(buffer) ==
    /\ CompleteRequest(buffer)
    /\ healthy' = Succeeds(buffer)
    /\ confirmed' = IF msg.mid = CMD /\ Succeeds(buffer)
                    THEN confirmed \cup {<<msg.SwitchNumber, msg.State>>} ELSE confirmed
    /\ verdict' = IF msg.mid # CMD THEN verdict
                  ELSE IF Succeeds(buffer) THEN "success" ELSE "failure"
    /\ transmitted' = transmitted + (IF msg.mid = REQ_HK THEN 1 ELSE 0)
    /\ UNCHANGED <<sent, accepted, asked, dispatched>>

\* GENERIC_EPS_CommandDevice: until confirmed, nothing is known of the switch.
CommandDevice ==
    /\ pc = "command"
    /\ \/ SendFrame(CommandFrame(msg.SwitchNumber, msg.State))
       \/ UNCHANGED hardwareVars
    /\ Proceed("request")
    /\ confirmed' = {p \in confirmed : p[1] # msg.SwitchNumber}
    /\ UNCHANGED <<sent, accepted, transmitted, asked, dispatched, healthy, verdict>>

\* GENERIC_EPS_RequestHK: the write of its transaction ...
WriteRequest ==
    /\ pc = "request"
    /\ SendFrame(CommandFrame(TELEMETRY_REQUEST, 0))
    /\ Proceed("read")
    /\ UNCHANGED historyVars

\* Faulty: the handler returns as soon as the transaction fails.
LoseRequestReturn ==
    /\ pc = "request"
    /\ Proceed("receive")
    /\ UNCHANGED <<hardwareVars, historyVars>>

LoseRequest ==
    /\ pc = "request"
    /\ Complete(BadBuffer)
    /\ UNCHANGED hardwareVars

\* ... and the read.
ReadReply ==
    /\ pc = "read"
    /\ connected
    /\ Complete(I2cRead)
    /\ UNCHANGED hardwareVars

LoseReply ==
    /\ pc = "read"
    /\ Complete(BadBuffer)
    /\ UNCHANGED hardwareVars

\* The time tick, the backdoor operator and the command bus.
Device ==
    /\ \/ Tick
       \/ \E c \in {"ENABLE", "DISABLE", "STOP"} : command_callback(c)
       \/ Shutdown
       \/ \E n \in Node : Deliver(n)
    /\ UNCHANGED <<appVars, historyVars>>

Transaction == CommandDevice \/ WriteRequest \/ LoseRequest \/ ReadReply \/ LoseReply

Next ==
    \/ \E m \in InputMessage : Send(m)
    \/ AppAlone
    \/ TakeMessage
    \/ CommandDevice
    \/ WriteRequest
    \/ LoseRequest
    \/ ReadReply
    \/ LoseReply
    \/ Device

(***************************************************************************)
(* EPS_AppMain never waits but for a message: a call that is made returns, *)
(* and an I2C transaction ends at the latest with its timeout.  Nothing is *)
(* assumed of the success of a transfer, nor of the other processes; and   *)
(* no step by which the application gives up counts as progress.           *)
(***************************************************************************)
AppStep == AppAlone \/ TakeMessage \/ Transaction

GivesUp == RunStatus = "APP_RUN" /\ (RunStatus' = "APP_ERROR" \/ pc' = "exited")

Fairness == WF_vars(AppStep /\ ~GivesUp)

Spec == Init /\ [][Next]_vars /\ Fairness
-----------------------------------------------------------------------------
(***************************************************************************)
(* A switch last reported as set to a state is in that state, until the    *)
(* next command for it: however many requests, failures, resets of the     *)
(* simulator mode and commands for other switches come between.            *)
(* (GENERIC_EPS_CommandSwitch confirms in a transaction of its own.)       *)
(***************************************************************************)
ConfirmedHolds == \A p \in confirmed : status[p[1]].state = p[2]

(***************************************************************************)
(* The simulator behind a switch reported as on has been told to start, and*)
(* that behind a switch reported as off has not, or has been told to stop  *)
(* since; although those messages are never confirmed, and a switch that   *)
(* was on from the beginning may never have been commanded.                *)
(* (GENERIC_EPS_CommandSwitch and the late start of the simulators.)       *)
(***************************************************************************)
ConfirmedReachesNodes ==
    \A p \in confirmed : p[2] = ON <=> LastWord(NodeOf[p[1]]) = Word(ON)

(***************************************************************************)
(* The application never reads the reply buffer of the device before a     *)
(* reply has been composed in it, although _i2c_read_valid starts          *)
(* uninitialized and an accepted switch command sets it.  (i2c_read would  *)
(* index an empty vector.)                                                 *)
(***************************************************************************)
ReplyWasComposed ==
    pc = "read" /\ i2c_read_valid => i2c_out_data # ZeroHousekeeping

(***************************************************************************)
(* While the last device operation was reported as good, the housekeeping  *)
(* data of the application have the status words the device has, except    *)
(* between the two transactions of a switch command.                       *)
(* (GENERIC_EPS_RequestHK parses into the data that are published.)        *)
(***************************************************************************)
Confirming == msg.mid = CMD /\ pc \in {"request", "read"}

HealthyMirrorsDevice == healthy /\ ~Confirming => DeviceHK.status = status

(***************************************************************************)
(* A housekeeping packet either carries what the device was after the      *)
(* request was taken from the pipe, with the device count one up, or       *)
(* repeats the data the application had, with the device error count one   *)
(* up.  (GENERIC_EPS_ReportHousekeeping publishes in either case.)         *)
(***************************************************************************)
Fresh == DeviceHK.sample >= asked /\ DeviceHK.status = status

TelemetryFreshOrFlagged ==
    [][transmitted' # transmitted =>
          /\ telemetry' = [count |-> count', DeviceHK |-> DeviceHK']
          /\ \/ Fresh' /\ count' = Increment(count, "DeviceCount")
             \/ /\ UNCHANGED DeviceHK
                /\ count' = Increment(count, "DeviceErrorCount")]_vars

(***************************************************************************)
(* The housekeeping data never go back to an earlier state of the device,  *)
(* whatever is lost or damaged on the bus.                                 *)
(***************************************************************************)
HousekeepingNeverGoesBack == [][DeviceHK'.sample >= DeviceHK.sample]_vars

(***************************************************************************)
(* No switch of the device turns on or off but in the first transaction of *)
(* a switch command of the ground, of the right length, for that switch and*)
(* that state.                                                             *)
(***************************************************************************)
SwitchOnlyByGroundCommand ==
    [][\A s \in Switch :
          status'[s].state # status[s].state =>
              /\ pc = "command"
              /\ IsSwitchCommand(msg)
              /\ msg.SwitchNumber = s /\ msg.State = status'[s].state]_vars

(***************************************************************************)
(* The counters add up, modulo the width of a uint8: every ground command  *)
(* and every request of an unknown code since the last reset is counted    *)
(* once, as received or as an error, and every device operation once, when *)
(* it ends.  (VerifyCmdLength, ResetCounters and the counting in the       *)
(* handlers.)                                                              *)
(***************************************************************************)
InFlight == IF pc \in Transfer THEN 1 ELSE 0

CountersAddUp ==
    /\ (count.CommandCount + count.CommandErrorCount) % CounterModulus
           = dispatched.commands % CounterModulus
    /\ (count.DeviceCount + count.DeviceErrorCount + InFlight) % CounterModulus
           = dispatched.operations % CounterModulus

(***************************************************************************)
(* No housekeeping request is lost and none is answered twice: those that  *)
(* entered the pipe have had their packets, but for the ones that are still*)
(* in it and the one being handled.                                        *)
(* (GENERIC_EPS_ProcessTelemetryRequest, GENERIC_EPS_ReportHousekeeping.)  *)
(***************************************************************************)
Waiting == {i \in 1..Len(pipe) : IsHkRequest(pipe[i])}
Answering == IF pc \in Transfer /\ msg.mid = REQ_HK THEN 1 ELSE 0

RequestsAccountedFor ==
    /\ transmitted <= accepted
    /\ pc # "exited" => accepted = transmitted + Cardinality(Waiting) + Answering

(***************************************************************************)
(* Every housekeeping request that entered the pipe is answered by a packet*)
(* of its own, whatever the bus and the device do, unless the application  *)
(* exits.                                                                  *)
(***************************************************************************)
EveryRequestAnswered ==
    \A n \in 1..MaxMessages :
        accepted >= n ~> transmitted >= n \/ pc = "exited"

(***************************************************************************)
(* The application and the device together keep the contract of            *)
(* SwitchContract.                                                         *)
(***************************************************************************)
Contract == INSTANCE SwitchContract WITH
    State <- {OFF, ON},
    OffState <- OFF,
    actual <- [s \in Switch |-> status[s].state],
    known <- [s \in Switch |-> DeviceHK.status[s].state],
    pending <- IF msg.mid = CMD /\ pc \in Transfer
               THEN {[switch |-> msg.SwitchNumber, state |-> msg.State]} ELSE {},
    verdict <- verdict

ContractKept == Contract!Spec
=============================================================================
