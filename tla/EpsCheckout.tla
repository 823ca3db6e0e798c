---------------------------- MODULE EpsCheckout ----------------------------
(***************************************************************************)
(* The standalone checkout program (fsw/standalone/generic_eps_checkout.c),*)
(* which runs the device layer from a prompt, and the simulated EPS at the *)
(* other end of its bus.                                                   *)
(*                                                                         *)
(* A line is the command word it begins with and the numbers its operands  *)
(* convert to, which is 0 for an operand that is not a number.  Words are  *)
(* compared in lower case and shorter than MAX_INPUT_TOKEN_SIZE; what does *)
(* not fit the input buffer is read as a further line.                     *)
(***************************************************************************)
EXTENDS EpsHardware

CONSTANTS
    InputLine,   \* the lines that are typed
    BLANK        \* a line with no token

\* The command words, and what else may be typed.
Command == [help |-> "HELP", exit |-> "EXIT", hk |-> "HK", h |-> "HK",
            switch |-> "SWITCH", s |-> "SWITCH", other |-> "UNKNOWN"]

Line == [word : DOMAIN Command, args : Seq(Int)]

ASSUME LineAssumption == BLANK \notin Line /\ InputLine \subseteq Line \cup {BLANK}

\* Every switch a line may name is modelled.
ASSUME SwitchesAssumption ==
    \A l \in InputLine \ {BLANK} :
        Len(l.args) = 2 => l.args[1] % 256 \in Switch \cup 8..255

VARIABLES
    pc,            \* where main is
    input_buf,
    input_tokens,  \* the first two; no other is ever read
    cmd,
    switch_num,
    value,
    Generic_epsHK,
    printed,       \* what was printed of the last switch command
    origin,        \* history: where the line being processed comes from
    typed          \* history: that line, before it was cut

inputVars == <<input_buf, input_tokens, origin, typed>>
operation == <<cmd, switch_num, value>>
checkoutVars == <<pc, inputVars, operation, Generic_epsHK, printed>>
vars == <<checkoutVars, hardwareVars>>

Transfer == {"command", "request", "read"}

TypeOK ==
    /\ HardwareTypeOK
    /\ pc \in Transfer \cup {"init", "prompt", "exited"}
    /\ input_buf \in Line \cup {BLANK} /\ typed \in Line \cup {BLANK}
    /\ input_tokens \in [1..2 -> Int]
    /\ cmd \in {"HELP", "EXIT", "HK", "SWITCH", "UNKNOWN"}
    /\ switch_num \in 0..255 /\ value \in 0..255
    /\ Generic_epsHK \in Housekeeping
    /\ printed \in {"none", "success", "failure"}
    /\ origin \in {"uninitialized", "typed", "replayed"}

\* input_buf and input_tokens are not initialized.
Init ==
    /\ HardwareInit
    /\ pc = "init"
    /\ input_buf \in InputLine /\ typed = input_buf
    /\ origin = "uninitialized"
    /\ input_tokens \in {[i \in 1..2 |-> IF i <= Len(l.args) THEN l.args[i] ELSE 0] :
                            l \in InputLine \ {BLANK}}
    /\ cmd = "UNKNOWN" /\ switch_num = 0 /\ value = 0
    /\ Generic_epsHK = ZeroHousekeeping
    /\ printed = "none"

\* i2c_master_init
OpenBus ==
    /\ pc = "init"
    /\ pc' \in {"prompt", "exited"}
    /\ UNCHANGED <<inputVars, operation, Generic_epsHK, printed, hardwareVars>>

-----------------------------------------------------------------------------
\* Faulty: the line is tokenized in a copy.
CutCopy(l) == l

\* What strtok leaves of a line: its first token.
Cut(l) == IF l = BLANK THEN BLANK ELSE [l EXCEPT !.args = <<>>]

\* Faulty: at least so many arguments, rather than so many.
check_number_arguments_least(actual, expected) == actual >= expected

check_number_arguments(actual, expected) == actual = expected

\* Faulty: the conversion keeps the width of the number.
Uint8Wide(n) == n

Uint8(n) == n % 256

\* The tokens of a line replace those of earlier lines, as far as they go.
Tokens(l) ==
    [i \in 1..2 |-> IF i <= Len(l.args) THEN l.args[i] ELSE input_tokens[i]]

ValidSwitch == switch_num' < 8 /\ value' \in {OFF, ON}

Operands ==
    /\ switch_num' = Uint8(input_tokens'[1])
    /\ value' = Uint8(input_tokens'[2])

\* process_command up to its first transfer; help, an unknown command and a
\* wrong number of arguments only print.
process_command(cc, num_tokens) ==
    LET Takes(n) == check_number_arguments(num_tokens, n) IN
    /\ cmd' = cc
    /\ \/ /\ cc = "SWITCH" /\ Takes(2)
          /\ Operands
          /\ pc' = IF ValidSwitch THEN "command" ELSE "prompt"
       \/ /\ ~(cc = "SWITCH" /\ Takes(2))
          /\ pc' = IF cc = "EXIT" THEN "exited"
                   ELSE IF cc = "HK" /\ Takes(0) THEN "request" ELSE "prompt"
          /\ UNCHANGED <<switch_num, value>>

\* One pass of the main loop, with the line l in the buffer.
ProcessLine(l) ==
    /\ pc = "prompt"
    /\ typed' = l
    /\ input_buf' = Cut(l)
    /\ \/ /\ l = BLANK
          /\ cmd' = "UNKNOWN"
          /\ UNCHANGED <<pc, input_tokens, switch_num, value>>
       \/ /\ l # BLANK
          /\ input_tokens' = Tokens(l)
          /\ process_command(Command[l.word], Len(l.args))
    /\ UNCHANGED <<Generic_epsHK, printed, hardwareVars>>

TypeLine(l) == ProcessLine(l) /\ origin' = "typed"

\* At the end of the input fgets leaves the buffer as it was, and main goes on.
EndOfFile ==
    /\ ProcessLine(input_buf)
    /\ origin' = IF origin = "uninitialized" THEN origin ELSE "replayed"

-----------------------------------------------------------------------------
\* The device layer, with what the I2C bus may do to it, as in EpsSystem.
Damaged(f) ==
    [size : {f.size}, cmd : {f.cmd, TELEMETRY_REQUEST, RESET} \cup Switch,
     data : {f.data, OFF, ON}, intact : {FALSE}]

SendFrame(f) == \E g \in {f} \cup Damaged(f) : I2cWrite(g)

Transferred(next) ==
    /\ pc' = next
    /\ UNCHANGED <<inputVars, operation, Generic_epsHK, printed>>

CommandDevice ==
    /\ pc = "command"
    /\ SendFrame(CommandFrame(switch_num, value)) \/ UNCHANGED hardwareVars
    /\ Transferred("request")

WriteRequest ==
    /\ pc = "request"
    /\ SendFrame(CommandFrame(TELEMETRY_REQUEST, 0))
    /\ Transferred("read")

\* Faulty: a good reply is taken for a confirmation.
SucceedsUnconfirmed(buffer) == buffer.crc_ok

Succeeds(buffer) ==
    /\ buffer.crc_ok
    /\ cmd = "SWITCH" => buffer.hk.status[switch_num].state = value

\* The end of GENERIC_EPS_RequestHK and GENERIC_EPS_CommandSwitch.
Complete(buffer) ==
    /\ Generic_epsHK' = IF buffer.crc_ok THEN buffer.hk ELSE Generic_epsHK
    /\ printed' = IF cmd # "SWITCH" THEN printed
                  ELSE IF Succeeds(buffer) THEN "success" ELSE "failure"
    /\ pc' = "prompt"
    /\ UNCHANGED <<inputVars, operation, hardwareVars>>

LoseRequest == pc = "request" /\ Complete(BadBuffer)

ReadReply == pc = "read" /\ connected /\ Complete(I2cRead)

\* Faulty: a reply that fails its check is asked for again.
LoseReplyRetry == pc = "read" /\ Transferred("request") /\ UNCHANGED hardwareVars

LoseReply == pc = "read" /\ Complete(BadBuffer)

\* The time tick, the backdoor operator and the command bus.
Device ==
    /\ \/ Tick
       \/ \E c \in {"ENABLE", "DISABLE", "STOP"} : command_callback(c)
       \/ Shutdown
       \/ \E n \in Node : Deliver(n)
    /\ UNCHANGED checkoutVars

Transaction == CommandDevice \/ WriteRequest \/ LoseRequest \/ ReadReply \/ LoseReply

Next ==
    \/ OpenBus
    \/ \E l \in InputLine : TypeLine(l)
    \/ EndOfFile
    \/ CommandDevice
    \/ WriteRequest
    \/ LoseRequest
    \/ ReadReply
    \/ LoseReply
    \/ Device

\* A transaction ends at the latest with its timeout; nobody has to type.
Fairness == WF_vars(OpenBus \/ Transaction)

Spec == Init /\ [][Next]_vars /\ Fairness
-----------------------------------------------------------------------------
(***************************************************************************)
(* No switch turns on or off but by the line that is being processed, which*)
(* names it and its state and nothing else, modulo the width of a uint8:   *)
(* neither by an operand that an earlier line has left behind, nor at the  *)
(* end of the input, where main goes on with the last command word.  (What *)
(* the uninitialized buffer holds if no line is ever typed is excepted.)   *)
(***************************************************************************)
SwitchOnlyAsTyped ==
    [][\A s \in Switch :
          status'[s].state # status[s].state =>
              /\ pc = "command"
              /\ origin # "replayed"
              /\ Len(typed.args) = 2
              /\ typed.args[1] % 256 = s
              /\ typed.args[2] % 256 = status'[s].state]_vars

(***************************************************************************)
(* generic_eps_checkout.c:33, "Switch [0-7] [0x00 off, 0xAA on]": a line   *)
(* that was typed moves a switch only if its operands are such numbers.    *)
(***************************************************************************)
OperandsAsDocumented ==
    [][origin = "typed" =>
          \A s \in Switch :
              status'[s].state # status[s].state =>
                  typed.args[1] \in 0..7 /\ typed.args[2] \in {OFF, ON}]_vars

(***************************************************************************)
(* When success is printed for a switch that was to be turned on, the      *)
(* simulator behind it has been told to start; when it was to be turned    *)
(* off, it has not, or has been told to stop since.                        *)
(* (GENERIC_EPS_CommandSwitch and the late start of the simulators.)       *)
(***************************************************************************)
SuccessReachesNodes ==
    [][cmd = "SWITCH" /\ pc \in Transfer /\ pc' = "prompt" /\ printed' = "success" =>
          (value = ON <=> LastWord(NodeOf[switch_num]) = Word(ON))]_vars

(***************************************************************************)
(* Every device operation leads back to the prompt, whatever is lost on the*)
(* bus and whatever is done to the simulator.                              *)
(***************************************************************************)
PromptReturns == pc \in Transfer ~> pc = "prompt"

(***************************************************************************)
(* The program and the device together keep the contract of SwitchContract,*)
(* success being what is printed.                                          *)
(***************************************************************************)
Contract == INSTANCE SwitchContract WITH
    State <- {OFF, ON},
    OffState <- OFF,
    actual <- [s \in Switch |-> status[s].state],
    known <- [s \in Switch |-> Generic_epsHK.status[s].state],
    pending <- IF cmd = "SWITCH" /\ pc \in Transfer
               THEN {[switch |-> switch_num, state |-> value]} ELSE {},
    verdict <- printed

ContractKept == Contract!Spec
=============================================================================
