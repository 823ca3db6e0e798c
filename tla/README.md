# Generic EPS: a TLA+ verification project

The repository holds a NOS3 component: the flight software of a generic
electrical power system (EPS), a simulator of that EPS, and the ground system's
definitions of their packets. An EPS feeds eight switched outputs; the flight
software turns them on and off on ground command and publishes housekeeping. The
two halves talk over an I2C bus that may lose or damage what it carries.

What has to be right is spread over both halves: that a switch reported as set
is set, that housekeeping is what the device says or is marked as not, that the
simulators behind the switches follow the switches, and that nothing but a
command moves them. This project models the two halves and the bus, checks them
with TLC, and proves the safety properties with TLAPS for every value of the
constants.

## 1. Inventory

Paths are relative to the repository; `app.c` is
`src/fsw/cfs/src/generic_eps_app.c`, `device.c` is
`src/fsw/shared/generic_eps_device.c`, `model.cpp` is
`src/sim/src/generic_eps_hardware_model.cpp`, `checkout.c` is
`src/fsw/standalone/generic_eps_checkout.c`.

| Component | State | Operations | Interacts with |
|---|---|---|---|
| cFS application (`app.c`) | run status, command pipe, current message, four `uint8` counters, `DeviceHK`, the housekeeping packet | start-up in six calls, receive, no-op, reset of the counters, switch, housekeeping request, exit | software bus (messages in, packets out), device layer (calls) |
| Device layer (`device.c`) | none of its own: it fills the caller's `DeviceHK` | `GENERIC_EPS_CommandDevice`, `_RequestHK`, `_CommandSwitch` | I2C bus (one transaction each; a switch command makes two) |
| Simulated EPS: slave, switches, backdoor (`model.cpp`) | `_enabled`, `_switch[]`, `_initialized_other_sims`, `_i2c_read_valid`, `_i2c_out_data` | `i2c_write`, `i2c_read`, `command_callback`, destructor | I2C bus, operator, the simulators behind the switches (messages never confirmed) |
| Simulated EPS: battery and rails (`model.cpp:484-541`) | `_bus[]`, the charge among it | `update_battery_values` on the time tick | time bus (another thread), data provider |
| Data providers | counter, or socket, or file | a sun vector on request | the battery, which takes one at each tick; the slave, which takes one at each telemetry request and drops it |
| Standalone checkout (`checkout.c`) | line buffer, tokens, housekeeping | `help`, `exit`, `hk`, `switch` | device layer |
| F Prime copy (`src/fsw/fprime/src`) | as the cFS application | the same file but for line ends and an include | |
| Ground definitions (`src/gsw`) | none | packet declarations | software bus |

Hard behaviours, each with its line in PROJECT.json "hazards":

* A switch command is two transactions (`device.c:165-168`). The device may be
  disabled, stopped, or changed between them, and either may be lost.
* The status of `i2c_master_transaction` is ignored (`device.c:61`, `device.c:94`).
  What a read left in the buffer is judged by its CRC alone, so nothing stands
  between an old reply and the packet but `_i2c_read_valid`.
* Housekeeping is published whatever came of the request (`app.c:372-392`).
* `_i2c_read_valid` starts uninitialized and `_i2c_out_data` empty.
* The first telemetry request starts the simulators behind the switches that are
  on, in the middle of composing its reply (`model.cpp:308-321`), and switch
  commands may come earlier.
* Counters wrap, and a command for the reset of the counters is counted by the
  very code it resets.
* Start-up may fail at each call, the last one (the start-up event) included.
* The time tick runs on another thread than the I2C callbacks and shares the rails,
  the switches and the data provider with them without a lock; so does
  construction and destruction. A reply reads the battery voltage twice.
* The charge of the battery has no bounds, and its voltage is a `uint16`.
* The reply is composed in a buffer kept from request to request, with running
  offsets that the flight software has to repeat.
* The checkout program ignores the end of its input, keeps operands from line to
  line, and narrows them to `uint8_t` before it checks them.

What makes each component right:

* application: counters that add up, one packet per request, data fresh or
  counted as an error;
* device layer: success only when the switch is as asked;
* slave: an accepted request is answered with the current state; a refused frame
  leaves no old reply readable; only an intact frame for an enabled device moves
  a switch;
* switches: the simulator behind a switch is told the state of its switch and
  nothing else, in the order of the commands;
* CRC: a frame is taken for intact exactly when it is;
* battery: the load of a tick agrees with the switches, the voltage with the charge;
* telemetry: what is parsed is what the device has, field by field;
* checkout: only the line just typed moves a switch, and what is printed is true.

## 2. Modules

```
EpsProtocol          what crosses the bus: frames, status words, housekeeping
  EpsHardware        the device: one action per callback; HardwareSpec
    EpsDevice          + any master, any operator       MCEpsDevice
  EpsApp             the application and its device layer, cut at the transfers
    EpsSystem          EpsApp + EpsHardware + the bus   MCEpsSystem
  EpsCheckout        the checkout prompt + EpsHardware + the bus   MCEpsCheckout
  EpsTelemetry       the bytes of the reply, composed and parsed   MCEpsTelemetry
  EpsBattery         the time tick in its own thread   MCEpsBattery
SwitchContract       what the whole promises of the switches (abstract)
EpsCrc               the CRC of the frames             MCEpsCrc

EpsHardwareProofs      what HardwareSpec guarantees to any master
  EpsDeviceProofs        EpsDevice
  EpsSystemProofs        EpsSystem: safety, the contract
    EpsCounterProofs       its counters and its requests
  EpsCheckoutProofs      EpsCheckout
EpsTelemetryProofs     EpsTelemetry
EpsBatteryProofs       EpsBattery
EpsCrcProofs           EpsCrc
```

`EpsProtocol`. A frame is its size, command byte, data byte and whether its third
byte is the CRC of the first two (`intact`). Housekeeping is the eight status
words and a version stamp for the analog rails: a stamp goes up whenever the time
tick writes the rails, and stamp 0 is data nothing was written to. The voltage and
current of a switch are left out, being functions of its status word in
`eps_switch_update`. A received buffer is "the CRC matches" and what it holds;
64 zero bytes have a CRC that is not zero, so a buffer nothing was read into fails
the check (`BadBuffer`). A status word is kept in two bytes, since the code treats
them apart: it reports the low byte, and tests either the low byte or the word.
The low byte is one of the two values that the frame check and a sane
configuration let through.

`EpsHardware`. One callback is one step. `I2cWrite` is the whole of `i2c_write`
with the request handler under it, `I2cRead` what `i2c_read` hands out, which
changes nothing. `eps_switch_update` overwrites the status word, flags included,
and queues the message for the simulator behind the switch. `Tick` is
`update_battery_values` seen through its stamp. `Shutdown` is the destructor,
after which no callback comes. `HardwareSpec` is the device by itself: one callback
after the other, in any order. Three specifications drive it, `EpsDevice`,
`EpsSystem` and `EpsCheckout`, and each is proved to do so only through its steps
(`IsDevice`), so that what it promises of the messages to the other simulators is
proved once.

`EpsDevice` closes the device with a master that writes any frame of `InputFrame`
at any time: the device must keep its side whatever the flight software does.

`EpsApp`. `pc` says where `EPS_AppMain` is. Start-up is one step for each call; a
message that needs no transfer is handled in one step; a handler that uses the
device is cut at its transfers (`command`, `request`, `read`), because the device
changes between them. `CompleteRequest` is what the handler does after its last
transfer, up to the packet it publishes. `Exit` may come whenever the application is
about to receive: `CFE_ES_RunLoop` is false after an error, and also when the
executive was told to stop or restart the application. The default case of the message
ids (`app.c:240-243`) is left out: the pipe carries the two ids the application
subscribes to, so it is never taken.

`EpsSystem` joins them. A frame arrives as sent, damaged, or not at all; a damaged
one may name another command, another switch or another state, under a CRC that does not
match. A reply is read, or lost or damaged. When a write is not acknowledged the
transaction ends without its read (`LoseRequest`): the bus library is outside the
repository, and this is what its interface of one status for the two halves
suggests. `ReplyWasComposed` and `ContractKept` rest on it. Its history variables (`sent`, `accepted`,
`transmitted`, `asked`, `dispatched`, `confirmed`, `healthy`, `verdict`) record
what the properties speak of; no guard reads them but the bound on `sent`.
`CountersAddUp` speaks of sums, commands with errors and operations with errors: it
tells a lost or a double count, and not a count that went to the wrong one of the
two.

`SwitchContract` is the specification a user of the system has in mind: one
request at a time, the switch may or may not follow, success only if it did,
and what is shown was true when it was looked at. Two specifications implement it:
`EpsSystem` maps the abstract `pending` to the command being handled and `known`
to `DeviceHK`; `EpsCheckout` maps `verdict` to what it prints.

`EpsCheckout`. A line is its command word and the numbers its operands convert to:
`atoi` and `strtol` give 0 for what is no number, and the model goes on from there
with their conversion to `uint8_t`. `input_buf` and `input_tokens` keep what an
earlier line left, as in the code: `strtok` leaves the first token of a line in
the buffer, `Tokens` overwrites as many operands as a line has. At the end of the
input `fgets` fails and changes nothing, so main processes the buffer once more
(`EndOfFile`); before the first line it holds anything. The transactions are
those of `EpsSystem`, without the counters. Tokens are shorter than the 50 bytes
they are copied into. `SwitchOnlyAsTyped` takes a number as the program does, modulo
the width of a byte; `OperandsAsDocumented` takes it as the help text does, and is
shown to fail.

`EpsTelemetry` opens the version stamp of `EpsHardware`. `BeginReply` and `EndReply`
are the two reads of the battery voltage (`model.cpp:329-330`); the time tick may
come between them. All 64 bytes are there: the words are cut into bytes at one
end and put together at the other. `EpsHardware` may treat a reply as one step and
`EpsSystem` its stamp as whole because only this one word is torn, which
`ParsedIsDevice` and `BatteryVoltageHalves` say together.

`EpsBattery` has one step for each access of `update_battery_values` to what the I2C
thread also touches: the two halves of `_request_count++`, the new data point, each
switch of the loop, the charge and the voltage. The I2C thread commands switches
and composes replies in between. Power is an integer; one unit of it may be as
small as one likes, and what the model keeps exactly is the order of the
operations, the truncation of the division and the conversion of its result to
`uint16`, which the language leaves undefined out of range and compilers for x86
make through an `int`. The charge is not bounded, as in the code. `LoadOfTheTick` says
what is in a load, down to the switches that draw without being on: those configured
with an error flag, until their first command. `VoltageFollowsPower` compares the
voltage before and after a tick; it excepts the first one, in which a full battery
goes from the nominal voltage to that of its charge.

`EpsCrc` is what `intact` and `BadBuffer` stand on. A sender closes a payload with
its CRC8, the bus adds some damage, and the receiver runs the same loop over what
arrived; one step is one round of the outer loop, its eight shifts included. A byte
is the set of its bits that are 1, so that "exclusive or" is the symmetric
difference, and a polynomial over the integers modulo 2 is the set of its
exponents. The history variable `quotient` collects the terms at which the loop
added its polynomial; with it the register is stated to be a remainder.

Definitions whose comment begins with "Faulty:" are wrong variants of the
definition that follows them, one for each property. Put in its place, each makes
TLC find the property violated; nothing else uses them.

## 3. Runs

| Run | Question | Bounds |
|---|---|---|
| `device` | Does the device keep its side against any master and operator? | 2 switches, 2 nodes, 2 messages in flight for each node, 2 states of the rails, frames of every class the handler tells apart |
| `system_device` | Is what the application says of the switches true, also for the simulators behind them, and what it publishes fresh or flagged? | 2 switches, 3 messages, 2 messages in flight for each node, 2 states of the rails, every loss and damage, every operator action |
| `system_messages` | Do all messages, good and malformed, count right and get their answers, each once? | 2 switches, 3 messages of every kind, pipe of 2, counters of width 2, every start-up failure |
| `crc` | Is the CRC8 the remainder it should be, and does it tell damaged command frames, damaged replies and no reply at all? | 3 command frames with every damage of 1 to 3 bits and every burst of up to 8 bits; 2 replies of 65 bytes with 3 kinds of damage to each byte; the zero buffer |
| `checkout` | Does only the line just typed move a switch, does the prompt return, and is what it prints true, also for the simulators behind the switches? | 2 switches, 2 messages in flight for each node, 10 lines: each effect of `process_command`, numbers that narrow to valid ones, too few and too many operands; any number of lines |
| `telemetry` | Is what is parsed what the device has? | 8 switches of which 2 are commanded, 3 battery voltages on both sides of a carry between the bytes |
| `battery` | What is the load of a tick, what does the provider count, what voltage follows, and does it go with the power? | 3 switches (on, off, off with an error flag), 4 calls of the provider, a capacity of 2 units |
| `telemetry_temperature` | Does the temperature word carry the temperature? (no) | as `telemetry` |
| `battery_range` | Does the voltage stay within 5 % of nominal? (no) | as `battery` |
| `device_reset` | Does the documented reset power-cycle? (no) | as `device` |
| `device_help` | Does every command that HELP lists work? (no) | as `device` |
| `checkout_operands` | Does the prompt switch only on the numbers its help text lists? (no) | as `checkout` |

Why the bounds are enough to be worth running. Two switches distinguish "this
switch" from "another one"; the code treats all alike, and the proofs take any
set. Three messages let an operation follow one that failed after one that
succeeded, which is the least that can expose a stale reply or a stale
confirmation; a pipe of two then overflows. Two states of the rails tell old from
new. Counters that wrap at two do so within a run. Two messages in flight to a node
are the least that can be put in the wrong order, and `device`, `system_device` and
`checkout` have them. One switch is on at power-up with an error flag set, since the code compares the low
byte alone, and one is off. The frame and message sets take one
member of each class the handlers' conditions separate, wrong length, size,
CRC, data byte and unknown codes included.

A CRC is linear: whether a damage is detected depends on the damage and not on what
it is added to (`OnlyMultiplesAccepted`, proved), so few frames and many damages are
the right proportion. The damages checked are those an 8-bit CRC is chosen for.
Exactly the damages that are multiples of the polynomial go undetected:
`intact` and `crc_ok` idealise it in that a frame damaged in many places at once
counts as detected, which a real one is but with a chance of 1 in 256.

In `battery`, four calls let a tick overlap with a reply, let it follow one, and drain
the battery below empty in weak sun or fill it above capacity in strong sun; a second
tick within the capacity may charge the battery or discharge it; the
third switch is one that draws until it is first commanded. In `telemetry` the two
commanded switches take both branches of the loop over the switches with the
bytes of the other branch in the buffer.

`CHECK_DEADLOCK FALSE` where the system may stop: the application and the checkout
program may exit, the simulator may be stopped, the computation of a CRC ends.

### Fairness

* `EpsDevice`: weak fairness of delivery for each node. The command bus hands on
  what it accepted. Nothing obliges a master to write.
* `EpsSystem`: weak fairness of a step of the application that does not give up: that
  neither sets `RunStatus` to `APP_ERROR` nor exits while it is `APP_RUN`. The main loop blocks only in
  `CFE_SB_ReceiveBuffer`; every other call returns and an I2C transaction ends
  at the latest with its timeout. That conjunct keeps fairness from being met by
  failing or by being stopped; either may still happen at any point. Success of transfers is
  not assumed, nor that the operator, the ticks or the nodes do anything.
* `EpsCheckout`: weak fairness of `OpenBus` and of the steps of a transaction, for the
  same reason. Nobody has to type.

### The five disagreements

* README.md:37-38 documents command 0xAA as a power cycle. `model.cpp:467-471`
  accepts it, with any data, and does nothing: `ResetPowerCycles` fails.
* The HELP text at `model.cpp:221` lists `STATUS=X`, which has no case in
  `command_callback`: `AdvertisedCommandsWork` fails.
* README.md:45-49 lists a temperature of the EPS in the telemetry. `model.cpp:344-346`
  fills that word with the voltage of the 12 V bus: `EPSTemperatureReported` fails.
* The comment at `model.cpp:521-523` says that the battery voltage is within 5 % of
  nominal. It is a linear function of a charge that nothing bounds:
  `VoltageInRange` fails, in the dark after a few ticks, and in sun as well. What
  does hold is `VoltageWithinWhenCharged`.
* The help text at `checkout.c:33` says "Switch [0-7] [0x00 off, 0xAA on]".
  `checkout.c:114-115` narrows the operands to `uint8_t` before it checks them, so that
  256 is taken for switch 0 and -56 (hexadecimal) for on: `OperandsAsDocumented` fails.

## 4. Proofs

| Theorem | Statement |
|---|---|
| `EpsHardwareProofs!HardwareInvariance` | `HardwareSpec => []HardwareInv` |
| `EpsDeviceProofs!IsDevice` | `Spec => HardwareSpec` |
| `EpsDeviceProofs!TypeCorrect` | `Spec => []TypeOK` |
| `EpsDeviceProofs!NodesTold` | `Spec => []NodesToldSwitchState` |
| `EpsDeviceProofs!ReadsCurrent` | `Spec => []ReplyIsCurrent` |
| `EpsDeviceProofs!OnlyCommandsSwitch` | `Spec => SwitchOnlyByCommand` |
| `EpsSystemProofs!IsDevice` | `Spec => HardwareSpec` |
| `EpsSystemProofs!TypeCorrect` | `Spec => []TypeOK` |
| `EpsSystemProofs!ReadsComposed` | `Spec => []ReplyWasComposed` |
| `EpsSystemProofs!ConfirmedIsSet` | `Spec => []ConfirmedHolds` |
| `EpsSystemProofs!ConfirmedReaches` | `Spec => []ConfirmedReachesNodes` |
| `EpsSystemProofs!HealthyMirrors` | `Spec => []HealthyMirrorsDevice` |
| `EpsSystemProofs!NeverGoesBack` | `Spec => HousekeepingNeverGoesBack` |
| `EpsSystemProofs!OnlyGroundCommandsSwitch` | `Spec => SwitchOnlyByGroundCommand` |
| `EpsSystemProofs!FreshOrFlagged` | `Spec => TelemetryFreshOrFlagged` |
| `EpsSystemProofs!KeepsContract` | `Spec => ContractKept` |
| `EpsCounterProofs!CountersBalance` | `Spec => []CountersAddUp` |
| `EpsCounterProofs!RequestsAccounted` | `Spec => []RequestsAccountedFor` |
| `EpsCheckoutProofs!IsDevice` | `Spec => HardwareSpec` |
| `EpsCheckoutProofs!TypeCorrect` | `Spec => []TypeOK` |
| `EpsCheckoutProofs!OnlyTypedLinesSwitch` | `Spec => SwitchOnlyAsTyped` |
| `EpsCheckoutProofs!SuccessReaches` | `Spec => SuccessReachesNodes` |
| `EpsCheckoutProofs!KeepsContract` | `Spec => ContractKept` |
| `EpsTelemetryProofs!TypeCorrect` | `Spec => []TypeOK` |
| `EpsTelemetryProofs!ParsesDevice` | `Spec => []ParsedIsDevice` |
| `EpsTelemetryProofs!HalvesOfItsTime` | `Spec => []BatteryVoltageHalves` |
| `EpsBatteryProofs!TypeCorrect` | `Spec => []TypeOK` |
| `EpsBatteryProofs!LoadSound` | `Spec => []LoadOfTheTick` |
| `EpsBatteryProofs!CountSound` | `Spec => []CountOfCalls` |
| `EpsBatteryProofs!VoltageSound` | `Spec => []VoltageWithinWhenCharged` |
| `EpsBatteryProofs!VoltageFollows` | `Spec => VoltageFollowsPower` |
| `EpsCrcProofs!Remainders` | `Spec => []RegisterIsRemainder` |
| `EpsCrcProofs!OnlyMultiplesAccepted` | `Spec => []AcceptsMultiplesOnly` |
| `EpsCrcProofs!VerdictSound` | `Spec => []VerdictIsIntact`, if no damage is a multiple of the polynomial |
| `EpsCrcProofs!DamagesDetected` | `Spec => []VerdictIsIntact`, if a damage is a burst within 8 bits, an odd number of bits, or two bits of a command frame |

They hold for every set of switches within 0..7 (eight in `EpsTelemetry`), every
configuration, every set of messages and lines, every pipe depth, counter width
and bound, every load, capacity and nominal voltage that a `uint16` can hold, every
payload of the two lengths that are sent.

Assumptions, all on constants and all evaluated by TLC in the runs:
`SwitchAssumption`, `ConfigurationAssumption` (each switch has a node and a legal
status word), `MessageAssumption`, `InputFrameAssumption`, `SizeAssumption`,
`BoundsAssumption`, `MaxMessagesAssumption`, `LineAssumption` and
`SwitchesAssumption` (every switch that a line may name is modelled),
`EightSwitches` and `RailsAssumption`, `EverySwitch` and `BatteryAssumption`,
`PayloadAssumption`, `DamageAssumption` (a damage is a sequence of bytes), and
`NodesDistinct`: no two switches feed one simulator. The sample configuration gives several switches one
placeholder name that no simulator listens to; with a shared name that somebody does
listen to, `NodesToldSwitchState` is false, since the second switch would speak for
the first.

The argument for the device. What the simulators behind the switches are told hangs on
the device alone, so it is proved of `HardwareSpec`. `HardwareInv` says that
the last word on the way to a node, or else the last that came, is the state of
its switch (by `NodesDistinct`), once it has been told anything; that from the late
start on every switch that is on has told its node so; and that words and
messages are well formed. `IsDevice` maps each step of a master to a step of
`HardwareSpec` or a stutter, so `HardwareInv` holds in all three compositions.
`ConfirmedReachesNodes` puts it together with what the application knows: a
confirmation is read out of a reply, composing a reply is what starts the other
simulators (`Started`: something confirmed means they are started), and so a
switch reported as on has told its node, also when it never was commanded. For
`SuccessReachesNodes` the checkout program's `ReplyIsAnswer` carries the same fact.

The argument for the system. Most properties are about the last transfer of an
operation, and what they need is that a reply the application can read was composed
for the request in progress. The CRC does not give that: an old reply has a good
one. So the inductive invariant adds:

* `ReplyIsAnswer`: while a read is due and `_i2c_read_valid` holds, the reply has the
  status words of now and a stamp not older than the message being handled. It is
  made true by the write of the request and cannot be disturbed before the read,
  since only the application writes frames; a tick moves the rails but not the
  reply, so the stamp is bounded by `asked` and not equal to `sample`.
* `StampOrder`: `DeviceHK`, the reply and `asked` all have stamps not above the
  present one, and a composed reply's is not below `DeviceHK`'s: hence
  housekeeping never goes back.
* `Handling`: between transfers the current message is one that uses the device, so
  the switch number indexes the status words and the length was checked.
* `HealthyInv` and `ConfirmedHolds`, which the steps between operations keep because
  only `CommandDevice` moves a switch, and it takes back what was confirmed.

`CountersBalance` needs of the invariant only the types and `Handling`; what it needs
besides is modular arithmetic, which SMT does not do for a symbolic modulus. The
lemmas `DivMod`, `RemainderUnique`, `Congruent`, `AddBoth`, `ModInside` and
`SumIncrement` build it from linear facts.

`RequestsAccounted` counts the requests in the pipe. `Waiting` is a set of places, and
the lemmas on places say what appending a message and taking the first do to
its size: the first by one more place or none, the second by a shift of all the
others, which is a bijection. With `Handling` each packet published then pays for
one request.

The argument for the CRC. `RoundDivides` is one round: what shifted `P = Product(q) + c` by
one term is again a product plus the register, with the bit that left the register
as a new term of `q`. Eight rounds and the new byte make the step of the invariant
(`FeedDivides`), in which the leading eight terms are inverted by the initial value
of the register. Two computations then end in the same register exactly when
what they went through differs by a multiple of the polynomial
(`OnlyMultiplesAccepted`); a multiple that is not zero has its least and its
greatest term at least 8 apart (`MultiplesAreWide`), which detects bursts; it has an
even number of terms (`MultiplesAreEven`), which detects odd damages; and it is not
two terms at most 23 apart, since the low terms of its quotient would be those of
a power series without eight zeros in a row (`LowTerms`). A buffer that nothing was
read into would need the register of 64 zero bytes to be zero, but then
`x^512` times the eight inverted terms, a burst, would be a multiple
(`ZerosRefused`).

The device's invariant (`EpsDeviceProofs!Invariance`) ties a readable reply to the
last frame.

For the checkout program `ReplyIsAnswer` is the same, and `Handling` says that the
operands of a transfer are those of the line: it needs `Buffered`, that once a line
was read the buffer is `Spent`, so a line that comes from it has no operands and
cannot pass the count of its arguments. For the battery the invariant says of the
loop over the switches what it has done up to `next`, of the pending increments
that each thread's copy is not above the number of calls made, and equal to it
unless they overlapped, and that the voltage is `VoltageOf` the charge, between the two
writes of a tick that of the charge before it, or else that of the start with a full
battery. Of the switches that were never commanded it says that they draw exactly as
configured, which a late start does not change. `VoltageFollowsPower` is then the
monotonicity of a truncated division (`QuotientMonotonic`). For the telemetry it says which bytes a reply in
progress already has; that a word cut in two comes back whole is `WordBytes`, for
every word below 2^16.

Model-checked only: the liveness properties `EveryRequestAnswered`, `PromptReturns` and
`NodesEventuallyFollow`, since liveness under fairness is out of the prover's reach.
What is proved beside them is their safety half: a request is never lost
(`RequestsAccounted`), and what is on its way to a node is the right message
(`HardwareInvariance`). Not true, and not claimed, is that two changed bits of a
reply are always detected: bits 127 apart are a multiple of the polynomial.

## 5. Not modelled, and why

* Callbacks during construction and destruction (`model.cpp:56`, `model.cpp:201`): they
  read memory that is not initialized or no longer there, and what they write is
  overwritten by the constructor. No statement about them is both true and useful.
* The rounding of doubles, and the few percent of drift it makes over many ticks.
* The 42 and static data providers: a socket and a text file. (The static provider
  does not go with the rest: the header that its source includes is not in the
  repository, and its points are not of the type the hardware model casts to.)
* Configuration parsing,
  the packet declarations of the ground system, events, logging, time stamps:
  input and output, or data nothing depends on.
* The F Prime copy of the application is covered by `EpsApp` in so far as the file is
  the same; its caller is not in the repository.

## 6. Plan

1. Done: `EpsProtocol`, `EpsHardware`, `EpsDevice`, `EpsApp`, `EpsSystem`,
   `SwitchContract`, `EpsCrc`, `EpsTelemetry`, `EpsBattery`, `EpsCheckout`, and their runs.
2. Done: every safety property that a passing run checks is a theorem.
3. Left: that the replies of `EpsTelemetry` refine those of `EpsHardware`, with a
   version stamp for a voltage that is not torn; the data points of 42, which may be
   parsed half way (`generic_eps_data_point.cpp:40-69`) and have negative
   components, of which `update_battery_values` uses only that of X although the
   comment at `model.cpp:495` assumes panels on all six faces.
