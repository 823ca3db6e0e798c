----------------------------- MODULE EpsBattery -----------------------------
(***************************************************************************)
(* The battery of the simulated EPS: update_battery_values, which the time *)
(* bus calls in a thread of its own, next to the I2C callbacks that command*)
(* switches and compose replies, with no lock between them.                *)
(*                                                                         *)
(*   time thread   idle --> count --> sun --> load --> store --> idle      *)
(*   I2C thread    idle --> count --> idle                                 *)
(*                                                                         *)
(* Both threads take a point from the data provider, the I2C thread to     *)
(* throw it away.  The switches are read one at a time while they are      *)
(* commanded.  Power, charge and voltage are integers: the doubles of the  *)
(* code round, and one unit of each is as small as one likes.              *)
(***************************************************************************)
EXTENDS EpsProtocol

CONSTANTS
    SwitchCount, \* 8 in the code
    Load,        \* drawn by each switch in a tick
    BaseLoad,    \* drawn by the three rails in a tick
    PanelPower,  \* gained in a tick for each unit of sun
    Capacity,    \* _max_battery, the charge at start
    Nominal,     \* _nominal_batt_voltage, in V
    InitStatus,  \* _switch[i]._status after construction
    MaxCalls     \* bound: calls of get_data_point

ASSUME EverySwitch == SwitchCount \in 1..8 /\ Switch = 0..(SwitchCount - 1)
ASSUME BatteryAssumption ==
    /\ Load \in [Switch -> Nat]
    /\ BaseLoad \in Nat /\ PanelPower \in Nat
    /\ Capacity \in Nat \ {0}
    /\ Nominal \in Nat /\ 1050 * Nominal <= UINT16_MAX
    /\ InitStatus \in [Switch -> StatusWord]
    /\ MaxCalls \in Nat

VARIABLES
    _request_count, \* of the data provider
    status,         \* _switch[i]._status
    charge,         \* _bus[0]._battery_watthrs
    voltage,        \* _bus[0]._voltage, in mV
    tick,           \* where the time thread is
    tickSeen,       \* _request_count as the time thread read it
    sun,            \* sum of the sun vector of its data point
    next,           \* i of its loop over the switches
    p_out,
    reply,          \* where the I2C thread is
    replySeen,      \* _request_count as the I2C thread read it
    calls,          \* history: increments of _request_count
    overlapped,     \* history: whether two of them ever overlapped
    commanded,      \* history: switches that have been commanded
    charged,        \* history: switches whose load is in p_out
    alwaysOn,       \* history: switches on since the loop began
    alwaysOff       \* history: commanded switches off since the loop began

provider == <<_request_count, calls, overlapped>>
battery == <<charge, voltage>>
timeThread == <<tick, tickSeen, sun, next, p_out, charged>>
i2cThread == <<reply, replySeen>>
switches == <<status, commanded, alwaysOn, alwaysOff>>
vars == <<provider, battery, timeThread, i2cThread, switches>>

TypeOK ==
    /\ _request_count \in Nat /\ tickSeen \in Nat /\ replySeen \in Nat /\ calls \in Nat
    /\ status \in [Switch -> StatusWord]
    /\ charge \in Int /\ voltage \in Uint16
    /\ tick \in {"idle", "count", "sun", "load", "store"}
    /\ reply \in {"idle", "count"}
    /\ sun \in Nat /\ p_out \in Nat
    /\ next \in 0..SwitchCount
    /\ overlapped \in BOOLEAN
    /\ commanded \subseteq Switch /\ charged \subseteq Switch
    /\ alwaysOn \subseteq Switch /\ alwaysOff \subseteq Switch

Init ==
    /\ _request_count = 0 /\ tickSeen = 0 /\ replySeen = 0 /\ calls = 0
    /\ overlapped = FALSE
    /\ status = InitStatus
    /\ charge = Capacity
    /\ voltage = 1000 * Nominal
    /\ tick = "idle" /\ reply = "idle"
    /\ sun = 0 /\ next = 0 /\ p_out = 0
    /\ commanded = {} /\ charged = {} /\ alwaysOn = {} /\ alwaysOff = {}

-----------------------------------------------------------------------------
\* _request_count++ of get_data_point: a read, and later a write.
ReadCount ==
    /\ calls < MaxCalls
    /\ overlapped' = (overlapped \/ tick = "count" \/ reply = "count")
    /\ UNCHANGED <<_request_count, calls>>

\* Faulty: incremented once more for the data point.
WriteCountTwice(seen) ==
    /\ _request_count' = seen + 2
    /\ calls' = calls + 1
    /\ UNCHANGED overlapped

WriteCount(seen) ==
    /\ _request_count' = seen + 1
    /\ calls' = calls + 1
    /\ UNCHANGED overlapped

TickStart ==
    /\ tick = "idle"
    /\ ReadCount
    /\ tick' = "count"
    /\ tickSeen' = _request_count
    /\ UNCHANGED <<sun, next, p_out, charged, battery, i2cThread, switches>>

TickCount ==
    /\ tick = "count"
    /\ WriteCount(tickSeen)
    /\ tick' = "sun"
    /\ UNCHANGED <<tickSeen, sun, next, p_out, charged, battery, i2cThread, switches>>

\* The new data point reads _request_count again; its components are 0.001,
\* 0.002 and 0.003 of it, none of them negative.
TickSun ==
    /\ tick = "sun"
    /\ tick' = "load"
    /\ sun' = _request_count
    /\ next' = 0
    /\ p_out' = BaseLoad
    /\ charged' = {}
    /\ alwaysOn' = {s \in Switch : status[s].state = ON}
    /\ alwaysOff' = commanded \ alwaysOn'
    /\ UNCHANGED <<tickSeen, provider, battery, i2cThread, status, commanded>>

\* A switch draws while its status word is not zero, error flags included.
Draws(s) == status[s] # [flags |-> 0, state |-> OFF]

\* Faulty: the last switch is left out.
AllReadEarly == next + 1 >= SwitchCount

AllRead == next = SwitchCount

TickLoad ==
    /\ tick = "load" /\ ~AllRead
    /\ p_out' = p_out + (IF Draws(next) THEN Load[next] ELSE 0)
    /\ charged' = IF Draws(next) THEN charged \cup {next} ELSE charged
    /\ next' = next + 1
    /\ UNCHANGED <<tick, tickSeen, sun, provider, battery, i2cThread, switches>>

\* Faulty: the voltage is wider than its field of the reply.
ToUint32(n, d) == n \div d

\* The conversion of n / d to an uint16, as compilers for x86 make it: to an
\* int, towards zero, and then to its low half.
ToUint16(n, d) == (IF n >= 0 THEN n \div d ELSE -((-n) \div d)) % (UINT16_MAX + 1)

\* Faulty: the difference is added to the nominal voltage.
VoltageFromNominal(c) == ToUint16(1000 * Nominal * Capacity + 100 * Nominal * c, Capacity)

\* 95 % of the nominal voltage, and up to 10 % of it for the charge c.
VoltageOf(c) == ToUint16(950 * Nominal * Capacity + 100 * Nominal * c, Capacity)

\* What the panels give more than is drawn.
Power == PanelPower * sun - p_out

\* Faulty: what is drawn charges the battery.
TickStoreReversed ==
    /\ tick = "load" /\ AllRead
    /\ tick' = "store"
    /\ charge' = charge - Power
    /\ UNCHANGED <<tickSeen, sun, next, p_out, charged, provider, voltage, i2cThread, switches>>

TickStore ==
    /\ tick = "load" /\ AllRead
    /\ tick' = "store"
    /\ charge' = charge + Power
    /\ UNCHANGED <<tickSeen, sun, next, p_out, charged, provider, voltage, i2cThread, switches>>

TickVoltage ==
    /\ tick = "store"
    /\ tick' = "idle"
    /\ voltage' = VoltageOf(charge)
    /\ UNCHANGED <<tickSeen, sun, next, p_out, charged, provider, charge, i2cThread, switches>>

-----------------------------------------------------------------------------
\* create_generic_eps_data begins with a data point it does not use.
ReplyStart ==
    /\ reply = "idle"
    /\ ReadCount
    /\ reply' = "count"
    /\ replySeen' = _request_count
    /\ UNCHANGED <<battery, timeThread, switches>>

\* The rest of the reply: a late start takes the flags of the switches that
\* are on, which draw with or without them.
ReplyCount ==
    /\ reply = "count"
    /\ WriteCount(replySeen)
    /\ reply' = "idle"
    /\ status' = [s \in Switch |-> IF status[s].state = ON
                                   THEN [flags |-> 0, state |-> ON] ELSE status[s]]
    /\ UNCHANGED <<replySeen, battery, timeThread, commanded, alwaysOn, alwaysOff>>

\* Faulty: the flags of the status word are kept.
UpdatedKeepingFlags(s, v) == [status[s] EXCEPT !.state = v]

Updated(s, v) == [flags |-> 0, state |-> v]

\* eps_switch_update, for a command.
SwitchCommand(s, v) ==
    /\ reply = "idle"
    /\ status' = [status EXCEPT ![s] = Updated(s, v)]
    /\ commanded' = commanded \cup {s}
    /\ alwaysOn' = IF v = OFF THEN alwaysOn \ {s} ELSE alwaysOn
    /\ alwaysOff' = IF v = ON THEN alwaysOff \ {s} ELSE alwaysOff
    /\ UNCHANGED <<provider, battery, timeThread, i2cThread>>

Next ==
    \/ TickStart
    \/ TickCount
    \/ TickSun
    \/ TickLoad
    \/ TickStore
    \/ TickVoltage
    \/ ReplyStart
    \/ ReplyCount
    \/ \E s \in Switch, v \in {OFF, ON} : SwitchCommand(s, v)

Spec == Init /\ [][Next]_vars
-----------------------------------------------------------------------------
(***************************************************************************)
(* The load of a tick, although the switches may be commanded while it is  *)
(* summed: a switch that was on throughout is in it, and a commanded one   *)
(* that was off throughout is not.  What is in the load and reported off   *)
(* is a switch that was configured with error flags, and never commanded   *)
(* since: such a switch is in every load, and with no current in any reply.*)
(***************************************************************************)
LoadOfTheTick ==
    tick = "load" /\ AllRead =>
        /\ alwaysOn \subseteq charged
        /\ charged \cap alwaysOff = {}
        /\ charged \ commanded =
               {s \in Switch \ commanded : InitStatus[s] # [flags |-> 0, state |-> OFF]}

(***************************************************************************)
(* The provider counts the ticks and the telemetry requests together: an   *)
(* increment is lost only where the two threads met in it, and none is     *)
(* made twice.                                                             *)
(***************************************************************************)
CountOfCalls ==
    /\ _request_count <= calls
    /\ ~overlapped => _request_count = calls

(***************************************************************************)
(* The voltage is within 5 % of the nominal one as long as the charge is   *)
(* within the capacity: at start, when it is not that of the charge, and   *)
(* after every tick.                                                       *)
(***************************************************************************)
WithinFivePercent == voltage \in (950 * Nominal)..(1050 * Nominal)

VoltageWithinWhenCharged ==
    charge \in 0..Capacity /\ tick # "store" => WithinFivePercent

(***************************************************************************)
(* generic_eps_hardware_model.cpp:521-523, "increase or decrease the value *)
(* of the battery voltage": a tick that charges the battery never lowers   *)
(* the voltage and one that discharges it never raises it, as long as the  *)
(* charge is within the capacity, and but for the first tick: the battery  *)
(* starts full with the nominal voltage, which is that of a half full one. *)
(***************************************************************************)
FirstTick == voltage = 1000 * Nominal /\ charge - Power = Capacity

VoltageFollowsPower ==
    [][/\ tick = "store" /\ tick' = "idle"
       /\ charge \in 0..Capacity /\ charge - Power \in 0..Capacity
       /\ ~FirstTick
       => /\ Power >= 0 => voltage' >= voltage
          /\ Power <= 0 => voltage' <= voltage]_vars

(***************************************************************************)
(* generic_eps_hardware_model.cpp:521-523, "increase or decrease the value *)
(* of the battery voltage. It is linear and +- 5% of the nominal voltage": *)
(* it never leaves that range.                                             *)
(***************************************************************************)
VoltageInRange == WithinFivePercent
=============================================================================
