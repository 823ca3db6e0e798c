-------------------------- MODULE EpsBatteryProofs --------------------------
(***************************************************************************)
(* The battery and its two threads, for any switches, loads and bounds.    *)
(***************************************************************************)
EXTENDS EpsBattery, TLAPS

(***************************************************************************)
(* The inductive invariant.                                                *)
(***************************************************************************)

\* The switches that draw as they were configured.
Configured == {s \in Switch : InitStatus[s] # [flags |-> 0, state |-> OFF]}

\* What is on throughout the loop is on now; what was commanded and is off
\* has a status word of zero; what was not draws as configured.
Throughout ==
    /\ \A s \in alwaysOn : status[s].state = ON
    /\ \A s \in alwaysOff : s \in commanded /\ status[s].state = OFF
    /\ \A s \in commanded : status[s].state = OFF => ~Draws(s)
    /\ \A s \in Switch \ commanded : Draws(s) <=> s \in Configured

\* The switches the loop has passed are charged as they were throughout.
Passed ==
    tick = "load" =>
        /\ \A s \in charged : s < next
        /\ \A s \in alwaysOn : s < next => s \in charged
        /\ charged \cap alwaysOff = {}
        /\ \A s \in Switch \ commanded :
               s < next => (s \in charged <=> s \in Configured)

\* What a thread has read of the count, it has read with the increments made
\* by then, all of them if the threads have not met.
CountInv ==
    /\ CountOfCalls
    /\ tick = "count" => tickSeen <= calls
    /\ reply = "count" => replySeen <= calls
    /\ ~overlapped =>
           /\ ~(tick = "count" /\ reply = "count")
           /\ tick = "count" => tickSeen = calls
           /\ reply = "count" => replySeen = calls

\* The voltage is that of the charge, or of the charge before the tick that
\* has not stored it yet, once there has been a tick.
VoltageInv ==
    LET c == IF tick = "store" THEN charge - Power ELSE charge
    IN  voltage = VoltageOf(c) \/ (voltage = 1000 * Nominal /\ c = Capacity)

Inv == TypeOK /\ Throughout /\ Passed /\ CountInv /\ VoltageInv

-----------------------------------------------------------------------------
\* A quotient lies where its numerator does.
LEMMA QuotientBounds ==
    ASSUME NEW n \in Nat, NEW d \in Nat \ {0}, NEW a \in Nat, NEW b \in Nat,
           a * d <= n, n <= b * d
    PROVE  n \div d \in a..b
  <1> DEFINE q == n \div d
  <1>1. q \in Int /\ d * q <= n /\ n < d * (q + 1)
    OBVIOUS
  <1> HIDE DEF q
  <1>2. a <= q
    <2>1. a * d < d * (q + 1)
      BY <1>1
    <2>2. ASSUME a >= q + 1 PROVE FALSE
      BY <1>1, <2>1, <2>2
    <2> QED
      BY <1>1, <2>2
  <1>3. q <= b
    <2>1. d * q <= b * d
      BY <1>1
    <2>2. ASSUME q >= b + 1 PROVE FALSE
      BY <1>1, <2>1, <2>2
    <2> QED
      BY <1>1, <2>2
  <1> QED
    BY <1>1, <1>2, <1>3 DEF q

\* An uint16, and the low half of an integer.
LEMMA LowHalf ==
    ASSUME NEW x \in Int
    PROVE  /\ UINT16_MAX \in Nat
           /\ x % (UINT16_MAX + 1) \in Uint16
           /\ 0 <= x /\ x <= UINT16_MAX => x % (UINT16_MAX + 1) = x
  <1>1. UINT16_MAX \in Nat
    BY DEF UINT16_MAX
  <1> QED
    BY <1>1 DEF Uint16

\* A larger numerator has no smaller quotient.
LEMMA QuotientMonotonic ==
    ASSUME NEW m \in Nat, NEW n \in Nat, NEW d \in Nat \ {0}, m <= n
    PROVE  m \div d <= n \div d
  <1> DEFINE p == m \div d
             q == n \div d
  <1>1. p \in Int /\ q \in Int /\ d * p <= m /\ n < d * (q + 1)
    OBVIOUS
  <1> HIDE DEF p, q
  <1>2. d * p < d * (q + 1)
    BY <1>1
  <1>3. ASSUME p >= q + 1 PROVE FALSE
    BY <1>1, <1>2, <1>3
  <1> QED
    BY <1>1, <1>3 DEF p, q

\* The voltage of a charge before its conversion.
VoltageQuotient(c) == (950 * Nominal * Capacity + 100 * Nominal * c) \div Capacity

\* Within the capacity, nothing is lost in the conversion.
LEMMA VoltageExact ==
    ASSUME NEW c \in 0..Capacity
    PROVE  /\ VoltageOf(c) = VoltageQuotient(c)
           /\ VoltageQuotient(c) \in (950 * Nominal)..(1050 * Nominal)
  <1> DEFINE k == 100 * Nominal
             n == 950 * Nominal * Capacity + 100 * Nominal * c
             q == n \div Capacity
  <1>1. /\ Nominal \in Nat /\ Capacity \in Nat \ {0}
        /\ 1050 * Nominal <= UINT16_MAX /\ UINT16_MAX \in Nat
    BY BatteryAssumption, LowHalf
  <1>2. k \in Nat /\ 0 <= k * c /\ k * c <= k * Capacity
    BY <1>1
  <1>3. /\ n \in Nat
        /\ 950 * Nominal * Capacity <= n
        /\ n <= 1050 * Nominal * Capacity
    BY <1>1, <1>2
  <1> HIDE DEF n
  <1>4. q \in (950 * Nominal)..(1050 * Nominal)
    BY <1>1, <1>3, QuotientBounds
  <1> HIDE DEF q
  <1>5. q \in Int /\ 0 <= q /\ q <= UINT16_MAX
    BY <1>1, <1>4
  <1>6. ToUint16(n, Capacity) = q % (UINT16_MAX + 1)
    BY <1>3 DEF ToUint16, q
  <1>7. q % (UINT16_MAX + 1) = q
    BY <1>5, LowHalf
  <1> QED
    BY <1>4, <1>6, <1>7 DEF VoltageOf, VoltageQuotient, n, q

\* More charge within the capacity, no less voltage.
LEMMA VoltageMonotonic ==
    ASSUME NEW a \in 0..Capacity, NEW b \in 0..Capacity, a <= b
    PROVE  VoltageOf(a) <= VoltageOf(b)
  <1>1. VoltageOf(a) = VoltageQuotient(a) /\ VoltageOf(b) = VoltageQuotient(b)
    BY VoltageExact
  <1> DEFINE k == 100 * Nominal
             m == 950 * Nominal * Capacity + 100 * Nominal * a
             n == 950 * Nominal * Capacity + 100 * Nominal * b
  <1>2. k \in Nat /\ Nominal \in Nat /\ Capacity \in Nat \ {0}
    BY BatteryAssumption
  <1>3. k * a <= k * b
    BY <1>2
  <1>4. m \in Nat /\ n \in Nat /\ m <= n
    BY <1>2, <1>3
  <1> HIDE DEF m, n
  <1>5. m \div Capacity <= n \div Capacity
    BY <1>2, <1>4, QuotientMonotonic
  <1> QED
    BY <1>1, <1>5 DEF m, n, VoltageQuotient

\* Whatever the charge, the voltage is an uint16.
LEMMA VoltageType ==
    ASSUME NEW c \in Int
    PROVE  VoltageOf(c) \in Uint16
  <1> DEFINE n == 950 * Nominal * Capacity + 100 * Nominal * c
             x == IF n >= 0 THEN n \div Capacity ELSE -((-n) \div Capacity)
  <1>1. Nominal \in Nat /\ Capacity \in Nat \ {0}
    BY BatteryAssumption
  <1>2. n \in Int
    BY <1>1
  <1> HIDE DEF n
  <1>3. x \in Int
    BY <1>1, <1>2
  <1> HIDE DEF x
  <1>4. VoltageOf(c) = x % (UINT16_MAX + 1)
    BY DEF VoltageOf, ToUint16, n, x
  <1> QED
    BY <1>3, <1>4, LowHalf
-----------------------------------------------------------------------------
LEMMA InitInv == Init => Inv
  <1> SUFFICES ASSUME Init PROVE Inv
    OBVIOUS
  <1>1. TypeOK
    <2>1. Nominal \in Nat /\ 1050 * Nominal <= UINT16_MAX /\ UINT16_MAX \in Nat
      BY BatteryAssumption, LowHalf
    <2>2. voltage \in Uint16
      BY <2>1 DEF Init, Uint16
    <2>3. 0 \in 0..SwitchCount
      BY EverySwitch
    <2>4. charge \in Int
      BY BatteryAssumption DEF Init
    <2>5. status \in [Switch -> StatusWord]
      BY BatteryAssumption DEF Init
    <2> QED
      BY <2>2, <2>3, <2>4, <2>5 DEF Init, TypeOK
  <1>2. Throughout /\ Passed /\ CountInv /\ VoltageInv
    BY DEF Init, Throughout, Draws, Configured, Passed, CountInv, CountOfCalls, VoltageInv
  <1> QED
    BY <1>1, <1>2 DEF Inv

\* A thread takes a data point: it reads the count ...
LEMMA ReadCountInv ==
    ASSUME Inv, TickStart \/ ReplyStart
    PROVE  Inv'
  <1>1. CASE TickStart
    <2>1. TypeOK'
      BY <1>1 DEF Inv, TypeOK, TickStart, ReadCount, battery, i2cThread, switches
    <2>2. Throughout' /\ Passed' /\ VoltageInv'
      BY <1>1 DEF Inv, TickStart, Throughout, Passed, VoltageInv, Power, Draws, battery,
                  i2cThread, switches
    <2>3. CountInv'
      BY <1>1 DEF Inv, TypeOK, TickStart, ReadCount, CountInv, CountOfCalls, i2cThread
    <2> QED
      BY <2>1, <2>2, <2>3 DEF Inv
  <1>2. CASE ReplyStart
    <2>1. TypeOK'
      BY <1>2 DEF Inv, TypeOK, ReplyStart, ReadCount, battery, timeThread, switches
    <2>2. Throughout' /\ Passed' /\ VoltageInv'
      BY <1>2 DEF Inv, ReplyStart, Throughout, Passed, VoltageInv, Power, Draws, battery,
                  timeThread, switches
    <2>3. CountInv'
      BY <1>2 DEF Inv, TypeOK, ReplyStart, ReadCount, CountInv, CountOfCalls, timeThread
    <2> QED
      BY <2>1, <2>2, <2>3 DEF Inv
  <1> QED
    BY <1>1, <1>2

\* ... and writes it.
LEMMA TickCountInv ==
    ASSUME Inv, TickCount
    PROVE  Inv'
  <1>1. TypeOK'
    BY DEF Inv, TypeOK, TickCount, WriteCount, battery, i2cThread, switches
  <1>2. Throughout' /\ Passed' /\ VoltageInv'
    BY DEF Inv, TickCount, Throughout, Passed, VoltageInv, Power, Draws, battery, switches
  <1>3. CountInv'
    BY DEF Inv, TypeOK, TickCount, WriteCount, CountInv, CountOfCalls, i2cThread
  <1> QED
    BY <1>1, <1>2, <1>3 DEF Inv

LEMMA ReplyCountInv ==
    ASSUME Inv, ReplyCount
    PROVE  Inv'
  <1>1. status' \in [Switch -> StatusWord]
    BY DEF Inv, TypeOK, ReplyCount, StatusWord
  <1>2. TypeOK'
    BY <1>1 DEF Inv, TypeOK, ReplyCount, WriteCount, battery, timeThread
  <1>3. \A s \in Switch :
            /\ status'[s].state = status[s].state
            /\ status[s].state = OFF => status'[s] = status[s]
    BY DEF ReplyCount, OFF, ON
  <1>4. Throughout'
    <2>1. \A s \in Switch : status[s].state = ON => Draws(s) /\ Draws(s)'
      BY <1>3 DEF Draws, OFF, ON
    <2>2. \A s \in Switch : Draws(s)' <=> Draws(s)
      BY <1>3, <2>1 DEF Inv, TypeOK, StatusWord, Draws
    <2> HIDE DEF Draws
    <2>3. commanded' = commanded /\ alwaysOn' = alwaysOn /\ alwaysOff' = alwaysOff
      BY DEF ReplyCount
    <2> QED
      BY <1>3, <2>2, <2>3 DEF Inv, TypeOK, Throughout, Configured
  <1>5. Passed' /\ VoltageInv'
    BY DEF Inv, ReplyCount, Passed, VoltageInv, Power, battery, timeThread
  <1>6. CountInv'
    BY DEF Inv, TypeOK, ReplyCount, WriteCount, CountInv, CountOfCalls, timeThread
  <1> QED
    BY <1>2, <1>4, <1>5, <1>6 DEF Inv

\* The loop over the switches begins, and goes on.
LEMMA TickSunInv ==
    ASSUME Inv, TickSun
    PROVE  Inv'
  <1>1. TypeOK'
    <2>1. 0 \in 0..SwitchCount
      BY EverySwitch
    <2>2. BaseLoad \in Nat
      BY BatteryAssumption
    <2>3. alwaysOn' \subseteq Switch /\ alwaysOff' \subseteq Switch
      BY DEF Inv, TypeOK, TickSun
    <2> QED
      BY <2>1, <2>2, <2>3 DEF Inv, TypeOK, TickSun, provider, battery, i2cThread
  <1>2. Throughout'
    BY DEF Inv, TypeOK, TickSun, Throughout, Draws, StatusWord
  <1>3. Passed'
    BY EverySwitch DEF Inv, TypeOK, TickSun, Passed
  <1>4. CountInv' /\ VoltageInv'
    BY DEF Inv, TickSun, CountInv, CountOfCalls, VoltageInv, Power, provider, battery, i2cThread
  <1> QED
    BY <1>1, <1>2, <1>3, <1>4 DEF Inv

LEMMA TickLoadInv ==
    ASSUME Inv, TickLoad
    PROVE  Inv'
  <1>1. next \in Switch /\ next \in Nat /\ SwitchCount \in Nat
    BY EverySwitch DEF Inv, TypeOK, TickLoad, AllRead
  <1>2. TypeOK'
    <2>1. Load[next] \in Nat
      BY <1>1, BatteryAssumption
    <2> QED
      BY <1>1, <2>1 DEF Inv, TypeOK, TickLoad, AllRead, provider, battery, i2cThread,
                       switches
  <1>3. Throughout' /\ CountInv' /\ VoltageInv'
    BY DEF Inv, TickLoad, Throughout, Draws, CountInv, CountOfCalls, VoltageInv, Power,
           provider, battery, i2cThread, switches
  <1>4. Passed'
    <2>1. next \in alwaysOn => Draws(next)
      BY DEF Inv, Throughout, Draws, OFF, ON
    <2>2. next \in alwaysOff => ~Draws(next)
      BY DEF Inv, Throughout
    <2>3. \A s \in Switch : s \in Int
      BY EverySwitch
    <2>4. next \notin commanded => (Draws(next) <=> next \in Configured)
      BY <1>1 DEF Inv, Throughout
    <2> HIDE DEF Draws, Configured
    <2>5. /\ charged' = IF Draws(next) THEN charged \cup {next} ELSE charged
          /\ next' = next + 1
          /\ UNCHANGED <<tick, commanded, alwaysOn, alwaysOff>>
      BY DEF TickLoad, switches
    <2>6. Passed /\ tick = "load"
      BY DEF Inv, TickLoad
    <2>7. Configured' = Configured
      BY DEF Configured
    <2>8. \A s \in Switch \ commanded :
              s < next + 1 => (s \in charged' <=> s \in Configured)
      BY <1>1, <2>3, <2>4, <2>5, <2>6 DEF Passed
    <2>9. /\ \A s \in charged' : s < next + 1
          /\ \A s \in alwaysOn : s < next + 1 => s \in charged'
          /\ charged' \cap alwaysOff = {}
      BY <1>1, <2>1, <2>2, <2>3, <2>5, <2>6 DEF Inv, TypeOK, Passed
    <2> QED
      BY <2>5, <2>7, <2>8, <2>9 DEF Passed
  <1> QED
    BY <1>2, <1>3, <1>4 DEF Inv

\* Charge and voltage.
LEMMA TickStoreInv ==
    ASSUME Inv, TickStore
    PROVE  Inv'
  <1>1. PanelPower * sun \in Int
    BY BatteryAssumption DEF Inv, TypeOK
  <1>2. TypeOK'
    BY <1>1 DEF Inv, TypeOK, TickStore, provider, i2cThread, switches
  <1>3. Throughout' /\ Passed' /\ CountInv'
    BY DEF Inv, TickStore, Throughout, Passed, Draws, CountInv, CountOfCalls, provider,
           i2cThread, switches
  <1>4. charge' - Power' = charge
    BY <1>1 DEF Inv, TypeOK, TickStore, Power
  <1>5. VoltageInv'
    BY <1>4 DEF Inv, TickStore, VoltageInv, VoltageOf
  <1> QED
    BY <1>2, <1>3, <1>5 DEF Inv

LEMMA TickVoltageInv ==
    ASSUME Inv, TickVoltage
    PROVE  Inv'
  <1>1. TypeOK'
    BY VoltageType DEF Inv, TypeOK, TickVoltage, provider, i2cThread, switches
  <1>2. Throughout' /\ Passed' /\ CountInv'
    BY DEF Inv, TickVoltage, Throughout, Passed, Draws, CountInv, CountOfCalls,
           provider, i2cThread, switches
  <1>3. VoltageInv'
    BY DEF TickVoltage, VoltageInv, VoltageOf
  <1> QED
    BY <1>1, <1>2, <1>3 DEF Inv

\* A switch is commanded.
LEMMA SwitchCommandInv ==
    ASSUME Inv, NEW s \in Switch, NEW v \in {OFF, ON}, SwitchCommand(s, v)
    PROVE  Inv'
  <1>1. Updated(s, v) \in StatusWord
    BY DEF Updated, StatusWord
  <1>2. TypeOK'
    BY <1>1 DEF Inv, TypeOK, SwitchCommand, provider, battery, timeThread, i2cThread
  <1>3. Throughout'
    BY DEF Inv, TypeOK, SwitchCommand, Updated, Throughout, Draws, OFF, ON
  <1>4. Passed' /\ CountInv' /\ VoltageInv'
    BY DEF Inv, SwitchCommand, Passed, CountInv, CountOfCalls, VoltageInv, Power, provider,
           battery, timeThread, i2cThread
  <1> QED
    BY <1>2, <1>3, <1>4 DEF Inv

LEMMA NextInv == Inv /\ [Next]_vars => Inv'
  <1> SUFFICES ASSUME Inv, [Next]_vars PROVE Inv'
    OBVIOUS
  <1>1. CASE TickStart \/ ReplyStart
    BY <1>1, ReadCountInv
  <1>2. CASE TickCount
    BY <1>2, TickCountInv
  <1>3. CASE ReplyCount
    BY <1>3, ReplyCountInv
  <1>4. CASE TickSun
    BY <1>4, TickSunInv
  <1>5. CASE TickLoad
    BY <1>5, TickLoadInv
  <1>6. CASE TickStore
    BY <1>6, TickStoreInv
  <1>7. CASE TickVoltage
    BY <1>7, TickVoltageInv
  <1>8. ASSUME NEW s \in Switch, NEW v \in {OFF, ON}, SwitchCommand(s, v) PROVE Inv'
    BY <1>8, SwitchCommandInv
  <1>9. CASE UNCHANGED vars
    BY <1>9 DEF vars, provider, battery, timeThread, i2cThread, switches, Inv, TypeOK,
                Throughout, Passed, Draws, CountInv, CountOfCalls, VoltageInv, Power
  <1> QED
    BY <1>1, <1>2, <1>3, <1>4, <1>5, <1>6, <1>7, <1>8, <1>9 DEF Next

(***************************************************************************)
(* The invariant holds in every reachable state.                           *)
(***************************************************************************)
THEOREM Invariance == Spec => []Inv
  BY InitInv, NextInv, PTL DEF Spec

(***************************************************************************)
(* Every variable stays in its type; the voltage is an uint16 whatever the *)
(* charge.                                                                 *)
(***************************************************************************)
THEOREM TypeCorrect == Spec => []TypeOK
  <1>1. Inv => TypeOK
    BY DEF Inv
  <1> QED
    BY Invariance, <1>1, PTL

(***************************************************************************)
(* The load of a tick has the switches that were on throughout, none of    *)
(* those that had been commanded and were off throughout, and of the never *)
(* commanded exactly those that were configured with a status word that is *)
(* not zero.                                                               *)
(***************************************************************************)
THEOREM LoadSound == Spec => []LoadOfTheTick
  <1>1. ASSUME Inv, tick = "load", AllRead PROVE LoadOfTheTick
    <2>1. \A s \in Switch : s < next
      BY <1>1, EverySwitch DEF AllRead
    <2>2. charged \subseteq Switch
      BY <1>1 DEF Inv, TypeOK
    <2>3. \A s \in Switch \ commanded : s \in charged <=> s \in Configured
      BY <1>1, <2>1 DEF Inv, Passed
    <2>4. charged \ commanded =
              {s \in Switch \ commanded : InitStatus[s] # [flags |-> 0, state |-> OFF]}
      BY <2>2, <2>3 DEF Configured
    <2>5. alwaysOn \subseteq charged /\ charged \cap alwaysOff = {}
      BY <1>1, <2>1 DEF Inv, TypeOK, Passed
    <2> QED
      BY <2>4, <2>5 DEF LoadOfTheTick
  <1>2. Inv => LoadOfTheTick
    BY <1>1 DEF LoadOfTheTick
  <1> QED
    BY Invariance, <1>2, PTL

(***************************************************************************)
(* The data provider counts the ticks and the telemetry requests, but for  *)
(* increments that met.                                                    *)
(***************************************************************************)
THEOREM CountSound == Spec => []CountOfCalls
  <1>1. Inv => CountOfCalls
    BY DEF Inv, CountInv
  <1> QED
    BY Invariance, <1>1, PTL

(***************************************************************************)
(* Within its capacity the battery has a voltage within 5 % of the nominal.*)
(***************************************************************************)
THEOREM VoltageSound == Spec => []VoltageWithinWhenCharged
  <1>1. ASSUME Inv, charge \in 0..Capacity, tick # "store" PROVE WithinFivePercent
    <2>1. Nominal \in Nat
      BY BatteryAssumption
    <2>2. CASE voltage = 1000 * Nominal
      BY <2>1, <2>2 DEF WithinFivePercent
    <2>3. CASE voltage = VoltageOf(charge)
      BY <1>1, <2>3, VoltageExact DEF WithinFivePercent
    <2> QED
      BY <1>1, <2>2, <2>3 DEF Inv, VoltageInv
  <1>2. Inv => VoltageWithinWhenCharged
    BY <1>1 DEF VoltageWithinWhenCharged
  <1> QED
    BY Invariance, <1>2, PTL

(***************************************************************************)
(* After the first tick the voltage follows the power: it does not rise in *)
(* a tick that discharges the battery, nor fall in one that charges it.    *)
(***************************************************************************)
THEOREM VoltageFollows == Spec => VoltageFollowsPower
  <1> DEFINE Follows ==
          /\ tick = "store" /\ tick' = "idle"
          /\ charge \in 0..Capacity /\ charge - Power \in 0..Capacity
          /\ ~FirstTick
          => /\ Power >= 0 => voltage' >= voltage
             /\ Power <= 0 => voltage' <= voltage
  <1>1. ASSUME Inv, Next, tick = "store", tick' = "idle",
               charge \in 0..Capacity, charge - Power \in 0..Capacity, ~FirstTick
        PROVE  /\ Power >= 0 => voltage' >= voltage
               /\ Power <= 0 => voltage' <= voltage
    <2> DEFINE before == charge - Power
    <2>1. TickVoltage
      BY <1>1 DEF Next, TickStart, TickCount, TickSun, TickLoad, TickStore, ReplyStart,
                  ReplyCount, SwitchCommand, timeThread
    <2>2. voltage' = VoltageOf(charge)
      BY <2>1 DEF TickVoltage
    <2>3. voltage = VoltageOf(before)
      BY <1>1 DEF Inv, VoltageInv, FirstTick
    <2>4. charge \in Int /\ Power \in Int
      BY <1>1, BatteryAssumption DEF Inv, TypeOK, Power
    <2>5. /\ Power >= 0 => before <= charge
          /\ Power <= 0 => charge <= before
      BY <2>4
    <2> HIDE DEF before
    <2>6. before \in 0..Capacity
      BY <1>1 DEF before
    <2> QED
      BY <1>1, <2>2, <2>3, <2>4, <2>5, <2>6, VoltageMonotonic
  <1>2. Inv /\ [Next]_vars => [Follows]_vars
    BY <1>1
  <1> QED
    BY Invariance, <1>2, PTL DEF Spec, VoltageFollowsPower
=============================================================================
