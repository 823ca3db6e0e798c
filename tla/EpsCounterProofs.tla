-------------------------- MODULE EpsCounterProofs --------------------------
(***************************************************************************)
(* The counters of the application add up, whatever their width: proved    *)
(* from the congruences of a uint8 that wraps.                             *)
(***************************************************************************)
EXTENDS EpsSystemProofs, FiniteSetTheorems

\* Division with remainder.
LEMMA DivMod ==
    ASSUME NEW N \in Nat \ {0}, NEW a \in Nat
    PROVE  /\ a = N * (a \div N) + (a % N)
           /\ a % N \in 0..(N - 1) /\ a \div N \in Nat
  OBVIOUS

\* The remainder is the only number below N that differs by a multiple of N.
LEMMA RemainderUnique ==
    ASSUME NEW N \in Nat \ {0}, NEW a \in Nat, NEW q \in Int, NEW r \in 0..(N - 1),
           a = N * q + r
    PROVE  a % N = r
  <1> DEFINE p == a \div N
             s == a % N
  <1>1. a = N * p + s /\ s \in 0..(N - 1) /\ p \in Nat
    BY DivMod
  <1> HIDE DEF p, s
  <1>2. N * (q - p) = s - r /\ q - p \in Int /\ s - r < N /\ s - r > -N
    BY <1>1
  <1>3. \A k \in Int : k >= 1 => N * k >= N
    OBVIOUS
  <1>4. \A k \in Int : k <= -1 => N * k <= -N
    OBVIOUS
  <1>5. q - p = 0
    BY <1>2, <1>3, <1>4
  <1>6. s = r
    BY <1>1, <1>2, <1>5
  <1> QED
    BY <1>6 DEF s

\* Numbers that differ by a multiple of N have the same remainder.
LEMMA Congruent ==
    ASSUME NEW N \in Nat \ {0}, NEW a \in Nat, NEW b \in Nat, NEW k \in Int,
           a = b + N * k
    PROVE  a % N = b % N
  <1>1. b = N * (b \div N) + (b % N) /\ b % N \in 0..(N - 1) /\ b \div N \in Nat
    BY DivMod
  <1>2. a = N * ((b \div N) + k) + (b % N)
    BY <1>1
  <1>3. (b \div N) + k \in Int
    BY <1>1
  <1> QED
    BY <1>1, <1>2, <1>3, RemainderUnique

\* Equal remainders stay equal when both numbers grow by the same amount.
LEMMA AddBoth ==
    ASSUME NEW N \in Nat \ {0}, NEW a \in Nat, NEW b \in Nat, NEW i \in Nat,
           a % N = b % N
    PROVE  (a + i) % N = (b + i) % N
  <1>1. /\ a = N * (a \div N) + (a % N) /\ a \div N \in Nat
        /\ b = N * (b \div N) + (b % N) /\ b \div N \in Nat
    BY DivMod
  <1> DEFINE k == (a \div N) - (b \div N)
  <1>2. k \in Int
    BY <1>1
  <1> DEFINE u == a + i
             v == b + i
  <1>3. u = v + N * k /\ u \in Nat /\ v \in Nat
    BY <1>1
  <1> HIDE DEF k, u, v
  <1>4. u % N = v % N
    BY <1>2, <1>3, Congruent
  <1> QED
    BY <1>4 DEF u, v

\* A remainder taken early makes no difference in the end.
LEMMA ModInside ==
    ASSUME NEW N \in Nat \ {0}, NEW a \in Nat, NEW i \in Nat
    PROVE  ((a % N) + i) % N = (a + i) % N
  <1>1. a % N \in 0..(N - 1) /\ a % N \in Nat
    BY DivMod
  <1>2. (a % N) % N = a % N
    BY <1>1
  <1> QED
    BY <1>1, <1>2, AddBoth

-----------------------------------------------------------------------------
\* Counting one of two counters adds one to what they add up to.
LEMMA SumIncrement ==
    ASSUME NEW c \in Counts, NEW x \in Counter, NEW y \in Counter, x # y,
           NEW name \in {x, y}, NEW i \in Nat
    PROVE  (Increment(c, name)[x] + Increment(c, name)[y] + i) % CounterModulus
               = (c[x] + c[y] + i + 1) % CounterModulus
  <1>1. c[x] \in Nat /\ c[y] \in Nat /\ CounterModulus \in Nat \ {0}
    BY SizeAssumption DEF Counts
  <1>2. /\ x \in DOMAIN c /\ y \in DOMAIN c
    BY DEF Counts
  <1>3. CASE name = x
    <2>1. Increment(c, name)[x] = (c[x] + 1) % CounterModulus
          /\ Increment(c, name)[y] = c[y]
      BY <1>2, <1>3 DEF Increment
    <2>2. (((c[x] + 1) % CounterModulus) + (c[y] + i)) % CounterModulus
              = ((c[x] + 1) + (c[y] + i)) % CounterModulus
      <3> DEFINE u == c[x] + 1
                 j == c[y] + i
      <3>1. u \in Nat /\ j \in Nat
        BY <1>1
      <3> HIDE DEF u, j
      <3>2. ((u % CounterModulus) + j) % CounterModulus = (u + j) % CounterModulus
        BY <1>1, <3>1, ModInside
      <3> QED
        BY <3>2 DEF u, j
    <2>3. (c[x] + 1) % CounterModulus \in Nat
      BY <1>1, DivMod
    <2> QED
      BY <1>1, <2>1, <2>2, <2>3
  <1>4. CASE name = y
    <2>1. Increment(c, name)[y] = (c[y] + 1) % CounterModulus
          /\ Increment(c, name)[x] = c[x]
      BY <1>2, <1>4 DEF Increment
    <2>2. (((c[y] + 1) % CounterModulus) + (c[x] + i)) % CounterModulus
              = ((c[y] + 1) + (c[x] + i)) % CounterModulus
      <3> DEFINE u == c[y] + 1
                 j == c[x] + i
      <3>1. u \in Nat /\ j \in Nat
        BY <1>1
      <3> HIDE DEF u, j
      <3>2. ((u % CounterModulus) + j) % CounterModulus = (u + j) % CounterModulus
        BY <1>1, <3>1, ModInside
      <3> QED
        BY <3>2 DEF u, j
    <2>3. (c[y] + 1) % CounterModulus \in Nat
      BY <1>1, DivMod
    <2> QED
      BY <1>1, <2>1, <2>2, <2>3
  <1> QED
    BY <1>3, <1>4

\* What the two pairs of counters add up to.
CommandSum(c) == c.CommandCount + c.CommandErrorCount
DeviceSum(c) == c.DeviceCount + c.DeviceErrorCount

\* d is congruent to a sum of counters.
Same(a, d) == a % CounterModulus = d % CounterModulus

LEMMA CountCommand ==
    ASSUME NEW c \in Counts, NEW d \in Nat, Same(CommandSum(c), d),
           NEW name \in {"CommandCount", "CommandErrorCount"}
    PROVE  /\ Same(CommandSum(Increment(c, name)), d + 1)
           /\ DeviceSum(Increment(c, name)) = DeviceSum(c)
  <1>1. c.CommandCount \in Nat /\ c.CommandErrorCount \in Nat
        /\ CounterModulus \in Nat \ {0}
    BY SizeAssumption DEF Counts, Counter
  <1>2. (Increment(c, name).CommandCount + Increment(c, name).CommandErrorCount + 0)
            % CounterModulus
            = (c.CommandCount + c.CommandErrorCount + 0 + 1) % CounterModulus
    BY SumIncrement DEF Counter
  <1>3. Increment(c, name) \in Counts
    BY IncrementType DEF Counter
  <1>4. CommandSum(Increment(c, name)) % CounterModulus
            = (CommandSum(c) + 1) % CounterModulus
    BY <1>1, <1>2, <1>3 DEF CommandSum, Counts, Counter
  <1>5. (CommandSum(c) + 1) % CounterModulus = (d + 1) % CounterModulus
    <2>1. CommandSum(c) \in Nat /\ CommandSum(c) % CounterModulus = d % CounterModulus
      BY <1>1 DEF Same, CommandSum
    <2> QED
      BY <1>1, <2>1, AddBoth
  <1>6. DeviceSum(Increment(c, name)) = DeviceSum(c)
    BY DEF DeviceSum, Increment, Counts, Counter
  <1> QED
    BY <1>4, <1>5, <1>6 DEF Same

LEMMA CountDevice ==
    ASSUME NEW c \in Counts, NEW name \in {"DeviceCount", "DeviceErrorCount"}
    PROVE  /\ Same(DeviceSum(Increment(c, name)), DeviceSum(c) + 1)
           /\ CommandSum(Increment(c, name)) = CommandSum(c)
  <1>1. c.DeviceCount \in Nat /\ c.DeviceErrorCount \in Nat
        /\ CounterModulus \in Nat \ {0}
    BY SizeAssumption DEF Counts, Counter
  <1>2. (Increment(c, name).DeviceCount + Increment(c, name).DeviceErrorCount + 0)
            % CounterModulus
            = (c.DeviceCount + c.DeviceErrorCount + 0 + 1) % CounterModulus
    BY SumIncrement DEF Counter
  <1>3. Increment(c, name) \in Counts
    BY IncrementType DEF Counter
  <1>4. DeviceSum(Increment(c, name)) % CounterModulus
            = (DeviceSum(c) + 1) % CounterModulus
    BY <1>1, <1>2, <1>3 DEF DeviceSum, Counts, Counter
  <1>5. CommandSum(Increment(c, name)) = CommandSum(c)
    BY DEF CommandSum, Increment, Counts, Counter
  <1> QED
    BY <1>4, <1>5 DEF Same
-----------------------------------------------------------------------------
\* CountersAddUp, in these terms.
Balanced(c, flying, d) ==
    Same(CommandSum(c), d.commands) /\ Same(DeviceSum(c) + flying, d.operations)

LEMMA Restated == CountersAddUp <=> Balanced(count, InFlight, dispatched)
  BY DEF CountersAddUp, Balanced, Same, CommandSum, DeviceSum

\* Sums are numbers, and congruence survives adding one to both sides.
LEMMA SumsType ==
    ASSUME NEW c \in Counts
    PROVE  CommandSum(c) \in Nat /\ DeviceSum(c) \in Nat
  BY SizeAssumption DEF CommandSum, DeviceSum, Counts, Counter

LEMMA SameAdd ==
    ASSUME NEW a \in Nat, NEW d \in Nat, Same(a, d)
    PROVE  Same(a + 1, d + 1)
  <1>1. CounterModulus \in Nat \ {0} /\ 1 \in Nat
    BY SizeAssumption
  <1>2. a % CounterModulus = d % CounterModulus
    BY DEF Same
  <1>3. (a + 1) % CounterModulus = (d + 1) % CounterModulus
    BY <1>1, <1>2, AddBoth
  <1> QED
    BY <1>3 DEF Same

\* A command is counted, and no device operation starts or ends.
LEMMA BalanceCommand ==
    ASSUME NEW c \in Counts, NEW d \in [commands : Nat, operations : Nat],
           NEW flying \in Nat, Balanced(c, flying, d),
           NEW name \in {"CommandCount", "CommandErrorCount"}
    PROVE  Balanced(Increment(c, name), flying,
                    [commands |-> d.commands + 1, operations |-> d.operations])
  BY CountCommand DEF Balanced

\* A device operation starts.
LEMMA BalanceStart ==
    ASSUME NEW c \in Counts, NEW d \in [commands : Nat, operations : Nat],
           Balanced(c, 0, d)
    PROVE  Balanced(c, 1, [commands |-> d.commands, operations |-> d.operations + 1])
  <1>1. DeviceSum(c) \in Nat /\ DeviceSum(c) + 0 = DeviceSum(c)
    BY SumsType
  <1>2. Same(DeviceSum(c) + 1, d.operations + 1)
    BY <1>1, SameAdd DEF Balanced
  <1> QED
    BY <1>2 DEF Balanced

\* A device operation ends, and is counted.
LEMMA BalanceEnd ==
    ASSUME NEW c \in Counts, NEW d \in [commands : Nat, operations : Nat],
           Balanced(c, 1, d), NEW name \in {"DeviceCount", "DeviceErrorCount"}
    PROVE  Balanced(Increment(c, name), 0, d)
  <1>1. /\ Same(DeviceSum(Increment(c, name)), DeviceSum(c) + 1)
        /\ CommandSum(Increment(c, name)) = CommandSum(c)
    BY CountDevice
  <1>2. Increment(c, name) \in Counts
    BY IncrementType DEF Counter
  <1>3. DeviceSum(Increment(c, name)) + 0 = DeviceSum(Increment(c, name))
    BY <1>2, SumsType
  <1> QED
    BY <1>1, <1>3 DEF Balanced, Same

-----------------------------------------------------------------------------
(***************************************************************************)
(* A message is taken from the pipe: one step for each way through         *)
(* GENERIC_EPS_ProcessCommandPacket.                                       *)
(***************************************************************************)
LEMMA TakeMessageBalances ==
    ASSUME Inv, Balanced(count, InFlight, dispatched), TakeMessage
    PROVE  Balanced(count', InFlight', dispatched')
  <1> DEFINE m == msg'
             Commands(n) == [commands |-> dispatched.commands + n,
                             operations |-> dispatched.operations]
             Both == [commands |-> dispatched.commands + 1,
                      operations |-> dispatched.operations + 1]
  <1>1. /\ count \in Counts /\ dispatched \in [commands : Nat, operations : Nat]
        /\ Balanced(count, 0, dispatched)
    BY DEF Inv, TypeOK, AppTypeOK, TakeMessage, Receive, InFlight, Transfer
  <1>2. \/ m.mid = CMD /\ ProcessGroundCommand(m)
        \/ m.mid = REQ_HK /\ ProcessTelemetryRequest(m)
    BY DEF TakeMessage, Receive, ProcessGroundCommand, ProcessTelemetryRequest, Noop,
           ResetCounters, StartSwitch, RejectSwitch, ValidSwitch
  <1>3. InFlight' = IF pc' = "receive" THEN 0 ELSE 1
    BY ReceiveType DEF InFlight, Transfer, Inv, TypeOK, TakeMessage
  <1>4. /\ IsReset(m) => dispatched' = [commands |-> 0, operations |-> 0]
        /\ ~IsReset(m) =>
              dispatched' = [commands |-> dispatched.commands + (IF IsHkRequest(m) THEN 0 ELSE 1),
                    operations |-> dispatched.operations +
                        (IF IsHkRequest(m) \/ IsSwitchCommand(m) THEN 1 ELSE 0)]
    BY DEF TakeMessage
  <1> HIDE DEF m
  \* The command is counted and that is all.
  <1>5. ASSUME NEW name \in {"CommandCount", "CommandErrorCount"},
               count' = Increment(count, name), pc' = "receive",
               ~IsReset(m), ~IsHkRequest(m), ~IsSwitchCommand(m)
        PROVE  Balanced(count', InFlight', dispatched')
    <2>1. dispatched' = Commands(1) /\ InFlight' = 0
      BY <1>1, <1>3, <1>4, <1>5
    <2> QED
      BY <1>1, <1>5, <2>1, BalanceCommand
  <1>6. CASE m.mid = CMD /\ Noop(m)
    <2>1. ~IsReset(m) /\ ~IsHkRequest(m) /\ ~IsSwitchCommand(m)
      BY <1>6, IdsDiffer DEF Noop, IsReset, IsHkRequest, IsSwitchCommand, NOOP_CC,
                             RESET_COUNTERS_CC, SWITCH_CC
    <2> QED
      BY <1>5, <1>6, <2>1 DEF Noop, VerifyCmdLength
  <1>7. CASE m.mid = CMD /\ ResetCounters(m)
    <2>1. ~IsHkRequest(m) /\ ~IsSwitchCommand(m) /\ pc' = "receive"
      BY <1>7, IdsDiffer DEF ResetCounters, IsHkRequest, IsSwitchCommand,
                             RESET_COUNTERS_CC, SWITCH_CC
    <2>2. CASE m.length = NoArgsLength
      <3>1. count' = ZeroCounts /\ dispatched' = [commands |-> 0, operations |-> 0]
        BY <1>4, <1>7, <2>2 DEF ResetCounters, IsReset
      <3> QED
        BY <1>3, <2>1, <3>1 DEF Balanced, Same, CommandSum, DeviceSum, ZeroCounts,
                                Counter
    <2>3. CASE m.length # NoArgsLength
      BY <1>5, <1>7, <2>1, <2>3 DEF ResetCounters, VerifyCmdLength, IsReset
    <2> QED
      BY <2>2, <2>3
  <1>8. CASE m.mid = CMD /\ StartSwitch(m)
    <2>1. /\ ~IsReset(m) /\ ~IsHkRequest(m) /\ IsSwitchCommand(m)
          /\ pc' = "command" /\ count' = Increment(count, "CommandCount")
      BY <1>8, IdsDiffer DEF StartSwitch, VerifyCmdLength, IsReset, IsHkRequest,
                             IsSwitchCommand, RESET_COUNTERS_CC, SWITCH_CC
    <2>2. Balanced(count', 0, Commands(1)) /\ count' \in Counts
      BY <1>1, <2>1, BalanceCommand, IncrementType DEF Counter
    <2>3. Commands(1) \in [commands : Nat, operations : Nat]
      BY <1>1
    <2>4. Balanced(count', 1, [commands |-> Commands(1).commands,
                               operations |-> Commands(1).operations + 1])
      BY <2>2, <2>3, BalanceStart
    <2> QED
      BY <1>1, <1>3, <1>4, <2>1, <2>4
  <1>9. CASE m.mid = CMD /\ RejectSwitch(m)
    <2>1. ~IsReset(m) /\ ~IsHkRequest(m) /\ pc' = "receive"
      BY <1>9, IdsDiffer DEF RejectSwitch, IsReset, IsHkRequest,
                             RESET_COUNTERS_CC, SWITCH_CC
    <2>2. CASE m.length # SwitchLength
      BY <1>5, <1>9, <2>1, <2>2 DEF RejectSwitch, VerifyCmdLength, IsSwitchCommand
    <2>3. CASE m.length = SwitchLength
      <3> DEFINE c == Increment(count, "CommandCount")
      <3>1. IsSwitchCommand(m) /\ count' = Increment(c, "DeviceErrorCount")
        BY <1>9, <2>3 DEF RejectSwitch, VerifyCmdLength, IsSwitchCommand
      <3>2. Balanced(c, 0, Commands(1)) /\ c \in Counts
        BY <1>1, BalanceCommand, IncrementType DEF Counter
      <3>3. Commands(1) \in [commands : Nat, operations : Nat]
        BY <1>1
      <3> HIDE DEF c
      <3>4. Balanced(c, 1, [commands |-> Commands(1).commands,
                            operations |-> Commands(1).operations + 1])
        BY <3>2, <3>3, BalanceStart
      <3>5. Balanced(c, 1, Both) /\ Both \in [commands : Nat, operations : Nat]
        BY <1>1, <3>4
      <3>6. Balanced(count', 0, Both)
        BY <3>1, <3>2, <3>5, BalanceEnd
      <3> QED
        BY <1>1, <1>3, <1>4, <2>1, <3>1, <3>6
    <2> QED
      BY <2>2, <2>3
  <1>10. CASE /\ UnknownCode
              /\ \/ /\ m.mid = CMD
                    /\ m.code \notin {NOOP_CC, RESET_COUNTERS_CC, SWITCH_CC}
                 \/ m.mid = REQ_HK /\ m.code # REQ_HK_TLM
    <2>1. ~IsReset(m) /\ ~IsHkRequest(m) /\ ~IsSwitchCommand(m)
      BY <1>10, IdsDiffer DEF IsReset, IsHkRequest, IsSwitchCommand
    <2> QED
      BY <1>5, <1>10, <2>1 DEF UnknownCode
  <1>11. CASE m.mid = REQ_HK /\ m.code = REQ_HK_TLM /\ pc' = "request" /\ UNCHANGED count
    <2>1. ~IsReset(m) /\ IsHkRequest(m)
      BY <1>11, IdsDiffer DEF IsReset, IsHkRequest
    <2>2. dispatched' = [commands |-> dispatched.commands,
                         operations |-> dispatched.operations + 1]
      BY <1>1, <1>4, <2>1
    <2> QED
      BY <1>1, <1>3, <1>11, <2>2, BalanceStart
  <1> QED
    BY <1>2, <1>6, <1>7, <1>8, <1>9, <1>10, <1>11
       DEF ProcessGroundCommand, ProcessTelemetryRequest

\* The end of a request counts the operation that ends.
LEMMA EndBalances ==
    ASSUME Inv, Balanced(count, InFlight, dispatched),
           LoseRequest \/ ReadReply \/ LoseReply
    PROVE  Balanced(count', InFlight', dispatched')
  <1>1. PICK buffer \in Buffer : Complete(buffer)
    BY Endings
  <1>2. InFlight = 1 /\ InFlight' = 0
    BY <1>1, Endings DEF InFlight, Transfer, Complete, CompleteRequest
  <1>3. \E name \in {"DeviceCount", "DeviceErrorCount"} : count' = Increment(count, name)
    BY <1>1 DEF Complete, CompleteRequest
  <1>4. /\ count \in Counts /\ dispatched \in [commands : Nat, operations : Nat]
        /\ dispatched' = dispatched
    BY <1>1 DEF Inv, TypeOK, AppTypeOK, Complete
  <1> QED
    BY <1>2, <1>3, <1>4, BalanceEnd

LEMMA NextBalances ==
    Inv /\ Balanced(count, InFlight, dispatched) /\ [Next]_vars
        => Balanced(count', InFlight', dispatched')
  <1> SUFFICES ASSUME Inv, Balanced(count, InFlight, dispatched), [Next]_vars
               PROVE  Balanced(count', InFlight', dispatched')
    OBVIOUS
  <1>1. CASE TakeMessage
    BY <1>1, TakeMessageBalances
  <1>2. CASE LoseRequest \/ ReadReply \/ LoseReply
    BY <1>2, EndBalances
  <1>3. CASE UNCHANGED <<count, dispatched>> /\ (pc \in Transfer <=> pc' \in Transfer)
    BY <1>3 DEF InFlight
  <1>4. CASE AppAlone
    <2>1. UNCHANGED <<count, dispatched>> /\ pc \notin Transfer /\ pc' \notin Transfer
      BY <1>4 DEF AppAlone, InitCallSucceeds, InitCallFails, ReceiveFails, Exit,
                  historyVars, InitCall, AfterCall, Transfer
    <2> QED
      BY <1>3, <2>1
  <1>5. CASE CommandDevice \/ WriteRequest
    <2>1. UNCHANGED <<count, dispatched>> /\ pc \in Transfer /\ pc' \in Transfer
      BY <1>5 DEF CommandDevice, WriteRequest, Proceed, historyVars, Transfer
    <2> QED
      BY <1>3, <2>1
  <1>6. CASE (\E m \in InputMessage : Send(m)) \/ Device \/ UNCHANGED vars
    <2>1. UNCHANGED <<count, dispatched, pc>>
      BY <1>6 DEF Send, Route, Device, vars, appVars, historyVars
    <2> QED
      BY <1>3, <2>1
  <1> QED
    BY <1>1, <1>2, <1>4, <1>5, <1>6 DEF Next

(***************************************************************************)
(* The counters add up: modulo their width, whatever it is, every command  *)
(* since the last reset is counted once and every device operation once.   *)
(***************************************************************************)
THEOREM CountersBalance == Spec => []CountersAddUp
  <1>1. Init => Balanced(count, InFlight, dispatched)
    BY DEF Init, AppStart, Balanced, Same, CommandSum, DeviceSum, ZeroCounts, Counter,
           InFlight, Transfer
  <1>2. Inv /\ Balanced(count, InFlight, dispatched) /\ [Next]_vars
            => Balanced(count, InFlight, dispatched)'
    BY NextBalances
  <1>3. Balanced(count, InFlight, dispatched) => CountersAddUp
    BY Restated
  <1> QED
    BY Invariance, <1>1, <1>2, <1>3, PTL DEF Spec

-----------------------------------------------------------------------------
(***************************************************************************)
(* The places of a pipe that hold housekeeping requests, and what becomes  *)
(* of their number at both ends of the pipe.                               *)
(***************************************************************************)
Places(q) == {i \in 1..Len(q) : IsHkRequest(q[i])}

LEMMA PlacesFinite ==
    ASSUME NEW q \in Seq(InputMessage)
    PROVE  IsFiniteSet(Places(q)) /\ Cardinality(Places(q)) \in Nat
  <1>1. Len(q) \in Nat
    OBVIOUS
  <1>2. IsFiniteSet(1..Len(q))
    BY <1>1, FS_Interval
  <1>3. IsFiniteSet(Places(q))
    BY <1>2, FS_Subset DEF Places
  <1> QED
    BY <1>3, FS_CardinalityType

LEMMA PlacesAppended ==
    ASSUME NEW q \in Seq(InputMessage), NEW m \in InputMessage
    PROVE  Cardinality(Places(Append(q, m)))
               = Cardinality(Places(q)) + (IF IsHkRequest(m) THEN 1 ELSE 0)
  <1> DEFINE n == Len(q) + 1
             r == Append(q, m)
  <1>1. /\ Len(q) \in Nat /\ Len(r) = n /\ r[n] = m
        /\ \A i \in 1..Len(q) : r[i] = q[i]
    OBVIOUS
  <1>2. \A i : i \in 1..n <=> i \in 1..Len(q) \/ i = n
    BY <1>1
  <1> HIDE DEF r
  <1>3. n \notin Places(q)
    BY <1>1 DEF Places
  <1>4. Places(r) = IF IsHkRequest(m) THEN Places(q) \cup {n} ELSE Places(q)
    BY <1>1, <1>2 DEF Places
  <1>5. Cardinality(Places(q) \cup {n}) = Cardinality(Places(q)) + 1
    BY <1>3, PlacesFinite, FS_AddElement
  <1> QED
    BY <1>4, <1>5, PlacesFinite DEF r

LEMMA PlacesTaken ==
    ASSUME NEW q \in Seq(InputMessage), q # <<>>
    PROVE  Cardinality(Places(q))
               = Cardinality(Places(Tail(q))) + (IF IsHkRequest(Head(q)) THEN 1 ELSE 0)
  <1> DEFINE r == Tail(q)
             rest == Places(q) \ {1}
             f == [i \in Places(r) |-> i + 1]
  <1>1. /\ Len(q) \in Nat /\ Len(q) >= 1 /\ Head(q) = q[1]
        /\ r \in Seq(InputMessage) /\ Len(r) = Len(q) - 1
        /\ \A i \in 1..Len(r) : r[i] = q[i + 1]
    OBVIOUS
  <1> HIDE DEF r
  <1>2. f \in Bijection(Places(r), rest)
    <2>1. \A i \in Places(r) : i \in Nat /\ f[i] = i + 1 /\ i + 1 \in rest
      BY <1>1 DEF Places
    <2>2. \A j \in rest : j - 1 \in Places(r) /\ (j - 1) + 1 = j
      BY <1>1 DEF Places
    <2>3. f \in [Places(r) -> rest]
      BY <2>1
    <2>4. \A j \in rest : \E i \in Places(r) : f[i] = j
      BY <2>1, <2>2
    <2>5. \A i, j \in Places(r) : f[i] = f[j] => i = j
      BY <2>1
    <2> HIDE DEF f, rest
    <2> QED
      BY <2>3, <2>4, <2>5 DEF Bijection, Injection, Surjection, IsInjective
  <1>3. IsFiniteSet(Places(q)) /\ Cardinality(Places(q)) \in Nat
    BY PlacesFinite
  <1>4. Cardinality(rest) = Cardinality(Places(r))
    <2>1. ExistsBijection(Places(r), rest)
      BY <1>2 DEF ExistsBijection
    <2>2. IsFiniteSet(Places(r))
      BY <1>1, PlacesFinite
    <2> QED
      BY <2>1, <2>2, FS_Bijection
  <1>5. Cardinality(rest) = IF 1 \in Places(q) THEN Cardinality(Places(q)) - 1
                                               ELSE Cardinality(Places(q))
    BY <1>3, FS_RemoveElement
  <1>6. 1 \in Places(q) <=> IsHkRequest(Head(q))
    BY <1>1 DEF Places
  <1> QED
    BY <1>3, <1>4, <1>5, <1>6 DEF r

\* RequestsAccountedFor, by the places of the pipe.
Accounted ==
    /\ transmitted <= accepted
    /\ pc # "exited" => accepted = transmitted + Cardinality(Places(pipe)) + Answering

LEMMA AccountedRestated == Accounted <=> RequestsAccountedFor
  <1>1. Waiting = Places(pipe)
    BY DEF Waiting, Places
  <1> QED
    BY <1>1 DEF Accounted, RequestsAccountedFor

\* The types that the accounting needs.
LEMMA AccountTypes ==
    ASSUME Inv
    PROVE  /\ accepted \in Nat /\ transmitted \in Nat
           /\ pipe \in Seq(InputMessage) /\ Cardinality(Places(pipe)) \in Nat
           /\ Answering \in {0, 1}
  BY PlacesFinite DEF Inv, TypeOK, AppTypeOK, Answering

LEMMA SendAccounts ==
    ASSUME Inv, Accounted, NEW m \in InputMessage, Send(m)
    PROVE  Accounted'
  <1>1. pc' = pc /\ transmitted' = transmitted /\ Answering' = Answering
    BY DEF Send, Route, Answering
  <1>2. CASE pipe' = pipe
    <2>1. accepted' = accepted
      BY <1>2, AccountTypes DEF Send
    <2> QED
      BY <1>1, <1>2, <2>1 DEF Accounted
  <1>3. CASE pipe' = Append(pipe, m)
    <2>1. pipe' # pipe
      BY <1>3, AccountTypes
    <2>2. accepted' = accepted + (IF IsHkRequest(m) THEN 1 ELSE 0)
      BY <2>1 DEF Send
    <2>3. Cardinality(Places(pipe'))
              = Cardinality(Places(pipe)) + (IF IsHkRequest(m) THEN 1 ELSE 0)
      BY <1>3, AccountTypes, PlacesAppended
    <2> QED
      BY <1>1, <2>2, <2>3, AccountTypes DEF Accounted
  <1> QED
    BY <1>2, <1>3 DEF Send, Route

\* What is taken from the pipe is handled if it is a housekeeping request.
LEMMA TakeMessageAccounts ==
    ASSUME Inv, Accounted, TakeMessage
    PROVE  Accounted'
  <1>1. /\ pc = "receive" /\ pipe # <<>>
        /\ msg' = Head(pipe) /\ pipe' = Tail(pipe)
        /\ UNCHANGED <<accepted, transmitted>>
    BY DEF TakeMessage, Receive
  <1>2. /\ pc' \in {"receive", "command", "request"}
        /\ pc' = "command" => msg'.mid = CMD
        /\ pc' = "request" => msg'.mid = REQ_HK
    BY ReceiveType DEF Inv, TypeOK, TakeMessage
  <1>3. Answering = 0
    BY <1>1 DEF Answering, Transfer
  <1>4. IsHkRequest(msg') <=> pc' = "request"
    <2>1. CASE msg'.mid = CMD
      BY <1>2, <2>1, IdsDiffer DEF IsHkRequest
    <2>2. CASE msg'.mid = REQ_HK /\ ProcessTelemetryRequest(Head(pipe))
      BY <1>1, <2>2 DEF ProcessTelemetryRequest, UnknownCode, IsHkRequest
    <2> QED
      BY <1>1, <2>1, <2>2 DEF TakeMessage, Receive
  <1>5. Answering' = IF IsHkRequest(Head(pipe)) THEN 1 ELSE 0
    BY <1>1, <1>2, <1>4, IdsDiffer DEF Answering, Transfer
  <1>6. Cardinality(Places(pipe))
            = Cardinality(Places(pipe')) + (IF IsHkRequest(Head(pipe)) THEN 1 ELSE 0)
    BY <1>1, AccountTypes, PlacesTaken
  <1>7. Cardinality(Places(pipe')) \in Nat
    <2>1. Tail(pipe) \in Seq(InputMessage)
      BY <1>1, AccountTypes
    <2> QED
      BY <1>1, <2>1, PlacesFinite
  <1>8. accepted = transmitted + Cardinality(Places(pipe))
    BY <1>1, <1>3, AccountTypes DEF Accounted
  <1>9. accepted = transmitted + Cardinality(Places(pipe')) + Answering'
    BY <1>5, <1>6, <1>7, <1>8, AccountTypes
  <1> QED
    BY <1>1, <1>9 DEF Accounted

\* The end of a request publishes a packet, if it was for housekeeping.
LEMMA EndAccounts ==
    ASSUME Inv, Accounted, LoseRequest \/ ReadReply \/ LoseReply
    PROVE  Accounted'
  <1>1. PICK buffer \in Buffer : Complete(buffer)
    BY Endings
  <1>2. pc \in {"request", "read"}
    BY Endings
  <1>3. /\ UNCHANGED <<pipe, accepted, msg>> /\ pc' = "receive"
        /\ transmitted' = transmitted + (IF msg.mid = REQ_HK THEN 1 ELSE 0)
    BY <1>1 DEF Complete, CompleteRequest
  <1>4. Answering = (IF msg.mid = REQ_HK THEN 1 ELSE 0) /\ Answering' = 0
    BY <1>2, <1>3 DEF Answering, Transfer
  <1>5. accepted = transmitted + Cardinality(Places(pipe)) + Answering
    BY <1>2 DEF Accounted
  <1>6. transmitted' <= accepted /\ accepted = transmitted' + Cardinality(Places(pipe)) + 0
    BY <1>3, <1>4, <1>5, AccountTypes
  <1> QED
    BY <1>3, <1>4, <1>6 DEF Accounted

LEMMA NextAccounts == Inv /\ Accounted /\ [Next]_vars => Accounted'
  <1> SUFFICES ASSUME Inv, Accounted, [Next]_vars PROVE Accounted'
    OBVIOUS
  <1>1. CASE UNCHANGED <<pipe, accepted, transmitted, Answering>>
             /\ (pc = "exited" => pc' = "exited")
    BY <1>1 DEF Accounted
  <1>2. CASE AppAlone
    <2>1. CASE Exit
      BY <2>1, <1>2 DEF Exit, AppAlone, Accounted, historyVars
    <2>2. CASE InitCallSucceeds \/ InitCallFails \/ ReceiveFails
      <3>1. pc \notin Transfer /\ pc' \notin Transfer /\ pc # "exited"
        BY <2>2 DEF InitCallSucceeds, InitCallFails, ReceiveFails, InitCall, AfterCall,
                    Transfer
      <3> QED
        BY <1>1, <1>2, <2>2, <3>1 DEF InitCallSucceeds, InitCallFails, ReceiveFails,
                                      AppAlone, historyVars, Answering
    <2> QED
      BY <1>2, <2>1, <2>2 DEF AppAlone
  <1>3. CASE CommandDevice \/ WriteRequest
    <2>1. pc \in Transfer /\ pc' \in Transfer /\ UNCHANGED <<msg, pipe, accepted, transmitted>>
      BY <1>3 DEF CommandDevice, WriteRequest, Proceed, historyVars, Transfer
    <2>2. pc # "exited"
      BY <2>1 DEF Transfer
    <2> QED
      BY <1>1, <2>1, <2>2 DEF Answering
  <1>4. CASE Device \/ UNCHANGED vars
    <2>1. UNCHANGED <<pc, msg, pipe, accepted, transmitted>>
      BY <1>4 DEF Device, vars, appVars, historyVars
    <2> QED
      BY <1>1, <2>1 DEF Answering
  <1> QED
    BY <1>2, <1>3, <1>4, SendAccounts, TakeMessageAccounts, EndAccounts DEF Next

(***************************************************************************)
(* No housekeeping request that entered the pipe is lost, and none is      *)
(* answered twice, whatever the bus and the device do.                     *)
(***************************************************************************)
THEOREM RequestsAccounted == Spec => []RequestsAccountedFor
  <1>1. Init => Accounted
    <2> SUFFICES ASSUME Init PROVE Accounted
      OBVIOUS
    <2>1. Len(pipe) = 0 /\ Answering = 0 /\ accepted = 0 /\ transmitted = 0
      BY DEF Init, AppStart, Answering, Transfer
    <2>2. Places(pipe) = {}
      BY <2>1 DEF Places
    <2> QED
      BY <2>1, <2>2, FS_EmptySet DEF Accounted
  <1>2. Inv /\ Accounted /\ [Next]_vars => Accounted'
    BY NextAccounts
  <1>3. Accounted => RequestsAccountedFor
    BY AccountedRestated
  <1> QED
    BY Invariance, <1>1, <1>2, <1>3, PTL DEF Spec
=============================================================================
