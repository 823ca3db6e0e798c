-------------------------- MODULE SwitchContract --------------------------
(***************************************************************************)
(* What the application promises of the switches, with no bus, no frames   *)
(* and no counters.                                                        *)
(*                                                                         *)
(* The ground asks for one switch at a time.  The switch may or may not    *)
(* take the state asked for; the application may then say that it failed   *)
(* whatever happened, but it says that it succeeded only when the switch is*)
(* in that state, and it never shows a switch state that was not the state *)
(* of the device when it last looked.                                      *)
(***************************************************************************)
CONSTANTS Switch, State, OffState

VARIABLES
    actual,   \* state of each switch of the device
    known,    \* state of each switch in the housekeeping of the application
    pending,  \* the request being carried out, at most one
    verdict   \* what was said of the last one: "none", "success" or "failure"

vars == <<actual, known, pending, verdict>>

Request == [switch : Switch, state : State]

Init ==
    /\ actual \in [Switch -> State]
    /\ known = [s \in Switch |-> OffState]
    /\ pending = {}
    /\ verdict = "none"

Ask(r) ==
    /\ pending = {}
    /\ pending' = {r}
    /\ UNCHANGED <<actual, known, verdict>>

Switches(r) ==
    /\ pending = {r}
    /\ actual' = [actual EXCEPT ![r.switch] = r.state]
    /\ UNCHANGED <<known, pending, verdict>>

Succeed(r) ==
    /\ pending = {r}
    /\ actual[r.switch] = r.state
    /\ known' = actual
    /\ pending' = {}
    /\ verdict' = "success"
    /\ UNCHANGED actual

\* The device did not answer, or it did and the switch is not as asked.
Fail(r) ==
    /\ pending = {r}
    /\ \/ UNCHANGED known
       \/ known' = actual /\ actual[r.switch] # r.state
    /\ pending' = {}
    /\ verdict' = "failure"
    /\ UNCHANGED actual

\* Housekeeping looks at the device.
Look ==
    /\ pending = {}
    /\ known' = actual
    /\ UNCHANGED <<actual, pending, verdict>>

Next ==
    \/ \E r \in Request : Ask(r) \/ Switches(r) \/ Succeed(r) \/ Fail(r)
    \/ Look

Spec == Init /\ [][Next]_vars
=============================================================================
