---------------------------- MODULE MCEpsSystem ----------------------------
(***************************************************************************)
(* EpsSystem with two switches, one on at power-up with an error flag set. *)
(***************************************************************************)
EXTENDS EpsSystem, TLC

CONSTANTS n0, n1   \* model values

MCNodeOf == (0 :> n0) @@ (1 :> n1)
MCInitStatus == (0 :> [flags |-> 1, state |-> ON]) @@ (1 :> [flags |-> 0, state |-> OFF])

Ground(code, length, number, state) ==
    [mid |-> CMD, code |-> code, length |-> length,
     SwitchNumber |-> number, State |-> state]
HkRequest(code) == [Ground(code, NoArgsLength, 8, 0) EXCEPT !.mid = REQ_HK]

\* One message for every way through ProcessCommandPacket.
MCEveryMessage ==
    {Ground(NOOP_CC, NoArgsLength, 8, 0), Ground(NOOP_CC, SwitchLength, 8, 0),
     Ground(RESET_COUNTERS_CC, NoArgsLength, 8, 0),
     Ground(SWITCH_CC, SwitchLength, 0, OFF), Ground(SWITCH_CC, SwitchLength, 1, ON),
     Ground(SWITCH_CC, SwitchLength, 8, ON), Ground(SWITCH_CC, SwitchLength, 1, 1),
     Ground(SWITCH_CC, NoArgsLength, 1, ON), Ground(3, NoArgsLength, 8, 0),
     HkRequest(REQ_HK_TLM), HkRequest(1)}

\* The messages that use the device.
MCDeviceMessage ==
    {Ground(SWITCH_CC, SwitchLength, s, v) : s \in Switch, v \in {OFF, ON}}
    \cup {HkRequest(REQ_HK_TLM)}
=============================================================================
